-------------------------- MODULE ComputationsProofs --------------------------
(***************************************************************************)
(* That the computations compute what their references say, for every      *)
(* input: of any size, and with any bounds.                                *)
(***************************************************************************)
EXTENDS Computations, SequenceTheorems, FiniteSetTheorems, WellFoundedInduction, TLAPS

(* A set of naturals that is not empty has a least element: the            *)
(* well-foundedness of strict inclusion between finite sets.               *)
LEMMA LeastExists ==
  ASSUME NEW S, S \subseteq Nat, S # {}
  PROVE  \E x \in S : \A y \in S : x <= y
  <1> DEFINE T == {0..k : k \in S}
             R == StrictSubsetOrdering(Nat)
  <1>1. IsWellFoundedOn(R, FiniteSubsetsOf(Nat))
    BY FS_StrictSubsetOrderingWellFounded
  <1>2. T \subseteq FiniteSubsetsOf(Nat)
    <2> SUFFICES ASSUME NEW k \in S PROVE 0..k \in FiniteSubsetsOf(Nat)
      OBVIOUS
    <2> QED
      BY FS_Interval DEF FiniteSubsetsOf
  <1>3. T # {}
    OBVIOUS
  <1>4. \E x \in T : \A y \in T : ~(<<y, x>> \in R)
    <2> HIDE DEF T, R
    <2> QED
      BY <1>1, <1>2, <1>3, WFMin
  <1>5. PICK x \in S : \A y \in S : ~(<<0..y, 0..x>> \in R)
    BY <1>4
  <1>6. ASSUME NEW y \in S, y < x PROVE FALSE
    <2>1. <<0..y, 0..x>> \in (SUBSET Nat) \X (SUBSET Nat)
      OBVIOUS
    <2>2. 0..y \subseteq 0..x /\ x \in 0..x /\ x \notin 0..y
      BY <1>6
    <2> QED
      BY <2>1, <2>2, <1>5 DEF StrictSubsetOrdering
  <1> QED
    BY <1>5, <1>6

(* So what holds of 0 and of the successor of any number it holds of, holds*)
(* of every number.                                                        *)
LEMMA Induction ==
  ASSUME NEW S, 0 \in S, \A n \in Nat : n \in S => n + 1 \in S
  PROVE  Nat \subseteq S
  <1> SUFFICES ASSUME Nat \ S # {} PROVE FALSE
    OBVIOUS
  <1>1. PICK x \in Nat \ S : \A y \in Nat \ S : x <= y
    BY LeastExists
  <1>2. x - 1 \in Nat /\ x - 1 \in S
    BY <1>1
  <1> QED
    BY <1>1, <1>2

(* A step taken again and again, from any start.                           *)
IsIteration(f, D, b, step) ==
  f \in [Nat -> D] /\ f[0] = b /\ \A n \in Nat : f[n + 1] = step[<<n, f[n]>>]

LEMMA Iterates ==
  ASSUME NEW D, NEW b \in D, NEW step \in [Nat \X D -> D]
  PROVE  \E f : IsIteration(f, D, b, step)
  <1> DEFINE IsRun(f, n) == f \in [0..n -> D] /\ f[0] = b /\ \A k \in Nat : k + 1 \in 0..n => f[k + 1] = step[<<k, f[k]>>]
  <1>1. \A n \in Nat : \E f : IsRun(f, n)
    <2> DEFINE S == {n \in Nat : \E f : IsRun(f, n)}
    <2>1. 0 \in S
      <3> DEFINE f == [k \in 0..0 |-> b]
      <3>1. IsRun(f, 0)
        OBVIOUS
      <3> HIDE DEF f, IsRun
      <3> QED
        BY <3>1
    <2>2. ASSUME NEW n \in Nat, n \in S
          PROVE  n + 1 \in S
      <3>1. PICK g : IsRun(g, n)
        BY <2>2
      <3> DEFINE f == [k \in 0..n + 1 |-> IF k = n + 1 THEN step[<<n, g[n]>>] ELSE g[k]]
      <3>2. n \in 0..n /\ g[n] \in D /\ step[<<n, g[n]>>] \in D
        BY <3>1
      <3>3. f \in [0..n + 1 -> D] /\ f[0] = b
        BY <3>1, <3>2
      <3>4. ASSUME NEW k \in Nat, k + 1 \in 0..n + 1
            PROVE  f[k + 1] = step[<<k, f[k]>>]
        <4>1. CASE k = n
          <5>1. f[k + 1] = step[<<n, g[n]>>] /\ f[k] = g[n]
            BY <4>1
          <5> QED
            BY <4>1, <5>1
        <4>2. CASE k # n
          <5>1. k + 1 \in 0..n /\ f[k + 1] = g[k + 1] /\ f[k] = g[k]
            BY <3>4, <4>2
          <5> QED
            BY <3>1, <5>1
        <4> QED
          BY <4>1, <4>2
      <3>5. IsRun(f, n + 1)
        <4> HIDE DEF f
        <4> QED
          BY <3>3, <3>4
      <3> HIDE DEF f, IsRun
      <3> QED
        BY <3>5
    <2> HIDE DEF S
    <2>3. Nat \subseteq S
      BY <2>1, <2>2, Induction
    <2> QED
      BY <2>3 DEF S
  <1>2. ASSUME NEW n \in Nat, NEW f, IsRun(f, n), NEW m \in Nat, NEW g, IsRun(g, m), NEW k \in Nat, k <= n, k <= m
        PROVE  f[k] = g[k]
    <2> DEFINE S == {l \in Nat : l <= n /\ l <= m => f[l] = g[l]}
    <2>1. 0 \in S
      BY <1>2
    <2>2. ASSUME NEW l \in Nat, l \in S
          PROVE  l + 1 \in S
      <3> SUFFICES ASSUME l + 1 <= n, l + 1 <= m PROVE f[l + 1] = g[l + 1]
        OBVIOUS
      <3>1. l + 1 \in 0..n /\ l + 1 \in 0..m /\ f[l] = g[l]
        BY <2>2
      <3> QED
        BY <1>2, <3>1
    <2> HIDE DEF S
    <2>3. k \in S
      BY <2>1, <2>2, Induction
    <2> QED
      BY <1>2, <2>3 DEF S
  <1> DEFINE run(n) == CHOOSE f : IsRun(f, n)
             F == [n \in Nat |-> run(n)[n]]
  <1>3. \A n \in Nat : IsRun(run(n), n)
    <2> HIDE DEF IsRun
    <2> QED
      BY <1>1
  <1> HIDE DEF run
  <1>4. F \in [Nat -> D]
    <2>1. \A n \in Nat : run(n)[n] \in D
      BY <1>3
    <2> QED
      BY <2>1
  <1>5. F[0] = b
    <2>1. run(0)[0] = b
      BY <1>3
    <2> QED
      BY <2>1
  <1>6. ASSUME NEW n \in Nat
        PROVE  F[n + 1] = step[<<n, F[n]>>]
    <2>1. IsRun(run(n + 1), n + 1) /\ IsRun(run(n), n)
      BY <1>3
    <2>2. run(n + 1)[n] = run(n)[n]
      <3> HIDE DEF IsRun
      <3> QED
        BY <1>2, <2>1
    <2>3. run(n + 1)[n + 1] = step[<<n, run(n + 1)[n]>>]
      BY <2>1
    <2> QED
      BY <2>2, <2>3
  <1> HIDE DEF F
  <1> QED
    BY <1>4, <1>5, <1>6 DEF IsIteration

LEMMA TheMax ==
  ASSUME NEW S, S \subseteq Int, NEW m \in S, \A k \in S : k <= m
  PROVE  (CHOOSE x \in S : \A y \in S : x >= y) = m
  <1>1. \A x \in S : (\A y \in S : x >= y) => x = m
    OBVIOUS
  <1>2. \A y \in S : m >= y
    OBVIOUS
  <1> QED
    BY <1>1, <1>2

LEMMA TheMin ==
  ASSUME NEW S, S \subseteq Int, NEW m \in S, \A k \in S : m <= k
  PROVE  (CHOOSE x \in S : \A y \in S : x <= y) = m
  <1>1. \A x \in S : (\A y \in S : x <= y) => x = m
    OBVIOUS
  <1> QED
    BY <1>1

-----------------------------------------------------------------------------
(* What is put out is what the task computes from an admissible input.     *)
IsComputed(t, i, o) ==
  \/ /\ t = "capture" /\ i \in CaptureInputs
     /\ o \in {<<>>, <<Scopes!Classify(i.chain, i.inModule, FALSE)>>}
  \/ /\ t = "import" /\ i \in ImportInputs
     /\ o \in {<<>>, <<Scopes!Attribute(i.corpus, i.consumer, i.isInit,
                                            i.file, i.name)>>}
  \/ /\ t = "budget" /\ i \in BudgetInputs
     /\ o \in {<<>>, <<[cut  |-> Budget!ApplyTokenBudget(i.block, i.budget),
                             kept |-> Budget!SectionKept(i.communities, i.budget)]>>}
  \/ /\ t = "hierarchy" /\ i \in HierarchyInputs
     /\ o \in {<<>>, <<Hierarchy!DetectHierarchical(i.leiden, i.entities, i.minSize,
                                                         i.maxLevels)>>}
  \/ /\ t = "resolve" /\ i \in ResolutionInputs
     /\ o \in {<<>>, <<Resolution!Resolve(i.graph, i.table, i.similar)>>}
  \/ /\ t = "bridges" /\ i \in ModuleInputs
     /\ o \in {<<>>, <<BridgeStep!Bridges(i)>>}
  \/ /\ t = "dataflow" /\ i \in StatementInputs
     /\ o \in {<<>>, <<[reads |-> Dataflow!Reads(i), drives |-> Dataflow!DrivesSignal(i)]>>}
  \/ /\ t = "machine" /\ i \in DesignInputs
     /\ o \in {<<>>, <<Fsm!Transitions(i)>>}
  \/ /\ t = "expand" /\ i \in QueryInputs
     /\ o = <<>> \/ \E result \in Queries!Expand(i) : o = <<result>>
  \/ /\ t = "paths" /\ i \in PatternInputs
     /\ \/ o = <<>>
        \/ \E result \in Queries!Evaluate(i.graph, i.seed, i.patterns) : o = <<result>>

ComputesInv == IsComputed(task, input, output)

(* What is put out is what the task computes: the invariant of Compute.    *)
THEOREM Computes == ComputeSpec => []ComputesInv
  <1>1. ComputeInit => ComputesInv
    BY DEF ComputeInit, ComputesInv, IsComputed
  <1>2. ASSUME ComputesInv, [Compute]_cvars
        PROVE  ComputesInv'
    <2>1. CASE UNCHANGED cvars
      <3>1. task' = task /\ input' = input /\ output' = output
        BY <2>1 DEF cvars
      <3> QED
        BY <1>2, <3>1 DEF ComputesInv
    <2>2. CASE ClassifyCapture
      BY <1>2, <2>2 DEF ComputesInv, IsComputed, ClassifyCapture, PutOut
    <2>3. CASE AttributeImport
      BY <1>2, <2>3 DEF ComputesInv, IsComputed, AttributeImport, PutOut
    <2>4. CASE FormatContext
      BY <1>2, <2>4 DEF ComputesInv, IsComputed, FormatContext, PutOut
    <2>5. CASE DetectHierarchical
      BY <1>2, <2>5 DEF ComputesInv, IsComputed, DetectHierarchical, PutOut
    <2>6. CASE ResolveEntities
      BY <1>2, <2>6 DEF ComputesInv, IsComputed, ResolveEntities, PutOut
    <2>7. CASE EmitBridges
      BY <1>2, <2>7 DEF ComputesInv, IsComputed, EmitBridges, PutOut
    <2>8. CASE EmitDataflow
      BY <1>2, <2>8 DEF ComputesInv, IsComputed, EmitDataflow, PutOut
    <2>9. CASE EmitFsmEdges
      BY <1>2, <2>9 DEF ComputesInv, IsComputed, EmitFsmEdges, PutOut
    <2>10. CASE ExpandQuery
      BY <1>2, <2>10 DEF ComputesInv, IsComputed, ExpandQuery, PutOut
    <2>11. CASE EvaluatePatterns
      BY <1>2, <2>11 DEF ComputesInv, IsComputed, EvaluatePatterns, PutOut
    <2> QED
      BY <1>2, <2>1, <2>2, <2>3, <2>4, <2>5, <2>6, <2>7, <2>8, <2>9, <2>10, <2>11 DEF Compute
  <1> QED
    BY <1>1, <1>2, PTL DEF ComputeSpec

-----------------------------------------------------------------------------
(* Captured names.  A frame decides where a name is looked up, unless it is*)
(* a class body, the name is in its header, or the name is neither declared*)
(* global nor bound in it.                                                 *)
Decides(chain, m) ==
  /\ chain[m].kind # "class" /\ ~chain[m].header
  /\ \/ chain[m].form = "global"
     \/ chain[m].form # "nonlocal" /\ Scopes!PythonBinds(chain, m)

(* The innermost of the first i frames that decides is one that binds.     *)
FoundWithin(chain, i) ==
  \E m \in 1..i : /\ Decides(chain, m) /\ chain[m].form # "global"
                  /\ \A k \in 1..i : Decides(chain, k) => k <= m

(* The analysis from the module inwards finds what the innermost frame that*)
(* decides says: it has these values, and no others.                       *)
LEMMA LooksAreFound ==
  ASSUME NEW chain \in Seq(Scopes!Frame), NEW i \in 0..Len(chain)
  PROVE  Scopes!LooksAfter(chain)[i] = IF FoundWithin(chain, i) THEN "enclosing" ELSE "globals"
  <1> DEFINE N == Len(chain)
             Looks(f, n) == IF n = 0 THEN "globals"
                            ELSE IF chain[n].kind = "class" \/ chain[n].header THEN f[n - 1]
                            ELSE IF chain[n].form = "global" THEN "globals"
                            ELSE IF chain[n].form # "nonlocal" /\ Scopes!PythonBinds(chain, n)
                                 THEN "enclosing"
                            ELSE f[n - 1]
             G == [n \in 0..N |-> IF FoundWithin(chain, n) THEN "enclosing" ELSE "globals"]
             L == Scopes!LooksAfter(chain)
  <1>1. N \in Nat
    OBVIOUS
  <1>2. L = CHOOSE f : f = [n \in 0..N |-> Looks(f, n)]
    BY DEF Scopes!LooksAfter
  <1>3. ASSUME NEW n \in 0..N
        PROVE  G[n] = Looks(G, n)
    <2>1. CASE n = 0
      BY <1>1, <2>1 DEF FoundWithin
    <2>2. CASE n # 0
      <3>1. n \in 1..N /\ n - 1 \in 0..N
        BY <1>1, <2>2
      <3>2. G[n] = (IF FoundWithin(chain, n) THEN "enclosing" ELSE "globals")
            /\ G[n - 1] = (IF FoundWithin(chain, n - 1) THEN "enclosing" ELSE "globals")
        BY <3>1
      <3>3. CASE ~Decides(chain, n)
        <4>1. FoundWithin(chain, n) <=> FoundWithin(chain, n - 1)
          BY <3>1, <3>3 DEF FoundWithin
        <4> QED
          BY <2>2, <3>2, <3>3, <4>1 DEF Decides
      <3>4. CASE Decides(chain, n)
        <4>1. FoundWithin(chain, n) <=> chain[n].form # "global"
          BY <3>1, <3>4 DEF FoundWithin
        <4> QED
          BY <2>2, <3>2, <3>4, <4>1 DEF Decides
      <3> QED
        BY <3>3, <3>4
    <2> QED
      BY <2>1, <2>2
  <1>4. L = [n \in 0..N |-> Looks(L, n)]
    <2>1. G = [n \in 0..N |-> Looks(G, n)]
      <3> HIDE DEF Looks
      <3> QED
        BY <1>3
    <2> HIDE DEF G, L, Looks
    <2> QED
      BY <1>2, <2>1
  <1> HIDE DEF L
  <1>5. \A n \in 0..N : L[n] = G[n]
    <2> DEFINE S == {n \in Nat : n \in 0..N => L[n] = G[n]}
    <2>1. 0 \in S
      <3>1. L[0] = Looks(L, 0) /\ G[0] = Looks(G, 0)
        <4> HIDE DEF Looks, G
        <4> QED
          BY <1>1, <1>3, <1>4
      <3> HIDE DEF G
      <3> QED
        BY <3>1
    <2>2. ASSUME NEW n \in Nat, n \in S
          PROVE  n + 1 \in S
      <3> SUFFICES ASSUME n + 1 \in 0..N PROVE L[n + 1] = G[n + 1]
        OBVIOUS
      <3>1. L[n + 1] = Looks(L, n + 1) /\ G[n + 1] = Looks(G, n + 1)
        <4> HIDE DEF Looks, G
        <4> QED
          BY <1>3, <1>4
      <3>2. n + 1 # 0 /\ (n + 1) - 1 = n /\ L[n] = G[n]
        BY <2>2
      <3> HIDE DEF G
      <3> QED
        BY <3>1, <3>2
    <2>3. Nat \subseteq S
      <3> HIDE DEF S
      <3> QED
        BY <2>1, <2>2, Induction
    <2>4. \A n \in 0..N : n \in S
      <3> HIDE DEF S
      <3> QED
        BY <1>1, <2>3
    <2> HIDE DEF G, Looks
    <2> QED
      BY <2>4
  <1> QED
    BY <1>5 DEF L

(* So the code, which looks from the lambda outwards, says enclosing when  *)
(* Python does.                                                            *)
LEMMA CapturesLookAlike ==
  ASSUME NEW chain \in Seq(Scopes!Frame), Scopes!Compiles(chain),
         BodiesOnly(chain), NEW inModule
  PROVE  Scopes!Classify(chain, inModule, FALSE) = "local-in-enclosing"
           <=> Scopes!PythonLooks(chain) = "enclosing"
  <1> DEFINE N == Len(chain)
             S == Scopes!StopsAt(chain)
             Stopped == S # {} /\ chain[Scopes!Max(S)].form # "global"
  <1>1. N \in Nat /\ DOMAIN chain = 1..N
    OBVIOUS
  <1>2. \A i \in 1..N : /\ chain[i].kind \in {"function", "class", "lambda", "comprehension"}
                        /\ chain[i].form \in {"absent", "bound", "walrus", "global", "nonlocal"}
                        /\ chain[i].header \in BOOLEAN
    <2>1. \A i \in 1..N : chain[i] \in Scopes!Frame
      BY <1>1, ElementOfSeq
    <2> QED
      BY <2>1 DEF Scopes!Frame
  <1>3. Scopes!Classify(chain, inModule, FALSE) = "local-in-enclosing" <=> Stopped
    <2> HIDE DEF S
    <2>1. S = Scopes!StopsAt(chain)
      BY DEF S
    <2> QED
      BY <2>1 DEF Scopes!Classify
  <1>4. Scopes!PythonLooks(chain) = "enclosing" <=> FoundWithin(chain, N)
    BY <1>1, LooksAreFound DEF Scopes!PythonLooks
  <1>5. \A i \in 1..N : i \in S <=> Decides(chain, i) \/ (chain[i].kind # "class" /\ chain[i].form = "nonlocal")
    <2> SUFFICES ASSUME NEW i \in 1..N, chain[i].kind # "class", chain[i].form # "nonlocal"
                 PROVE  (chain[i].form = "global" \/ Scopes!FrameBinds(chain, i)) <=> Decides(chain, i)
      BY <1>1 DEF Scopes!StopsAt, Decides
    <2>1. /\ chain[i].header => chain[i].form \in {"absent", "nonlocal", "walrus"}
          /\ chain[i].kind = "lambda" => ~Scopes!WalrusInside(chain, i) /\ chain[i].form # "walrus"
      BY <1>1 DEF BodiesOnly
    <2>2. CASE chain[i].header
      BY <1>1, <1>2, <2>1, <2>2 DEF Scopes!FrameBinds, Scopes!WalrusInside, Decides
    <2>3. CASE ~chain[i].header
      <3>1. Scopes!AssignedInside(chain, i) <=> Scopes!WalrusInside(chain, i)
        <4>1. ASSUME Scopes!WalrusInside(chain, i) PROVE Scopes!AssignedInside(chain, i)
          <5>1. PICK j \in (i + 1)..N : /\ chain[j].form = "walrus"
                                        /\ \A k \in (i + 1)..j : chain[k].kind = "comprehension"
            BY <4>1 DEF Scopes!WalrusInside
          <5>2. chain[j].kind = "comprehension" /\ \A k \in (i + 1)..(j - 1) : k \in (i + 1)..j
            BY <5>1
          <5> QED
            BY <5>1, <5>2 DEF Scopes!AssignedInside
        <4>2. ASSUME Scopes!AssignedInside(chain, i) PROVE Scopes!WalrusInside(chain, i)
          <5>1. PICK j \in (i + 1)..N :
                  /\ chain[j].kind = "comprehension" /\ chain[j].form = "walrus"
                  /\ \A k \in (i + 1)..(j - 1) : chain[k].kind = "comprehension" \/ chain[k].header
            BY <4>2 DEF Scopes!AssignedInside
          <5>2. j \in 1..N /\ \A k \in 1..(j - 1) : ~chain[k].header
            BY <1>1, <5>1 DEF BodiesOnly
          <5>3. \A k \in (i + 1)..j : chain[k].kind = "comprehension"
            <6>1. \A k \in (i + 1)..j : k = j \/ (k \in (i + 1)..(j - 1) /\ k \in 1..(j - 1))
              BY <5>1
            <6> QED
              BY <5>1, <5>2, <6>1
          <5> QED
            BY <2>3, <5>1, <5>3 DEF Scopes!WalrusInside
        <4> QED
          BY <4>1, <4>2
      <3> QED
        BY <1>2, <2>1, <2>3, <3>1 DEF Scopes!FrameBinds, Scopes!PythonBinds, Decides
    <2> QED
      BY <2>2, <2>3
  <1>6. ASSUME NEW i \in 1..N, chain[i].form = "nonlocal"
        PROVE  FoundWithin(chain, i - 1)
    <2>1. i - 1 \in 0..N /\ Scopes!LooksAfter(chain)[i - 1] = "enclosing"
      BY <1>1, <1>6 DEF Scopes!Compiles
    <2> QED
      BY <2>1, LooksAreFound
  <1>7. CASE S = {}
    BY <1>3, <1>4, <1>5, <1>7 DEF FoundWithin
  <1>8. CASE S # {}
    <2>1. S \subseteq 1..N
      BY <1>1 DEF Scopes!StopsAt
    <2>2. PICK m \in S : \A k \in S : k <= m
      <3> DEFINE T == {N - k : k \in S}
      <3> HIDE DEF S
      <3>1. T \subseteq Nat /\ T # {}
        <4>1. \A k \in S : N - k \in Nat
          BY <1>1, <2>1
        <4> QED
          BY <1>8, <4>1
      <3>2. \E j \in T : \A l \in T : j <= l
        <4> HIDE DEF T
        <4> QED
          BY <3>1, LeastExists
      <3>3. PICK m \in S : \A k \in S : N - m <= N - k
        BY <3>2
      <3> QED
        BY <1>1, <2>1, <3>3
    <2>3. Scopes!Max(S) = m
      <3> HIDE DEF S
      <3> QED
        <4>1. S \subseteq Int
          BY <1>1, <2>1
        <4>2. (CHOOSE x \in S : \A y \in S : x >= y) = m
          BY <2>2, <4>1, TheMax
        <4> QED
          BY <4>2 DEF Scopes!Max
    <2>4. Stopped <=> chain[m].form # "global"
      BY <1>8, <2>3
    <2>5. CASE Decides(chain, m)
      <3>1. \A k \in 1..N : Decides(chain, k) => k <= m
        BY <1>5, <2>2
      <3>2. ASSUME FoundWithin(chain, N) PROVE chain[m].form # "global"
        <4>1. PICK l \in 1..N : /\ Decides(chain, l) /\ chain[l].form # "global"
                               /\ \A k \in 1..N : Decides(chain, k) => k <= l
          BY <3>2 DEF FoundWithin
        <4>2. l = m
          BY <1>1, <2>1, <2>5, <3>1, <4>1
        <4> QED
          BY <4>1, <4>2
      <3> QED
        BY <1>3, <1>4, <2>1, <2>4, <2>5, <3>1, <3>2 DEF FoundWithin
    <2>6. CASE ~Decides(chain, m)
      <3>1. chain[m].form = "nonlocal"
        BY <1>5, <2>1, <2>2, <2>6
      <3>2. \A k \in 1..N : Decides(chain, k) => k <= m - 1
        BY <1>1, <1>5, <2>1, <2>2, <2>6
      <3>3. FoundWithin(chain, m - 1)
        BY <1>6, <2>1, <3>1
      <3>4. FoundWithin(chain, N)
        <4> HIDE DEF S, N
        <4> QED
          BY <1>1, <2>1, <3>2, <3>3 DEF FoundWithin
      <3> QED
        BY <1>3, <1>4, <2>4, <3>1, <3>4
    <2> QED
      BY <2>5, <2>6
  <1> QED
    BY <1>7, <1>8

(* A captured name is said to be local in an enclosing scope exactly when  *)
(* Python looks for it there, through frames nested to any depth, as long  *)
(* as no assignment expression binds in a lambda and no frame says anything*)
(* of the name to what is in its header (BodiesOnly).                      *)
THEOREM CapturesLookRight == ComputeSpec => []LooksWherePythonLooks
  <1>1. ComputesInv => LooksWherePythonLooks
    <2> SUFFICES ASSUME ComputesInv, Computed("capture"), BodiesOnly(input.chain)
                 PROVE  output[1] = "local-in-enclosing" <=> Scopes!PythonLooks(input.chain) = "enclosing"
      BY DEF LooksWherePythonLooks
    <2>1. /\ input \in CaptureInputs
          /\ output = <<Scopes!Classify(input.chain, input.inModule, FALSE)>>
      BY DEF ComputesInv, IsComputed, Computed
    <2>2. input.chain \in Seq(Scopes!Frame) /\ Scopes!Compiles(input.chain)
      BY <2>1, CaptureAssumption
    <2>3. Scopes!Classify(input.chain, input.inModule, FALSE) = "local-in-enclosing"
            <=> Scopes!PythonLooks(input.chain) = "enclosing"
      BY <2>2, CapturesLookAlike
    <2> QED
      BY <2>1, <2>3
  <1> QED
    BY <1>1, Computes, PTL

-----------------------------------------------------------------------------
(* The terms of a query.  A walk of n hops.                                *)
Walked(V, hops, x, y, n) ==
  \E w \in [0..n -> V] : w[0] = x /\ w[n] = y /\ \A i \in 1..n : <<w[i - 1], w[i]>> \in hops

LEMMA WalksGrow ==
  ASSUME NEW V, NEW hops \in SUBSET (V \X V), NEW x \in V, NEW n \in Nat, NEW y
  PROVE  Walked(V, hops, x, y, n + 1) <=> \E z \in V : Walked(V, hops, x, z, n) /\ <<z, y>> \in hops
  <1>1. ASSUME Walked(V, hops, x, y, n + 1)
        PROVE  \E z \in V : Walked(V, hops, x, z, n) /\ <<z, y>> \in hops
    <2>1. PICK w \in [0..n + 1 -> V] :
            w[0] = x /\ w[n + 1] = y /\ \A i \in 1..n + 1 : <<w[i - 1], w[i]>> \in hops
      BY <1>1 DEF Walked
    <2> DEFINE v == [i \in 0..n |-> w[i]]
    <2>2. v \in [0..n -> V] /\ v[0] = x /\ v[n] = w[n]
      BY <2>1
    <2>3. \A i \in 1..n : <<v[i - 1], v[i]>> \in hops
      BY <2>1
    <2>4. Walked(V, hops, x, w[n], n)
      <3> HIDE DEF v
      <3> QED
        BY <2>2, <2>3 DEF Walked
    <2>5. <<w[n], w[n + 1]>> \in hops
      <3>1. n + 1 \in 1..n + 1 /\ (n + 1) - 1 = n
        OBVIOUS
      <3> QED
        BY <2>1, <3>1
    <2>6. w[n] \in V
      BY <2>1
    <2> QED
      BY <2>1, <2>4, <2>5, <2>6
  <1>2. ASSUME NEW z \in V, Walked(V, hops, x, z, n), <<z, y>> \in hops
        PROVE  Walked(V, hops, x, y, n + 1)
    <2>1. PICK w \in [0..n -> V] :
            w[0] = x /\ w[n] = z /\ \A i \in 1..n : <<w[i - 1], w[i]>> \in hops
      BY <1>2 DEF Walked
    <2> DEFINE v == [i \in 0..n + 1 |-> IF i = n + 1 THEN y ELSE w[i]]
    <2>2. y \in V
      BY <1>2
    <2>3. v \in [0..n + 1 -> V] /\ v[0] = x /\ v[n + 1] = y
      BY <2>1, <2>2
    <2>4. ASSUME NEW i \in 1..n + 1
          PROVE  <<v[i - 1], v[i]>> \in hops
      <3>1. CASE i = n + 1
        <4>1. v[i] = y /\ v[i - 1] = w[n]
          BY <3>1
        <4> QED
          BY <1>2, <2>1, <4>1
      <3>2. CASE i # n + 1
        <4>1. i \in 1..n /\ v[i] = w[i] /\ v[i - 1] = w[i - 1]
          BY <3>2
        <4> QED
          BY <2>1, <4>1
      <3> QED
        BY <3>1, <3>2
    <2> HIDE DEF v
    <2> QED
      BY <2>3, <2>4 DEF Walked
  <1> QED
    BY <1>1, <1>2

(* The search level by level finds what a walk of at most depth hops ends  *)
(* at.                                                                     *)
LEMMA WithinWalks ==
  ASSUME NEW V, NEW hops \in SUBSET (V \X V), NEW x \in V, NEW depth \in Nat
  PROVE  \A y : y \in Queries!Within(hops, x, depth)
                 <=> y \in V /\ \E n \in 0..depth : Walked(V, hops, x, y, n)
  <1> DEFINE Next1(S) == {h[2] : h \in {k \in hops : k[1] \in S}}
             Level(f, n) == IF n = 0 THEN {x} ELSE f[n - 1] \union Next1(f[n - 1])
             L == CHOOSE f : f = [n \in 0..depth |-> Level(f, n)]
             W(n) == {y \in V : \E m \in 0..n : Walked(V, hops, x, y, m)}
             G == [n \in 0..depth |-> W(n)]
  <1>1. Queries!Within(hops, x, depth) = L[depth]
    BY DEF Queries!Within
  <1>2. W(0) = {x}
    <2>1. \A y \in V : Walked(V, hops, x, y, 0) => y = x
      BY DEF Walked
    <2>2. Walked(V, hops, x, x, 0)
      <3> DEFINE w == [i \in 0..0 |-> x]
      <3>1. w \in [0..0 -> V] /\ w[0] = x /\ \A i \in 1..0 : <<w[i - 1], w[i]>> \in hops
        OBVIOUS
      <3> HIDE DEF w
      <3> QED
        BY <3>1 DEF Walked
    <2>3. 0..0 = {0}
      OBVIOUS
    <2> QED
      BY <2>1, <2>2, <2>3
  <1>3. ASSUME NEW n \in Nat
        PROVE  W(n + 1) = W(n) \union Next1(W(n))
    <2>1. \A y : Walked(V, hops, x, y, n + 1) <=> \E z \in V : Walked(V, hops, x, z, n) /\ <<z, y>> \in hops
      BY WalksGrow
    <2>2. W(n + 1) \subseteq W(n) \union Next1(W(n))
      <3> SUFFICES ASSUME NEW y \in V, NEW m \in 0..n + 1, Walked(V, hops, x, y, m), m \notin 0..n
                   PROVE  y \in Next1(W(n))
        OBVIOUS
      <3>1. m = n + 1
        OBVIOUS
      <3>2. PICK z \in V : Walked(V, hops, x, z, n) /\ <<z, y>> \in hops
        BY <2>1, <3>1
      <3>3. z \in W(n)
        BY <3>2
      <3> HIDE DEF W
      <3> QED
        BY <3>2, <3>3
    <2>3. W(n) \subseteq W(n + 1)
      OBVIOUS
    <2>4. ASSUME NEW h \in hops, h[1] \in W(n)
          PROVE  h[2] \in W(n + 1)
      <3>1. PICK m \in 0..n : Walked(V, hops, x, h[1], m)
        BY <2>4
      <3>2. h = <<h[1], h[2]>> /\ h[1] \in V /\ h[2] \in V
        OBVIOUS
      <3>3. Walked(V, hops, x, h[2], m + 1)
        BY <3>1, <3>2, WalksGrow
      <3>4. m + 1 \in 0..n + 1
        OBVIOUS
      <3> QED
        BY <3>2, <3>3, <3>4
    <2> HIDE DEF W
    <2> QED
      BY <2>2, <2>3, <2>4
  <1>4. \A n \in 0..depth : G[n] = Level(G, n)
    <2> SUFFICES ASSUME NEW n \in 0..depth PROVE G[n] = Level(G, n)
      OBVIOUS
    <2>1. CASE n = 0
      <3>1. G[n] = W(0)
        <4> HIDE DEF W
        <4> QED
          BY <2>1
      <3> QED
        BY <1>2, <2>1, <3>1
    <2>2. CASE n # 0
      <3>1. n - 1 \in Nat /\ n - 1 \in 0..depth /\ (n - 1) + 1 = n
        BY <2>2
      <3>2. W(n) = W(n - 1) \union Next1(W(n - 1))
        <4> HIDE DEF W, Next1
        <4> QED
          BY <1>3, <3>1
      <3>3. G[n] = W(n) /\ G[n - 1] = W(n - 1)
        <4> HIDE DEF W
        <4> QED
          BY <3>1
      <3> HIDE DEF W, G, Next1
      <3> QED
        BY <2>2, <3>2, <3>3
    <2> QED
      BY <2>1, <2>2
  <1> HIDE DEF W, Next1
  <1>5. L = [n \in 0..depth |-> Level(L, n)]
    <2> HIDE DEF Level
    <2>1. G = [n \in 0..depth |-> Level(G, n)]
      BY <1>4
    <2> HIDE DEF G
    <2> QED
      BY <2>1
  <1> HIDE DEF L
  <1>6. L[depth] = G[depth]
    <2> DEFINE S == {n \in Nat : n \in 0..depth => L[n] = G[n]}
    <2>1. 0 \in S
      <3>1. L[0] = Level(L, 0) /\ G[0] = Level(G, 0)
        <4> HIDE DEF G, Level
        <4> QED
          BY <1>4, <1>5
      <3> HIDE DEF G
      <3> QED
        BY <3>1
    <2>2. ASSUME NEW n \in Nat, n \in S
          PROVE  n + 1 \in S
      <3> SUFFICES ASSUME n + 1 \in 0..depth PROVE L[n + 1] = G[n + 1]
        OBVIOUS
      <3>1. L[n + 1] = Level(L, n + 1) /\ G[n + 1] = Level(G, n + 1)
        <4> HIDE DEF G, Level
        <4> QED
          BY <1>4, <1>5
      <3>2. n + 1 # 0 /\ (n + 1) - 1 = n /\ L[n] = G[n]
        BY <2>2
      <3> HIDE DEF G
      <3> QED
        BY <3>1, <3>2
    <2>3. depth \in S
      <3> HIDE DEF S
      <3> QED
        BY <2>1, <2>2, Induction
    <2> HIDE DEF G
    <2> QED
      BY <2>3
  <1> QED
    BY <1>1, <1>6 DEF W

LEMMA SameCardinality ==
  \A S : Queries!Cardinality(S) = Cardinality(S)
  BY DEF Queries!Cardinality, Cardinality

LEMMA CutBound ==
  ASSUME NEW S, IsFiniteSet(S), NEW n \in Nat, NEW T \in Queries!Cut(S, n)
  PROVE  /\ T \subseteq S /\ IsFiniteSet(T)
         /\ Cardinality(T) \in 0..n
         /\ T = S \/ Cardinality(T) = n
  <1>1. T \subseteq S /\ ((T = S /\ Cardinality(T) <= n) \/ Cardinality(T) = n)
    BY SameCardinality DEF Queries!Cut, Queries!kSubset
  <1>2. IsFiniteSet(T) /\ Cardinality(T) \in Nat
    BY <1>1, FS_Subset, FS_CardinalityType
  <1> QED
    BY <1>1, <1>2

LEMMA SameDepth ==
  ASSUME NEW q \in QueryInputs
  PROVE  Queries!EffectiveDepth(q) = HopLimit(q) /\ HopLimit(q) \in Nat
  <1> DEFINE leads == \E e \in q.graph.edges : e[1] \in q.seeds /\ e[2] = "connects_to"
  <1>1. q.depth \in Nat
    BY QueryAssumption
  <1>2. Max({2, q.depth}) = IF q.depth < 2 THEN 2 ELSE q.depth
    <2>1. CASE q.depth < 2
      <3>1. {2, q.depth} \subseteq Int /\ \A k \in {2, q.depth} : k <= 2
        BY <1>1, <2>1
      <3>2. (CHOOSE x \in {2, q.depth} : \A y \in {2, q.depth} : x >= y) = 2
        BY <3>1, TheMax
      <3> QED
        BY <2>1, <3>2 DEF Max
    <2>2. CASE ~(q.depth < 2)
      <3>1. {2, q.depth} \subseteq Int /\ \A k \in {2, q.depth} : k <= q.depth
        BY <1>1, <2>2
      <3>2. (CHOOSE x \in {2, q.depth} : \A y \in {2, q.depth} : x >= y) = q.depth
        BY <3>1, TheMax
      <3> QED
        BY <2>2, <3>2 DEF Max
    <2> QED
      BY <2>1, <2>2
  <1>3. leads <=> \E x \in q.seeds, e \in q.graph.edges : e[1] = x /\ e[2] = "connects_to"
    OBVIOUS
  <1> HIDE DEF leads
  <1>4. Queries!EffectiveDepth(q) = IF q.depth < 2 /\ leads THEN 2 ELSE q.depth
    BY <1>3 DEF Queries!EffectiveDepth
  <1>5. HopLimit(q) = IF leads THEN Max({2, q.depth}) ELSE q.depth
    BY DEF HopLimit, leads
  <1> QED
    BY <1>1, <1>2, <1>4, <1>5

(* What a search of the limited depth adds to the predecessors of a seed   *)
(* is what a walk along hops of the query reaches: both ways with types,   *)
(* along the edges without.                                                *)
LEMMA NeighboursReached ==
  ASSUME NEW q \in QueryInputs, NEW x \in q.seeds
  PROVE  /\ Queries!Neighbours(q, x) \subseteq
              {y \in q.graph.nodes : Reaches(q, q.types # {}, x, y)} \union Queries!Predecessors(q.graph, x)
         /\ {y \in q.graph.nodes : Reaches(q, q.types # {}, x, y)} \ {x} \subseteq Queries!Neighbours(q, x)
  <1> DEFINE V == q.graph.nodes
             E == q.graph.edges
             D == HopLimit(q)
             both == q.types # {}
             typed == both /\ D # 0
             hops == IF typed THEN Queries!TypedHops(q.graph, q.types) ELSE Queries!Forward(E)
  <1>1. E \subseteq V \X STRING \X V /\ Canon[x] = x /\ D \in Nat
    BY QueryAssumption, SameDepth
  <1>2. \A e \in E : e[1] \in V /\ e[3] \in V
    BY <1>1
  <1>3. hops \in SUBSET (V \X V)
    BY <1>2 DEF Queries!TypedHops, Queries!Forward, Queries!Backward
  <1>4. D # 0 => \A y, z : <<y, z>> \in hops <=> Hop(q, both, y, z)
    <2> SUFFICES ASSUME D # 0, NEW y, NEW z PROVE <<y, z>> \in hops <=> Hop(q, both, y, z)
      <3> HIDE DEF hops, both, D
      <3> QED
        OBVIOUS
    <2>1. CASE both
      <3>1. Hop(q, both, y, z) <=>
              \E e \in E : e[2] \in q.types /\ ((e[1] = y /\ e[3] = z) \/ (e[1] = z /\ e[3] = y))
        BY <2>1 DEF Hop
      <3>2. <<y, z>> \in hops <=> <<y, z>> \in Queries!TypedHops(q.graph, q.types)
        BY <2>1
      <3> HIDE DEF hops
      <3> QED
        BY <3>1, <3>2 DEF Queries!TypedHops, Queries!Forward, Queries!Backward
    <2>2. CASE ~both
      <3>1. Hop(q, both, y, z) <=> \E e \in E : e[1] = y /\ e[3] = z
        BY <2>2 DEF Hop
      <3>2. <<y, z>> \in hops <=> <<y, z>> \in Queries!Forward(E)
        BY <2>2
      <3> HIDE DEF hops
      <3> QED
        BY <3>1, <3>2 DEF Queries!Forward
    <2> QED
      BY <2>1, <2>2
  <1>5. \A y : Reaches(q, both, x, y) <=> \E n \in 1..D : Walked(V, hops, x, y, n)
    <2>1. CASE D = 0
      <3>1. 1..D = {}
        BY <2>1
      <3> HIDE DEF D
      <3> QED
        BY <3>1 DEF Reaches, D
    <2>2. CASE D # 0
      <3>1. \A y, z : <<y, z>> \in hops <=> Hop(q, both, y, z)
        BY <1>4, <2>2
      <3> HIDE DEF hops
      <3> QED
        BY <3>1 DEF Reaches, Walked
    <2> QED
      BY <2>1, <2>2
  <1>6. Queries!Neighbours(q, x) =
          IF x \notin V THEN {}
          ELSE IF typed THEN Queries!Within(hops, x, D) \ {x}
          ELSE (Queries!Within(hops, x, D) \union Queries!Predecessors(q.graph, x)) \ {x}
    <2>1. Queries!EffectiveDepth(q) = D
      BY SameDepth
    <2>2. typed <=> q.types # {} /\ D >= 1
      BY <1>1
    <2> HIDE DEF D
    <2> QED
      BY <1>1, <2>1, <2>2 DEF Queries!Neighbours, Queries!QueryNeighborsTyped, Queries!QueryNeighbors
  <1>7. CASE x \notin V
    <2>1. \A y, n : ~Walked(V, hops, x, y, n) \/ n \notin Nat
      BY <1>7 DEF Walked
    <2> HIDE DEF hops
    <2> QED
      BY <1>1, <1>5, <1>6, <1>7, <2>1
  <1>8. CASE x \in V
    <2> HIDE DEF hops, typed
    <2>1. \A y : y \in Queries!Within(hops, x, D)
                   <=> y \in V /\ \E n \in 0..D : Walked(V, hops, x, y, n)
      <3>1. D \in Nat
        BY <1>1
      <3> HIDE DEF V, D
      <3> QED
        BY <1>3, <1>8, <3>1, WithinWalks
    <2>2. \A y : Walked(V, hops, x, y, 0) => y = x
      BY DEF Walked
    <2>3. Queries!Within(hops, x, D) \ {x} = {y \in V : Reaches(q, both, x, y)} \ {x}
      <3>1. \A n \in 0..D : n # 0 => n \in 1..D
        BY <1>1
      <3>2. \A n \in 1..D : n \in 0..D
        BY <1>1
      <3> HIDE DEF V, D, both
      <3> QED
        BY <1>5, <2>1, <2>2, <3>1, <3>2
    <2> HIDE DEF D
    <2> QED
      BY <1>6, <1>8, <2>3
  <1> QED
    BY <1>7, <1>8

LEMMA ExpandedIsRelated ==
  ASSUME NEW q \in QueryInputs
  PROVE  Queries!Expanded(q) = Related(q, q.types # {})
  <1> DEFINE both == q.types # {}
             R(x) == {y \in q.graph.nodes : Reaches(q, both, x, y)}
  <1>1. \A x : Queries!Predecessors(q.graph, x) = {y \in q.graph.nodes : \E e \in q.graph.edges : e[1] = y /\ e[3] = x}
    <2>1. \A e \in q.graph.edges : e[1] \in q.graph.nodes
      BY QueryAssumption
    <2> QED
      BY <2>1 DEF Queries!Predecessors
  <1>2. \A x \in q.seeds : /\ Queries!Neighbours(q, x) \subseteq R(x) \union Queries!Predecessors(q.graph, x)
                           /\ R(x) \ {x} \subseteq Queries!Neighbours(q, x)
    BY NeighboursReached
  <1> HIDE DEF both
  <1>3. \A x, y : Reaches(q, both, x, y) => y \in q.graph.nodes
    <2>1. HopLimit(q) \in Nat
      BY SameDepth
    <2> SUFFICES ASSUME NEW x, NEW y, Reaches(q, both, x, y) PROVE y \in q.graph.nodes
      OBVIOUS
    <2>2. PICK n \in 1..HopLimit(q) : \E w \in [0..n -> q.graph.nodes] : w[n] = y
      BY DEF Reaches
    <2>3. n \in 0..n
      BY <2>1
    <2> QED
      BY <2>2, <2>3
  <1>4. Queries!Expanded(q) \subseteq Related(q, both)
    <2> SUFFICES ASSUME NEW y \in Queries!Expanded(q) PROVE y \in Related(q, both)
      OBVIOUS
    <2>1. CASE y \in q.seeds
      BY <2>1 DEF Related
    <2>2. ASSUME NEW x \in q.seeds, y \in Queries!Neighbours(q, x) \union Queries!Predecessors(q.graph, x)
          PROVE  y \in Related(q, both)
      BY <1>1, <1>2, <2>2 DEF Related
    <2> QED
      BY <2>1, <2>2 DEF Queries!Expanded
  <1>5. Related(q, both) \subseteq Queries!Expanded(q)
    <2> SUFFICES ASSUME NEW y \in Related(q, both), y \notin q.seeds PROVE y \in Queries!Expanded(q)
      BY DEF Queries!Expanded
    <2>1. PICK x \in q.seeds : Reaches(q, both, x, y) \/ \E e \in q.graph.edges : e[1] = y /\ e[3] = x
      BY DEF Related
    <2>2. y \in Queries!Neighbours(q, x) \union Queries!Predecessors(q.graph, x)
      BY <1>1, <1>2, <1>3, <2>1 DEF Related
    <2> QED
      BY <2>2 DEF Queries!Expanded
  <1> QED
    BY <1>4, <1>5 DEF both

(* A walk along the edges is one both ways; a walk of one hop against an   *)
(* edge comes to a predecessor.                                            *)
LEMMA RelatedBothWays ==
  ASSUME NEW q \in QueryInputs
  PROVE  /\ Related(q, FALSE) \subseteq Related(q, TRUE)
         /\ q.types = {} /\ HopLimit(q) < 2 => Related(q, TRUE) = Related(q, FALSE)
  <1>1. \A x, y : Hop(q, FALSE, x, y) => Hop(q, TRUE, x, y)
    BY DEF Hop
  <1>2. \A x, y : Reaches(q, FALSE, x, y) => Reaches(q, TRUE, x, y)
    <2> SUFFICES ASSUME NEW x, NEW y, Reaches(q, FALSE, x, y) PROVE Reaches(q, TRUE, x, y)
      OBVIOUS
    <2>1. PICK n \in 1..HopLimit(q) : \E w \in [0..n -> q.graph.nodes] :
            w[0] = x /\ w[n] = y /\ \A i \in 1..n : Hop(q, FALSE, w[i - 1], w[i])
      BY DEF Reaches
    <2> QED
      BY <1>1, <2>1 DEF Reaches
  <1>3. Related(q, FALSE) \subseteq Related(q, TRUE)
    BY <1>2 DEF Related
  <1>4. ASSUME q.types = {}, HopLimit(q) < 2
        PROVE  Related(q, TRUE) \subseteq Related(q, FALSE)
    <2>1. ASSUME NEW x, NEW y, Reaches(q, TRUE, x, y)
          PROVE  Reaches(q, FALSE, x, y) \/ \E e \in q.graph.edges : e[1] = y /\ e[3] = x
      <3>0. PICK n \in 1..HopLimit(q) : \E w \in [0..n -> q.graph.nodes] :
              w[0] = x /\ w[n] = y /\ \A i \in 1..n : Hop(q, TRUE, w[i - 1], w[i])
        BY <2>1 DEF Reaches
      <3>1. PICK w \in [0..n -> q.graph.nodes] :
              w[0] = x /\ w[n] = y /\ \A i \in 1..n : Hop(q, TRUE, w[i - 1], w[i])
        BY <3>0
      <3>2. HopLimit(q) \in Nat
        BY SameDepth
      <3>3. n = 1
        BY <1>4, <3>1, <3>2
      <3>4. 1 \in 1..n /\ 1 - 1 = 0
        BY <3>3
      <3>5. Hop(q, TRUE, x, y)
        BY <3>1, <3>3, <3>4
      <3>6. CASE Hop(q, FALSE, x, y)
        <4>1. \A i \in 1..n : i = 1
          BY <3>3
        <4>2. \A i \in 1..n : Hop(q, FALSE, w[i - 1], w[i])
          BY <3>1, <3>3, <3>4, <3>6, <4>1
        <4> QED
          BY <3>1, <4>2 DEF Reaches
      <3>7. CASE ~Hop(q, FALSE, x, y)
        BY <3>5, <3>7 DEF Hop
      <3> QED
        BY <3>6, <3>7
    <2> QED
      BY <2>1 DEF Related
  <1> QED
    BY <1>3, <1>4

(* The expansion of any query over any finite graph, with any bounds,      *)
(* offers terms only that are related both ways, no more than MaxTerms; as *)
(* long as there is a place it leaves out none that is, with types or to a *)
(* depth of one, and none that edges lead to, deeper without types.        *)
THEOREM TermsAreRelated == ComputeSpec => []TermsRelated
  <1>1. ComputesInv => TermsRelated
    <2> SUFFICES ASSUME ComputesInv, Computed("expand"), input.seeds # {}
                 PROVE  TermsRelated
      BY DEF TermsRelated
    <2>1. input \in QueryInputs /\ \E result \in Queries!Expand(input) : output = <<result>>
      BY DEF ComputesInv, IsComputed, Computed
    <2> DEFINE L == Queries!LocalTerms(input)
               C == Queries!CommunityTerms(input)
    <2>2. PICK l \in Queries!Cut(L, MaxTerms) :
            \E c \in Queries!Cut(C, MaxTerms - Cardinality(l)) : output[1] = [local |-> l, community |-> c]
      BY <2>1, SameCardinality DEF Queries!Expand
    <2>3. PICK k \in Queries!Cut(C, MaxTerms - Cardinality(l)) :
            output[1].local = l /\ output[1].community = k
      BY <2>2
    <2> DEFINE found == Related(input, input.types # {} \/ HopLimit(input) < 2)
    <2>0. Queries!Expanded(input) = found /\ found \subseteq Related(input, TRUE)
      <3>1. CASE input.types # {}
        <4>1. (input.types # {}) = TRUE /\ (input.types # {} \/ HopLimit(input) < 2) = TRUE
          BY <3>1
        <4> QED
          BY <2>1, <4>1, ExpandedIsRelated
      <3>2. CASE input.types = {} /\ HopLimit(input) < 2
        <4>1. (input.types # {}) = FALSE /\ (input.types # {} \/ HopLimit(input) < 2) = TRUE
          BY <3>2
        <4> QED
          BY <2>1, <3>2, <4>1, ExpandedIsRelated, RelatedBothWays
      <3>3. CASE input.types = {} /\ ~(HopLimit(input) < 2)
        <4>1. (input.types # {}) = FALSE /\ (input.types # {} \/ HopLimit(input) < 2) = FALSE
          BY <3>3
        <4> QED
          BY <2>1, <4>1, ExpandedIsRelated, RelatedBothWays
      <3> QED
        BY <3>1, <3>2, <3>3
    <2>4. L = found \ input.inQuery
      BY <2>0 DEF Queries!LocalTerms
    <2>5. C = Kin(input) \ (found \union input.inQuery)
      <3> DEFINE K == UNION {c \in input.communities : c \intersect input.seeds # {}}
      <3>1. K = Kin(input)
        BY DEF Kin
      <3>2. C = K \ (Queries!Expanded(input) \union input.inQuery)
        BY DEF Queries!CommunityTerms
      <3>3. Queries!Expanded(input) = found
        BY <2>0
      <3> HIDE DEF C, K, found
      <3> QED
        BY <3>1, <3>2, <3>3
    <2>6. IsFiniteSet(L) /\ IsFiniteSet(C)
      <3>1. IsFiniteSet(input.seeds) /\ IsFiniteSet(input.graph.nodes) /\ IsFiniteSet(UNION input.communities)
        BY <2>1, QueryAssumption
      <3>2. IsFiniteSet(input.seeds \union input.graph.nodes)
        BY <3>1, FS_Union
      <3>3. L \in SUBSET (input.seeds \union input.graph.nodes)
        BY <2>4 DEF Related
      <3>4. C \in SUBSET UNION input.communities
        BY <2>5 DEF Kin
      <3> HIDE DEF L, C
      <3> QED
        BY <3>1, <3>2, <3>3, <3>4, FS_Subset
    <2> HIDE DEF L, C
    <2>7. /\ l \subseteq L /\ IsFiniteSet(l) /\ Cardinality(l) \in 0..MaxTerms
          /\ l = L \/ Cardinality(l) = MaxTerms
      BY <2>2, <2>6, CutBound, QueryAssumption
    <2>8. MaxTerms \in Nat /\ MaxTerms - Cardinality(l) \in Nat
      BY <2>7, QueryAssumption
    <2>9. /\ k \subseteq C /\ IsFiniteSet(k) /\ Cardinality(k) \in 0..(MaxTerms - Cardinality(l))
          /\ k = C \/ Cardinality(k) = MaxTerms - Cardinality(l)
      BY <2>3, <2>6, <2>8, CutBound
    <2>10. Cardinality(l \union k) <= MaxTerms
      <3>1. IsFiniteSet(l \intersect k) /\ Cardinality(l \intersect k) \in Nat
        BY <2>7, FS_Intersection, FS_CardinalityType
      <3>2. Cardinality(l \union k) = Cardinality(l) + Cardinality(k) - Cardinality(l \intersect k)
        BY <2>7, <2>9, FS_Union
      <3> QED
        BY <2>7, <2>8, <2>9, <3>1, <3>2
    <2>11. /\ Cardinality(l) < MaxTerms => l = L
           /\ Cardinality(l) + Cardinality(k) = MaxTerms \/ k = C
      BY <2>7, <2>8, <2>9
    <2> QED
      BY <2>0, <2>3, <2>4, <2>5, <2>7, <2>9, <2>10, <2>11 DEF TermsRelated
  <1> QED
    BY <1>1, Computes, PTL

-----------------------------------------------------------------------------
(* Paths.  What is linked, by an edge in either direction, and the walks   *)
(* along such edges.                                                       *)
Joined(g, x, type, y) == LinkedBy(g, x, type, y) \/ LinkedBy(g, y, type, x)

EitherWay(g, seed, pattern, n) ==
  {w \in [1..(n + 1) -> g.nodes \union {seed}] :
     /\ w[1] = seed
     /\ IsInjective(w)
     /\ \A i \in 1..n : Joined(g, Canon[w[i]], pattern[i], w[i + 1])}

(* What the typed traversal finds in one hop is what is linked.            *)
LEMMA OneHop ==
  ASSUME NEW g, g.edges \subseteq g.nodes \X STRING \X g.nodes, NEW form, NEW type, NEW y
  PROVE  /\ y \in Queries!QueryNeighborsTyped(g, form, {type}, 1) <=> Joined(g, Canon[form], type, y)
         /\ Joined(g, Canon[form], type, y) => y \in g.nodes
  <1> DEFINE V == g.nodes
             x == Canon[form]
             hops == Queries!TypedHops(g, {type})
  <1>1. \A e \in g.edges : e[1] \in V /\ e[3] \in V
    OBVIOUS
  <1>2. hops \in SUBSET (V \X V)
    BY <1>1 DEF Queries!TypedHops, Queries!Forward, Queries!Backward
  <1>3. <<x, y>> \in hops /\ x # y <=> Joined(g, x, type, y)
    <2>1. ASSUME <<x, y>> \in hops, x # y
          PROVE  Joined(g, x, type, y)
      <3>1. PICK e \in g.edges : e[2] = type /\ (<<x, y>> = <<e[1], e[3]>> \/ <<x, y>> = <<e[3], e[1]>>)
        BY <2>1 DEF Queries!TypedHops, Queries!Forward, Queries!Backward
      <3>2. e = <<x, type, y>> \/ e = <<y, type, x>>
        BY <3>1
      <3> QED
        BY <2>1, <3>1, <3>2 DEF Joined, LinkedBy
    <2>2. ASSUME Joined(g, x, type, y)
          PROVE  <<x, y>> \in hops /\ x # y
      <3>1. PICK e \in g.edges : (e = <<x, type, y>> \/ e = <<y, type, x>>) /\ x # y
        BY <2>2 DEF Joined, LinkedBy
      <3>2. e[2] = type /\ ((e[1] = x /\ e[3] = y) \/ (e[1] = y /\ e[3] = x))
        BY <3>1
      <3> QED
        BY <3>1, <3>2 DEF Queries!TypedHops, Queries!Forward, Queries!Backward
    <2> QED
      BY <2>1, <2>2
  <1>4. Joined(g, x, type, y) => x \in V /\ y \in V
    BY <1>1 DEF Joined, LinkedBy
  <1>5. Queries!QueryNeighborsTyped(g, form, {type}, 1) =
          IF x \notin V THEN {} ELSE Queries!Within(hops, x, 1) \ {x}
    BY DEF Queries!QueryNeighborsTyped
  <1>6. CASE x \notin V
    BY <1>4, <1>5, <1>6
  <1>7. CASE x \in V
    <2> HIDE DEF hops, x, V
    <2>1. y \in Queries!Within(hops, x, 1) <=> y \in V /\ \E n \in 0..1 : Walked(V, hops, x, y, n)
      BY <1>2, <1>7, WithinWalks
    <2>2. \A z : Walked(V, hops, x, z, 0) => z = x
      BY DEF Walked
    <2>3. Walked(V, hops, x, x, 0)
      <3> DEFINE w == [i \in 0..0 |-> x]
      <3>1. w \in [0..0 -> V] /\ w[0] = x /\ \A i \in 1..0 : <<w[i - 1], w[i]>> \in hops
        BY <1>7
      <3> HIDE DEF w
      <3> QED
        BY <3>1 DEF Walked
    <2>4. Walked(V, hops, x, y, 1) <=> <<x, y>> \in hops
      <3>1. Walked(V, hops, x, y, 0 + 1) <=> \E z \in V : Walked(V, hops, x, z, 0) /\ <<z, y>> \in hops
        BY <1>2, <1>7, WalksGrow
      <3>2. 0 + 1 = 1
        OBVIOUS
      <3>3. ASSUME NEW z \in V, Walked(V, hops, x, z, 0), <<z, y>> \in hops
            PROVE  <<x, y>> \in hops
        BY <2>2, <3>3
      <3> QED
        BY <1>7, <2>3, <3>1, <3>2, <3>3
    <2>5. 0..1 = {0, 1}
      OBVIOUS
    <2>6. y \in Queries!Within(hops, x, 1) \ {x} <=> Joined(g, x, type, y)
      BY <1>3, <1>4, <2>1, <2>2, <2>4, <2>5
    <2> QED
      BY <1>5, <1>7, <2>6, <1>4 DEF x, V
  <1> QED
    BY <1>4, <1>6, <1>7

LEMMA ExtendedBy ==
  ASSUME NEW g, g.edges \subseteq g.nodes \X STRING \X g.nodes, NEW walk, NEW type
  PROVE  /\ \A v \in Queries!Extensions(g, walk, type) : \E y \in g.nodes :
              /\ v = Append(walk, y) /\ y \notin ToSet(walk)
              /\ Joined(g, Canon[Last(walk)], type, y)
         /\ \A y : y \notin ToSet(walk) /\ Joined(g, Canon[Last(walk)], type, y) =>
              Append(walk, y) \in Queries!Extensions(g, walk, type)
  <1>1. \A y : /\ y \in Queries!QueryNeighborsTyped(g, Last(walk), {type}, 1) <=> Joined(g, Canon[Last(walk)], type, y)
               /\ Joined(g, Canon[Last(walk)], type, y) => y \in g.nodes
    BY OneHop
  <1>2. Queries!Last(walk) = Last(walk) /\ Queries!Visited(walk) = ToSet(walk)
    BY DEF Queries!Last, Last, Queries!Visited, Queries!ToSet, ToSet
  <1> QED
    BY <1>1, <1>2 DEF Queries!Extensions

(* The walks of n + 1 hops are the extensions of those of n hops.          *)
LEMMA WalksExtend ==
  ASSUME NEW g, g.edges \subseteq g.nodes \X STRING \X g.nodes, NEW seed, NEW pattern, NEW n \in Nat
  PROVE  /\ \A w \in EitherWay(g, seed, pattern, n) :
              Queries!Extensions(g, w, pattern[n + 1]) \subseteq EitherWay(g, seed, pattern, n + 1)
         /\ \A v \in EitherWay(g, seed, pattern, n + 1) : \E w \in EitherWay(g, seed, pattern, n) :
              v \in Queries!Extensions(g, w, pattern[n + 1])
  <1> DEFINE S == g.nodes \union {seed}
  <1>1. ASSUME NEW w \in EitherWay(g, seed, pattern, n), NEW v \in Queries!Extensions(g, w, pattern[n + 1])
        PROVE  v \in EitherWay(g, seed, pattern, n + 1)
    <2>1. /\ w \in [1..(n + 1) -> S] /\ w[1] = seed
          /\ \A a, b \in 1..(n + 1) : w[a] = w[b] => a = b
          /\ \A i \in 1..n : Joined(g, Canon[w[i]], pattern[i], w[i + 1])
      BY DEF EitherWay, IsInjective
    <2>2. Len(w) = n + 1
      BY <2>1
    <2>3. PICK y \in g.nodes : /\ v = Append(w, y) /\ y \notin ToSet(w)
                               /\ Joined(g, Canon[Last(w)], pattern[n + 1], y)
      BY ExtendedBy
    <2>4. Last(w) = w[n + 1] /\ \A i \in 1..(n + 1) : w[i] # y
      BY <2>1, <2>2, <2>3 DEF Last, ToSet
    <2>5. /\ v \in [1..(n + 2) -> S] /\ v[n + 2] = y
          /\ \A i \in 1..(n + 1) : v[i] = w[i]
      <3>1. w \in Seq(S) /\ y \in S
        BY <2>1
      <3>2. /\ v \in Seq(S) /\ Len(v) = Len(w) + 1
            /\ \A i \in 1..Len(w) : v[i] = w[i]
            /\ v[Len(w) + 1] = y
        <4> HIDE DEF S
        <4> QED
          BY <2>3, <3>1, AppendProperties
      <3> HIDE DEF S
      <3> QED
        BY <2>2, <3>1, <3>2
    <2>6. \A a, b \in 1..(n + 2) : v[a] = v[b] => a = b
      <3>1. \A a \in 1..(n + 2) : a = n + 2 \/ a \in 1..(n + 1)
        OBVIOUS
      <3> QED
        BY <2>1, <2>4, <2>5, <3>1
    <2>7. \A i \in 1..(n + 1) : Joined(g, Canon[v[i]], pattern[i], v[i + 1])
      <3> SUFFICES ASSUME NEW i \in 1..(n + 1) PROVE Joined(g, Canon[v[i]], pattern[i], v[i + 1])
        OBVIOUS
      <3>1. CASE i = n + 1
        <4>1. v[i] = Last(w) /\ v[i + 1] = y
          BY <2>4, <2>5, <3>1
        <4> QED
          BY <2>3, <3>1, <4>1
      <3>2. CASE i # n + 1
        <4>1. i \in 1..n /\ v[i] = w[i] /\ v[i + 1] = w[i + 1]
          BY <2>5, <3>2
        <4> QED
          BY <2>1, <4>1
      <3> QED
        BY <3>1, <3>2
    <2>8. v[1] = seed /\ (n + 1) + 1 = n + 2
      BY <2>1, <2>5
    <2>9. DOMAIN v = 1..(n + 2)
      BY <2>5
    <2> HIDE DEF S
    <2> QED
      BY <2>5, <2>6, <2>7, <2>8, <2>9 DEF EitherWay, IsInjective, S
  <1>2. ASSUME NEW v \in EitherWay(g, seed, pattern, n + 1)
        PROVE  \E w \in EitherWay(g, seed, pattern, n) : v \in Queries!Extensions(g, w, pattern[n + 1])
    <2>1. /\ v \in [1..(n + 2) -> S] /\ v[1] = seed
          /\ \A a, b \in 1..(n + 2) : v[a] = v[b] => a = b
          /\ \A i \in 1..(n + 1) : Joined(g, Canon[v[i]], pattern[i], v[i + 1])
      <3>1. (n + 1) + 1 = n + 2
        OBVIOUS
      <3>2. /\ v \in [1..(n + 2) -> S] /\ v[1] = seed /\ IsInjective(v)
            /\ \A i \in 1..(n + 1) : Joined(g, Canon[v[i]], pattern[i], v[i + 1])
        BY <3>1 DEF EitherWay
      <3> QED
        BY <3>2 DEF IsInjective
    <2> DEFINE w == [i \in 1..(n + 1) |-> v[i]]
    <2>2. /\ w \in [1..(n + 1) -> S] /\ w[1] = seed /\ DOMAIN w = 1..(n + 1)
          /\ \A i \in 1..(n + 1) : w[i] = v[i]
      BY <2>1
    <2>3. Len(w) = n + 1 /\ w \in Seq(S)
      BY <2>2
    <2> HIDE DEF w
    <2>4. w \in EitherWay(g, seed, pattern, n)
      <3>1. \A a, b \in DOMAIN w : w[a] = w[b] => a = b
        BY <2>1, <2>2
      <3>2. \A i \in 1..n : Joined(g, Canon[w[i]], pattern[i], w[i + 1])
        BY <2>1, <2>2
      <3> QED
        BY <2>2, <3>1, <3>2 DEF EitherWay, IsInjective
    <2>5. v[n + 2] \in S /\ v = Append(w, v[n + 2])
      <3>1. v \in Seq(S) /\ Len(v) = n + 2 /\ v[n + 2] \in S
        BY <2>1
      <3>2. /\ Append(w, v[n + 2]) \in Seq(S) /\ Len(Append(w, v[n + 2])) = n + 2
            /\ \A i \in 1..(n + 1) : Append(w, v[n + 2])[i] = w[i]
            /\ Append(w, v[n + 2])[n + 2] = v[n + 2]
        <4> HIDE DEF S
        <4> QED
          BY <2>3, <3>1, AppendProperties
      <3>3. \A i \in 1..Len(v) : v[i] = Append(w, v[n + 2])[i]
        BY <2>2, <3>1, <3>2
      <3> HIDE DEF S
      <3> QED
        BY <3>1, <3>2, <3>3, SeqEqual
    <2>6. v[n + 2] \notin ToSet(w)
      BY <2>1, <2>2 DEF ToSet
    <2>7. Joined(g, Canon[Last(w)], pattern[n + 1], v[n + 2])
      <3>1. n + 1 \in 1..(n + 1) /\ (n + 1) + 1 = n + 2
        OBVIOUS
      <3>2. Last(w) = v[n + 1]
        BY <2>2, <2>3 DEF Last
      <3> QED
        BY <2>1, <3>1, <3>2
    <2>8. Append(w, v[n + 2]) \in Queries!Extensions(g, w, pattern[n + 1])
      BY <2>6, <2>7, ExtendedBy
    <2> QED
      BY <2>4, <2>5, <2>8
  <1> QED
    BY <1>1, <1>2

LEMMA CutParts ==
  ASSUME NEW S, NEW n
  PROVE  /\ \A T \in Queries!Cut(S, n) : T \subseteq S
         /\ Cardinality(S) <= n => Queries!Cut(S, n) = {S}
  BY SameCardinality DEF Queries!Cut, Queries!kSubset

LEMMA FunctionIsSequence ==
  ASSUME NEW S, NEW n \in Nat, NEW w \in [1..n -> S]
  PROVE  w \in Seq(S) /\ Len(w) = n
  OBVIOUS

(* A frontier holds walks along the pattern; and all of them, if no        *)
(* frontier before it had to be cut.                                       *)
LEMMA FrontiersAreWalks ==
  ASSUME NEW g, g.edges \subseteq g.nodes \X STRING \X g.nodes, NEW seed, NEW pattern \in Seq(STRING),
         NEW W \in Queries!MatchPattern(g, seed, pattern)
  PROVE  /\ W \subseteq EitherWay(g, seed, pattern, Len(pattern))
         /\ (\A n \in 1..Len(pattern) : Cardinality(EitherWay(g, seed, pattern, n)) <= MaxHopFanout) =>
              W = EitherWay(g, seed, pattern, Len(pattern))
  <1> DEFINE N == Len(pattern)
             S == g.nodes \union {seed}
             D == SUBSET SUBSET Seq(S)
             Extended(T, hop) == UNION {Queries!Extensions(g, w, pattern[hop]) : w \in T}
             Further(X, hop) == UNION {Queries!Cut(Extended(T, hop), MaxHopFanout) : T \in X}
             Level(f, hop) == IF hop = 0 THEN {{<<seed>>}} ELSE Further(f[hop - 1], hop)
             L == CHOOSE f : f = [hop \in 0..N |-> Level(f, hop)]
             Walks(n) == EitherWay(g, seed, pattern, n)
  <1>1. N \in Nat /\ Queries!MatchPattern(g, seed, pattern) = L[N]
    BY DEF Queries!MatchPattern
  <1>2. ASSUME NEW X \in D, NEW hop
        PROVE  Further(X, hop) \in D
    <2> SUFFICES ASSUME NEW T \in X, NEW R \in Queries!Cut(Extended(T, hop), MaxHopFanout)
                 PROVE  R \subseteq Seq(S)
      <3> HIDE DEF Extended
      <3> QED
        OBVIOUS
    <2>1. R \subseteq Extended(T, hop)
      BY CutParts
    <2>2. ASSUME NEW w \in T, NEW v \in Queries!Extensions(g, w, pattern[hop])
          PROVE  v \in Seq(S)
      <3>1. PICK y \in g.nodes : v = Append(w, y)
        BY ExtendedBy
      <3>2. w \in Seq(S) /\ y \in S
        BY <1>2
      <3> HIDE DEF S
      <3> QED
        BY <3>1, <3>2, AppendProperties
    <2> QED
      BY <2>1, <2>2
  <1>3. {{<<seed>>}} \in D
    OBVIOUS
  <1>4. PICK F \in [Nat -> D] : F[0] = {{<<seed>>}} /\ \A n \in Nat : F[n + 1] = Further(F[n], n + 1)
    <2> DEFINE step == [a \in Nat \X D |-> Further(a[2], a[1] + 1)]
    <2> HIDE DEF Further, D
    <2>1. step \in [Nat \X D -> D]
      BY <1>2
    <2> HIDE DEF step
    <2>2. PICK f \in [Nat -> D] : f[0] = {{<<seed>>}} /\ \A n \in Nat : f[n + 1] = step[<<n, f[n]>>]
      <3> DEFINE b == {{<<seed>>}}
      <3>1. b \in D
        BY <1>3
      <3> HIDE DEF b
      <3>2. \E f : IsIteration(f, D, b, step)
        BY <2>1, <3>1, Iterates
      <3> QED
        BY <3>2 DEF b, IsIteration
    <2>3. \A n \in Nat : step[<<n, f[n]>>] = Further(f[n], n + 1)
      BY DEF step
    <2> QED
      BY <2>2, <2>3
  <1>5. L = [hop \in 0..N |-> Level(L, hop)]
    <2> DEFINE G == [hop \in 0..N |-> F[hop]]
    <2> HIDE DEF Further, D
    <2>1. \A hop \in 0..N : G[hop] = Level(G, hop)
      <3> SUFFICES ASSUME NEW hop \in 0..N PROVE G[hop] = Level(G, hop)
        OBVIOUS
      <3>1. CASE hop = 0
        BY <1>1, <1>4, <3>1
      <3>2. CASE hop # 0
        <4>1. hop - 1 \in Nat /\ hop - 1 \in 0..N /\ (hop - 1) + 1 = hop
          BY <1>1, <3>2
        <4>2. F[hop] = Further(F[hop - 1], hop)
          BY <1>4, <4>1
        <4>3. G[hop] = F[hop] /\ G[hop - 1] = F[hop - 1]
          BY <4>1
        <4> HIDE DEF G
        <4> QED
          BY <3>2, <4>2, <4>3
      <3> QED
        BY <3>1, <3>2
    <2>2. G = [hop \in 0..N |-> Level(G, hop)]
      <3> HIDE DEF Level
      <3> QED
        BY <2>1
    <2> HIDE DEF G, Level
    <2> QED
      BY <2>2
  <1> HIDE DEF L
  <1>6. Walks(0) = {<<seed>>}
    <2>1. <<seed>> \in Walks(0)
      <3>1. <<seed>> \in [1..(0 + 1) -> S] /\ <<seed>>[1] = seed /\ DOMAIN <<seed>> = 1..1
        OBVIOUS
      <3>2. IsInjective(<<seed>>)
        BY <3>1 DEF IsInjective
      <3> QED
        BY <3>1, <3>2 DEF EitherWay
    <2>2. ASSUME NEW w \in Walks(0)
          PROVE  w = <<seed>>
      <3>1. w \in [1..(0 + 1) -> S] /\ w[1] = seed
        BY DEF EitherWay
      <3>2. w \in [1..1 -> S]
        BY <3>1
      <3>3. w \in Seq(S) /\ Len(w) = 1
        BY <3>2, FunctionIsSequence
      <3>4. <<seed>> \in Seq(S) /\ Len(<<seed>>) = 1 /\ <<seed>>[1] = seed
        OBVIOUS
      <3>5. \A i \in 1..Len(w) : w[i] = <<seed>>[i]
        BY <3>1, <3>3, <3>4
      <3> HIDE DEF S
      <3> QED
        BY <3>3, <3>4, <3>5, SeqEqual
    <2> QED
      BY <2>1, <2>2
  <1>7. ASSUME NEW n \in Nat
        PROVE  /\ \A T \in SUBSET Walks(n) : Extended(T, n + 1) \subseteq Walks(n + 1)
               /\ Extended(Walks(n), n + 1) = Walks(n + 1)
    <2>1. /\ \A w \in Walks(n) : Queries!Extensions(g, w, pattern[n + 1]) \subseteq Walks(n + 1)
          /\ \A v \in Walks(n + 1) : \E w \in Walks(n) : v \in Queries!Extensions(g, w, pattern[n + 1])
      BY WalksExtend
    <2> HIDE DEF Walks
    <2> QED
      BY <2>1
  <1> HIDE DEF Walks, Extended
  <1>8. \A n \in 0..N : /\ \A T \in L[n] : T \subseteq Walks(n)
                        /\ (\A m \in 1..n : Cardinality(Walks(m)) <= MaxHopFanout) => L[n] = {Walks(n)}
    <2> DEFINE Good(n) == /\ \A T \in L[n] : T \subseteq Walks(n)
                          /\ (\A m \in 1..n : Cardinality(Walks(m)) <= MaxHopFanout) => L[n] = {Walks(n)}
               Q == {n \in Nat : n \in 0..N => Good(n)}
    <2>1. 0 \in Q
      <3>1. L[0] = Level(L, 0)
        <4> HIDE DEF Level
        <4> QED
          BY <1>1, <1>5
      <3> QED
        BY <1>6, <3>1
    <2>2. ASSUME NEW n \in Nat, n \in Q
          PROVE  n + 1 \in Q
      <3> SUFFICES ASSUME n + 1 \in 0..N PROVE Good(n + 1)
        OBVIOUS
      <3>1. L[n + 1] = Level(L, n + 1)
        <4> HIDE DEF Level
        <4> QED
          BY <1>5
      <3>2. L[n + 1] = Further(L[n], n + 1)
        <4>1. n + 1 # 0 /\ (n + 1) - 1 = n
          OBVIOUS
        <4> HIDE DEF Further
        <4> QED
          BY <3>1, <4>1
      <3>3. Good(n)
        BY <2>2
      <3>4. \A T \in L[n + 1] : T \subseteq Walks(n + 1)
        <4> SUFFICES ASSUME NEW T \in L[n], NEW R \in Queries!Cut(Extended(T, n + 1), MaxHopFanout)
                     PROVE  R \subseteq Walks(n + 1)
          BY <3>2
        <4>1. R \subseteq Extended(T, n + 1)
          BY CutParts
        <4>2. Extended(T, n + 1) \subseteq Walks(n + 1)
          BY <1>7, <3>3
        <4> QED
          BY <4>1, <4>2
      <3>5. ASSUME \A m \in 1..(n + 1) : Cardinality(Walks(m)) <= MaxHopFanout
            PROVE  L[n + 1] = {Walks(n + 1)}
        <4>1. L[n] = {Walks(n)}
          BY <3>3, <3>5
        <4>2. Extended(Walks(n), n + 1) = Walks(n + 1)
          BY <1>7
        <4>3. Queries!Cut(Walks(n + 1), MaxHopFanout) = {Walks(n + 1)}
          <5>1. Cardinality(Walks(n + 1)) <= MaxHopFanout
            BY <3>5
          <5> QED
            BY <5>1, CutParts
        <4> QED
          BY <3>2, <4>1, <4>2, <4>3
      <3> HIDE DEF Further
      <3> QED
        BY <3>4, <3>5
    <2>3. \A n \in 0..N : n \in Q
      <3> HIDE DEF Q
      <3> QED
        BY <1>1, <2>1, <2>2, Induction
    <2> QED
      BY <2>3
  <1> HIDE DEF N
  <1>9. /\ \A T \in L[N] : T \subseteq Walks(N)
        /\ (\A m \in 1..N : Cardinality(Walks(m)) <= MaxHopFanout) => L[N] = {Walks(N)}
    BY <1>1, <1>8
  <1> QED
    BY <1>1, <1>9 DEF N, Walks

LEMMA WalksJoin ==
  ASSUME NEW g, NEW seed, NEW pattern, NEW n
  PROVE  /\ WalksAlong(g, seed, pattern, n, TRUE) = EitherWay(g, seed, pattern, n)
         /\ WalksAlong(g, seed, pattern, n, FALSE) \subseteq EitherWay(g, seed, pattern, n)
  BY DEF WalksAlong, EitherWay, Joined

(* Where no edge leads back every walk is directed: its last hop goes along*)
(* an edge, because the walk before it is directed.                        *)
LEMMA NoneLeadsBack ==
  ASSUME NEW g, g.edges \subseteq g.nodes \X STRING \X g.nodes, NEW seed, NEW pattern \in Seq(STRING),
         ~LeadsBack(g, seed, pattern)
  PROVE  EitherWay(g, seed, pattern, Len(pattern)) \subseteq WalksAlong(g, seed, pattern, Len(pattern), FALSE)
  <1> DEFINE N == Len(pattern)
             S == g.nodes \union {seed}
             Either(n) == EitherWay(g, seed, pattern, n)
             Along(n) == WalksAlong(g, seed, pattern, n, FALSE)
             Q == {n \in Nat : n \in 0..N => Either(n) \subseteq Along(n)}
  <1>1. N \in Nat
    OBVIOUS
  <1>2. 0 \in Q
    <2>1. \A i \in 1..0 : FALSE
      OBVIOUS
    <2>2. Either(0) \subseteq Along(0)
      BY <2>1 DEF EitherWay, WalksAlong
    <2> QED
      BY <2>2
  <1>3. ASSUME NEW n \in Nat, n \in Q
        PROVE  n + 1 \in Q
    <2> SUFFICES ASSUME n + 1 \in 0..N, NEW v \in Either(n + 1) PROVE v \in Along(n + 1)
      <3> HIDE DEF Either, Along, N
      <3> QED
        OBVIOUS
    <2>1. PICK w \in Either(n) : v \in Queries!Extensions(g, w, pattern[n + 1])
      BY WalksExtend
    <2>2. n \in 0..N /\ n + 1 \in 1..N /\ (n + 1) - 1 = n
      BY <1>1
    <2>3. w \in Along(n)
      BY <1>3, <2>2
    <2>4. PICK y \in g.nodes : /\ v = Append(w, y) /\ y \notin ToSet(w)
                               /\ Joined(g, Canon[Last(w)], pattern[n + 1], y)
      BY <2>1, ExtendedBy
    <2>5. ~LinkedBy(g, y, pattern[n + 1], Canon[Last(w)])
      BY <2>2, <2>3, <2>4 DEF LeadsBack
    <2>6. LinkedBy(g, Canon[Last(w)], pattern[n + 1], y)
      BY <2>4, <2>5 DEF Joined
    <2>7. /\ w \in [1..(n + 1) -> S]
          /\ \A i \in 1..n : LinkedBy(g, Canon[w[i]], pattern[i], w[i + 1])
      BY <2>3 DEF WalksAlong
    <2>8. w \in Seq(S) /\ Len(w) = n + 1 /\ Last(w) = w[n + 1]
      <3>1. w \in Seq(S) /\ Len(w) = n + 1
        BY <2>7
      <3> QED
        BY <3>1 DEF Last
    <2>9. v[n + 2] = y /\ \A i \in 1..(n + 1) : v[i] = w[i]
      <3>1. y \in S
        OBVIOUS
      <3> HIDE DEF S
      <3>2. /\ \A i \in 1..Len(w) : Append(w, y)[i] = w[i]
            /\ Append(w, y)[Len(w) + 1] = y
        BY <2>8, <3>1, AppendProperties
      <3> QED
        BY <2>4, <2>8, <3>2
    <2>10. \A i \in 1..(n + 1) : LinkedBy(g, Canon[v[i]], pattern[i], v[i + 1])
      <3> SUFFICES ASSUME NEW i \in 1..(n + 1) PROVE LinkedBy(g, Canon[v[i]], pattern[i], v[i + 1])
        OBVIOUS
      <3>1. CASE i = n + 1
        <4>1. v[i] = Last(w) /\ v[i + 1] = y
          BY <2>8, <2>9, <3>1
        <4> QED
          BY <2>6, <3>1, <4>1
      <3>2. CASE i # n + 1
        <4>1. i \in 1..n /\ v[i] = w[i] /\ v[i + 1] = w[i + 1]
          BY <2>9, <3>2
        <4> QED
          BY <2>7, <4>1
      <3> QED
        BY <3>1, <3>2
    <2>11. v \in [1..((n + 1) + 1) -> S] /\ v[1] = seed /\ IsInjective(v)
      BY DEF EitherWay
    <2> QED
      BY <2>10, <2>11 DEF WalksAlong
  <1>4. N \in Q
    <2> HIDE DEF Q
    <2> QED
      BY <1>1, <1>2, <1>3, Induction
  <1> HIDE DEF Either, Along
  <1>5. Either(N) \subseteq Along(N)
    <2>1. N \in 0..N
      BY <1>1
    <2> HIDE DEF N
    <2> QED
      BY <1>4, <2>1
  <1> QED
    BY <1>5 DEF Either, Along

(* The paths found for any patterns in any graph are one for a terminal;   *)
(* they are directed walks along them, where no edge leads back; and none  *)
(* that a directed walk ends at is missed where no prefix of the pattern   *)
(* has more walks than the fan-out allows.                                 *)
THEOREM PathsAreFaithful == ComputeSpec => []PathsFollowPatterns
  <1>1. ComputesInv => PathsFollowPatterns
    <2> SUFFICES ASSUME ComputesInv, Computed("paths"), NEW p \in input.patterns
                 PROVE  LET found == output[1][p]
                            Walks(n, eitherWay) == WalksAlong(input.graph, input.seed, p, n, eitherWay)
                        IN  /\ ~LeadsBack(input.graph, input.seed, p) => found \subseteq Walks(Len(p), FALSE)
                            /\ \A v, w \in found : Last(v) = Last(w) => v = w
                            /\ (\A n \in 1..Len(p) : Cardinality(Walks(n, TRUE)) <= MaxHopFanout) =>
                                 {Last(w) : w \in Walks(Len(p), FALSE)} \subseteq {Last(w) : w \in found}
      BY DEF PathsFollowPatterns
    <2> DEFINE found == output[1][p]
               Walks(n, eitherWay) == WalksAlong(input.graph, input.seed, p, n, eitherWay)
               Either(n) == EitherWay(input.graph, input.seed, p, n)
    <2>1. /\ input \in PatternInputs
          /\ \E result \in Queries!Evaluate(input.graph, input.seed, input.patterns) : output = <<result>>
      BY DEF ComputesInv, IsComputed, Computed
    <2>2. /\ input.graph.edges \subseteq input.graph.nodes \X STRING \X input.graph.nodes
          /\ p \in Seq(STRING)
      BY <2>1, PatternAssumption
    <2>3. PICK W \in Queries!MatchPattern(input.graph, input.seed, p) : found \in Queries!FirstPerTerminal(W)
      BY <2>1 DEF Queries!Evaluate
    <2>4. /\ W \subseteq Either(Len(p))
          /\ (\A n \in 1..Len(p) : Cardinality(Either(n)) <= MaxHopFanout) => W = Either(Len(p))
      BY <2>2, FrontiersAreWalks
    <2>5. \A w : Queries!Last(w) = Last(w)
      BY DEF Queries!Last, Last
    <2>6. /\ found \subseteq W
          /\ {Last(w) : w \in found} = {Last(w) : w \in W}
          /\ \A v, w \in found : Last(v) = Last(w) => v = w
      BY <2>3, <2>5 DEF Queries!FirstPerTerminal
    <2>7. \A n : Walks(n, TRUE) = Either(n) /\ Walks(n, FALSE) \subseteq Either(n)
      BY WalksJoin
    <2>8. ~LeadsBack(input.graph, input.seed, p) => Either(Len(p)) \subseteq Walks(Len(p), FALSE)
      BY <2>2, NoneLeadsBack
    <2> HIDE DEF found, Walks, Either
    <2>9. /\ ~LeadsBack(input.graph, input.seed, p) => found \subseteq Walks(Len(p), FALSE)
          /\ \A v, w \in found : Last(v) = Last(w) => v = w
          /\ (\A n \in 1..Len(p) : Cardinality(Walks(n, TRUE)) <= MaxHopFanout) =>
               {Last(w) : w \in Walks(Len(p), FALSE)} \subseteq {Last(w) : w \in found}
      <3>1. ~LeadsBack(input.graph, input.seed, p) => found \subseteq Walks(Len(p), FALSE)
        BY <2>4, <2>6, <2>8
      <3>2. ASSUME \A n \in 1..Len(p) : Cardinality(Walks(n, TRUE)) <= MaxHopFanout
            PROVE  {Last(w) : w \in Walks(Len(p), FALSE)} \subseteq {Last(w) : w \in found}
        <4>1. \A n \in 1..Len(p) : Cardinality(Either(n)) <= MaxHopFanout
          BY <2>7, <3>2
        <4>2. W = Either(Len(p))
          BY <2>4, <4>1
        <4> QED
          BY <2>6, <2>7, <4>2
      <3> QED
        BY <2>6, <3>1, <3>2
    <2> QED
      BY <2>9 DEF found, Walks
  <1> QED
    BY <1>1, Computes, PTL

-----------------------------------------------------------------------------
(* Imports.  The path that a name stands for, and what a leaf of a module  *)
(* is to Python.                                                           *)
PathOf(consumer, isInit, name) ==
  IF name.dots > 0 THEN Scopes!ResolveRelative(consumer, name, isInit) ELSE name.path

BoundTo(corpus, m, leaf) ==
  IF m \in DOMAIN corpus.exports /\ leaf \in corpus.exports[m]
  THEN [kind |-> "cross-file-import", origin |-> m]
  ELSE [kind |-> "module-import", origin |-> Append(m, leaf)]

LEMMA JoinedInOrder ==
  ASSUME NEW S, NEW u \in Seq(S), NEW v \in Seq(S), NEW w \in Seq(S)
  PROVE  (u \o v) \o w = u \o (v \o w)
  BY ConcatAssociative, SMTT(30)

(* A relative import names the module that Python starts from, in a        *)
(* package's own file or not.                                              *)
RelativeTo(consumer, isInit, s, m, name) ==
  /\ consumer \in Seq(STRING) /\ consumer # <<>>
  /\ s \in Scopes!Statement /\ s.module # <<>>
  /\ m \in Scopes!PythonModules(consumer, isInit, s)
  /\ name.dots = s.level /\ name.path = Append(s.module, s.leaf)

LEMMA RelativePath ==
  ASSUME NEW consumer, NEW isInit, NEW s, NEW m, NEW name, RelativeTo(consumer, isInit, s, m, name)
  PROVE  m \in Seq(STRING) /\ m # <<>> /\ Append(m, s.leaf) = PathOf(consumer, isInit, name)
  <1> DEFINE leaf == s.leaf
  <1>0. /\ consumer \in Seq(STRING) /\ consumer # <<>> /\ s \in Scopes!Statement /\ s.module # <<>>
        /\ m \in Scopes!PythonModules(consumer, isInit, s) /\ leaf \in STRING
        /\ name.dots = s.level /\ name.path = Append(s.module, leaf)
    BY DEF RelativeTo, Scopes!Statement
  <1> HIDE DEF leaf
  <1> USE <1>0
  <1> DEFINE n == Len(consumer)
             level == s.level
  <1>1. /\ consumer \in Seq(STRING) /\ n \in Nat /\ n >= 1
        /\ s.module \in Seq(STRING) /\ level \in Nat /\ Len(s.module) >= 1
    BY EmptySeq, LenProperties DEF Scopes!Statement
  <1>2. CASE level = 0
    <2>1. Scopes!PythonModules(consumer, isInit, s) = {s.module}
      BY <1>2 DEF Scopes!PythonModules
    <2>2. m = s.module
      BY <2>1
    <2>3. PathOf(consumer, isInit, name) = Append(m, leaf)
      <3>1. name.dots = 0 /\ name.path = Append(s.module, leaf)
        BY <1>2
      <3> QED
        BY <2>2, <3>1 DEF PathOf
    <2> QED
      BY <1>1, <2>2, <2>3 DEF leaf
  <1>3. CASE level # 0
    <2> DEFINE package == IF isInit THEN consumer ELSE Scopes!Front(consumer)
               k == IF isInit THEN level - 1 ELSE level
    <2>1. package \in Seq(STRING) /\ Len(package) = (IF isInit THEN n ELSE n - 1)
      <3>1. CASE isInit
        BY <1>1, <3>1
      <3>2. CASE ~isInit
        <4>1. \A i \in 1..(n - 1) : consumer[i] \in STRING
          BY <1>1, ElementOfSeq
        <4>2. Len(SubSeq(consumer, 1, n - 1)) = (IF 1 <= n - 1 THEN (n - 1) - 1 + 1 ELSE 0)
              /\ SubSeq(consumer, 1, n - 1) \in Seq(STRING)
          <5> HIDE DEF n
          <5> QED
            BY <1>1, <4>1, SubSeqProperties
        <4> QED
          <5>1. package = SubSeq(consumer, 1, n - 1)
            BY <3>2 DEF Scopes!Front
          <5>2. (IF 1 <= n - 1 THEN (n - 1) - 1 + 1 ELSE 0) = n - 1
            <6> HIDE DEF n
            <6> QED
              BY <1>1
          <5> HIDE DEF package, n
          <5> QED
            BY <3>2, <4>2, <5>1, <5>2
      <3> QED
        BY <3>1, <3>2
    <2>2. /\ Len(package) >= level
          /\ m = SubSeq(package, 1, Len(package) - level + 1) \o s.module
      <3> HIDE DEF package
      <3>1. /\ m \in {q \o s.module : q \in Scopes!PythonPackage(consumer, isInit, s.level)}
        BY <1>3 DEF Scopes!PythonModules
      <3>2. Scopes!PythonPackage(consumer, isInit, level) =
              IF Len(package) < level THEN {} ELSE {SubSeq(package, 1, Len(package) - level + 1)}
        BY DEF Scopes!PythonPackage, package
      <3>3. Len(package) \in Nat
        BY <2>1, LenProperties
      <3>4. PICK q \in Scopes!PythonPackage(consumer, isInit, s.level) : m = q \o s.module
        BY <3>1
      <3>5. ~(Len(package) < level) /\ q = SubSeq(package, 1, Len(package) - level + 1)
        BY <3>2, <3>4
      <3> QED
        BY <1>1, <3>3, <3>4, <3>5
    <2>3. k \in Nat /\ k <= n /\ n - k >= 1 /\ n - k <= n /\ Len(package) - level + 1 = n - k
      <3>1. Len(package) \in Nat /\ Len(package) >= level /\ Len(package) = (IF isInit THEN n ELSE n - 1)
        BY <2>1, <2>2, LenProperties
      <3>2. CASE isInit
        <4> HIDE DEF package, n, level
        <4> QED
          BY <1>1, <1>3, <3>1, <3>2
      <3>3. CASE ~isInit
        <4> HIDE DEF package, n, level
        <4> QED
          BY <1>1, <1>3, <3>1, <3>3
      <3> QED
        BY <3>2, <3>3
    <2>4. SubSeq(package, 1, n - k) = SubSeq(consumer, 1, n - k)
      <3>1. CASE isInit
        BY <3>1
      <3>2. CASE ~isInit
        <4>1. n - 1 \in 1..n /\ n - k \in 1..(n - 1) /\ 1 \in 1..n
          <5>1. k = level
            BY <3>2
          <5> HIDE DEF n, k, level, package
          <5>2. k \in Nat /\ k # 0 /\ n \in Nat /\ n - k >= 1
            BY <1>1, <1>3, <2>3, <5>1
          <5> QED
            BY <5>2
        <4>2. SubSeq(SubSeq(consumer, 1, n - 1), 1, n - k) = SubSeq(consumer, 1 + 1 - 1, 1 + (n - k) - 1)
          <5>1. 1 \in 1..((n - 1) - 1 + 1) /\ n - k \in 1..((n - 1) - 1 + 1)
            BY <1>1, <4>1
          <5> HIDE DEF n, k
          <5> QED
            BY <1>1, <4>1, <5>1, SubSeqOfSubSeq DEF n
        <4>3. 1 + 1 - 1 = 1 /\ 1 + (n - k) - 1 = n - k
          BY <1>1, <2>3
        <4> QED
          BY <3>2, <4>2, <4>3 DEF Scopes!Front
      <3> QED
        BY <3>1, <3>2
    <2>5. m = SubSeq(consumer, 1, n - k) \o s.module
      BY <2>2, <2>3, <2>4
    <2>6. SubSeq(consumer, 1, n - k) \in Seq(STRING)
      <3>1. \A i \in 1..(n - k) : consumer[i] \in STRING
        BY <1>1, <2>3, ElementOfSeq
      <3> HIDE DEF n, k
      <3> QED
        BY <1>1, <2>3, <3>1, SubSeqProperties
    <2>7. Scopes!ResolveRelative(consumer, name, isInit) = SubSeq(consumer, 1, n - k) \o Append(s.module, leaf)
      <3>1. name.dots = level /\ name.path = Append(s.module, leaf)
        OBVIOUS
      <3>2. Scopes!ResolveRelative(consumer, name, isInit) =
              IF k > n THEN <<>> ELSE SubSeq(consumer, 1, n - k) \o name.path
        BY <3>1 DEF Scopes!ResolveRelative
      <3> HIDE DEF k, n
      <3>3. ~(k > n)
        BY <1>1, <2>3
      <3> QED
        BY <3>1, <3>2, <3>3
    <2> HIDE DEF n, k, level, package
    <2>8. SubSeq(consumer, 1, n - k) \o Append(s.module, leaf) = Append(m, leaf)
      <3> DEFINE base == SubSeq(consumer, 1, n - k)
      <3> HIDE DEF base
      <3>1. base \in Seq(STRING) /\ m = base \o s.module
        BY <2>5, <2>6 DEF base
      <3>2. Append(s.module, leaf) = s.module \o <<leaf>> /\ <<leaf>> \in Seq(STRING)
        <4> DEFINE v == s.module
        <4>1. v \in Seq(STRING) /\ leaf \in STRING
          BY <1>1
        <4> HIDE DEF v
        <4>2. Append(v, leaf) = v \o <<leaf>>
          BY <4>1, AppendIsConcat
        <4>3. <<leaf>> \in Seq(STRING)
          BY <4>1
        <4> QED
          BY <4>2, <4>3 DEF v
      <3>3. m \in Seq(STRING)
        BY <1>1, <3>1, ConcatProperties
      <3>4. Append(m, leaf) = m \o <<leaf>>
        BY <3>3, AppendIsConcat
      <3>5. (base \o s.module) \o <<leaf>> = base \o (s.module \o <<leaf>>)
        <4> DEFINE u == <<leaf>>
                   v == s.module
        <4>1. v \in Seq(STRING) /\ base \in Seq(STRING) /\ u \in Seq(STRING)
          BY <1>1, <3>1, <3>2
        <4> HIDE DEF u, v
        <4>2. (base \o v) \o u = base \o (v \o u)
          BY <4>1, JoinedInOrder, SMTT(60)
        <4> QED
          BY <4>2 DEF u, v
      <3> QED
        BY <3>1, <3>2, <3>4, <3>5 DEF base
    <2>9. m \in Seq(STRING) \ {<<>>}
      BY <1>1, <2>5, <2>6, ConcatProperties, ConcatEqualIffEmpty
    <2> QED
      <3>1. name.dots \in Nat /\ name.dots > 0
        BY <1>1, <1>3 DEF level
      <3>2. PathOf(consumer, isInit, name) = Scopes!ResolveRelative(consumer, name, isInit)
        BY <3>1 DEF PathOf
      <3> QED
        BY <2>7, <2>8, <2>9, <3>2 DEF leaf
  <1> QED
    BY <1>2, <1>3 DEF level

(* What a path of a module and a leaf is lifted to, when no module has an  *)
(* attribute and a submodule of one name.                                  *)
LiftedTo(corpus, consumer, isInit, name, m, leaf, b) ==
  /\ Unambiguous(corpus)
  /\ m \in Seq(STRING) /\ m # <<>> /\ leaf \in STRING
  /\ Append(m, leaf) = PathOf(consumer, isInit, name)
  /\ b = BoundTo(corpus, m, leaf)
  /\ b.kind = "cross-file-import" \/ b.origin \in corpus.modules

LEMMA LiftsAsPython ==
  ASSUME NEW corpus, NEW consumer, NEW isInit, NEW name, NEW m, NEW leaf, NEW b,
         LiftedTo(corpus, consumer, isInit, name, m, leaf, b)
  PROVE  Scopes!Lift(corpus, consumer, isInit, name) = b
  <1> USE DEF LiftedTo
  <1> DEFINE path == Append(m, leaf)
  <1>1. Len(path) > 1 /\ Scopes!Front(path) = m /\ Scopes!Last(path) = leaf
    <2>1. /\ path \in Seq(STRING) /\ Len(path) = Len(m) + 1
          /\ (\A i \in 1..Len(m) : path[i] = m[i]) /\ path[Len(m) + 1] = leaf
      BY AppendProperties
    <2>2. Len(m) \in Nat /\ Len(m) >= 1
      BY EmptySeq
    <2> HIDE DEF path
    <2>3. SubSeq(path, 1, Len(m)) = m
      <3>1. \A i \in 1..Len(m) : path[i] \in STRING
        BY <2>1, ElementOfSeq
      <3>2. /\ SubSeq(path, 1, Len(m)) \in Seq(STRING)
            /\ Len(SubSeq(path, 1, Len(m))) = Len(m)
            /\ \A i \in 1..Len(m) : SubSeq(path, 1, Len(m))[i] = path[i]
        <4>1. /\ SubSeq(path, 1, Len(m)) \in Seq(STRING)
              /\ Len(SubSeq(path, 1, Len(m))) = IF 1 <= Len(m) THEN Len(m) - 1 + 1 ELSE 0
              /\ \A i \in 1..(Len(m) - 1 + 1) : SubSeq(path, 1, Len(m))[i] = path[1 + i - 1]
          BY <2>2, <3>1, SubSeqProperties
        <4> QED
          BY <2>2, <4>1
      <3> QED
        BY <2>1, <3>2, SeqEqual
    <2> QED
      BY <2>1, <2>2, <2>3 DEF Scopes!Front, Scopes!Last
  <1>2. Scopes!Lift(corpus, consumer, isInit, name) =
          IF path \in corpus.modules THEN [kind |-> "module-import", origin |-> path]
          ELSE IF m \in DOMAIN corpus.exports /\ leaf \in corpus.exports[m]
          THEN [kind |-> "cross-file-import", origin |-> m]
          ELSE Scopes!Unresolved
    <2> HIDE DEF path
    <2> QED
      BY <1>1 DEF Scopes!Lift, PathOf, path
  <1> HIDE DEF path
  <1>3. CASE m \in DOMAIN corpus.exports /\ leaf \in corpus.exports[m]
    <2>1. path \notin corpus.modules
      BY <1>3 DEF Unambiguous, path
    <2> QED
      BY <1>2, <1>3, <2>1 DEF BoundTo
  <1>4. CASE ~(m \in DOMAIN corpus.exports /\ leaf \in corpus.exports[m])
    <2>1. b.kind = "module-import" /\ b.origin = path
      BY <1>4 DEF BoundTo, path
    <2> QED
      BY <1>2, <1>4, <2>1 DEF BoundTo, path
  <1> QED
    BY <1>3, <1>4

LEMMA GreatestOf ==
  ASSUME NEW n \in Nat, NEW S, S \subseteq 1..n, S # {}
  PROVE  Max(S) \in S /\ \A k \in S : k <= Max(S)
  <1> DEFINE T == {n - k : k \in S}
  <1>1. \A k \in S : n - k \in Nat
    OBVIOUS
  <1>2. T \subseteq Nat /\ T # {}
    BY <1>1
  <1>3. \E j \in T : \A l \in T : j <= l
    <2> HIDE DEF T
    <2> QED
      BY <1>2, LeastExists
  <1>4. PICK m \in S : \A k \in S : n - m <= n - k
    BY <1>3
  <1>5. S \subseteq Int /\ \A k \in S : k <= m
    BY <1>4
  <1>6. (CHOOSE x \in S : \A y \in S : x >= y) = m
    BY <1>5, TheMax
  <1> QED
    BY <1>5, <1>6 DEF Max

LEMMA OnlyOne ==
  ASSUME NEW S, IsFiniteSet(S), Cardinality(S) <= 1, NEW x \in S
  PROVE  S = {x}
  <1>1. IsFiniteSet({x}) /\ Cardinality({x}) = 1
    BY FS_Singleton
  <1>2. Cardinality({x}) <= Cardinality(S) /\ (Cardinality(S) = Cardinality({x}) => S = {x})
    BY FS_Subset
  <1>3. Cardinality(S) \in Nat
    BY FS_CardinalityType
  <1> QED
    BY <1>1, <1>2, <1>3

LEMMA GreatestAndLeastOfOne ==
  ASSUME NEW i \in Int
  PROVE  Scopes!Max({i}) = i /\ Scopes!Min({i}) = i
  <1>1. {i} \subseteq Int /\ i \in {i} /\ (\A k \in {i} : k <= i) /\ (\A k \in {i} : i <= k)
    OBVIOUS
  <1>2. (CHOOSE x \in {i} : \A y \in {i} : x >= y) = i
    BY <1>1, TheMax
  <1>3. (CHOOSE x \in {i} : \A y \in {i} : x <= y) = i
    BY <1>1, TheMin
  <1> QED
    BY <1>2, <1>3 DEF Scopes!Max, Scopes!Min

(* What a statement binds is attributed as Python binds it, when the file  *)
(* binds the name by no other statement of its kind and by none after it.  *)
LEMMA AttributesAsPython ==
  ASSUME NEW corpus, Unambiguous(corpus), NEW consumer \in Seq(STRING), consumer # <<>>, NEW isInit,
         NEW file \in Seq(Scopes!Statement), NEW c \in STRING, NEW binders, NEW stars,
         binders = Scopes!PythonBinders(corpus, file, c),
         stars = {j \in binders : file[j].form = "star"},
         \A j \in DOMAIN file :
           /\ ~file[j].inFunction /\ ~file[j].guarded
           /\ file[j].module # <<>>
           /\ file[j].form = "star" => file[j].level = 0,
         Cardinality(stars) <= 1, Cardinality(binders \ stars) <= 1,
         \A j \in stars, k \in binders \ stars : j < k,
         NEW i \in binders, \A k \in binders : k <= i,
         file[i].form = "import" => Len(file[i].module) = 1,
         NEW b \in Scopes!PythonBindings(corpus, consumer, isInit, file[i], c),
         b.kind = "cross-file-import" \/ b.origin \in corpus.modules
  PROVE  Scopes!Attribute(corpus, consumer, isInit, file, c) = b
  <1> DEFINE s == file[i]
  <1>1. /\ Len(file) \in Nat /\ DOMAIN file = 1..Len(file)
        /\ binders \subseteq 1..Len(file) /\ i \in 1..Len(file)
    BY LenProperties DEF Scopes!PythonBinders
  <1>2. \A j \in DOMAIN file : file[j] \in Scopes!Statement
    BY <1>1, ElementOfSeq
  <1>3. s \in Scopes!Statement /\ s.module \in Seq(STRING) /\ s.module # <<>> /\ s.leaf \in STRING /\ s.level \in Nat
        /\ s.form \in {"import", "as", "from", "star"}
    BY <1>1, <1>2 DEF Scopes!Statement
  <1>4. IsFiniteSet(binders) /\ IsFiniteSet(stars) /\ IsFiniteSet(binders \ stars)
    <2>1. IsFiniteSet(1..Len(file))
      BY <1>1, FS_Interval
    <2>2. binders \in SUBSET (1..Len(file)) /\ stars \in SUBSET (1..Len(file))
          /\ binders \ stars \in SUBSET (1..Len(file))
      BY <1>1
    <2> QED
      BY <2>1, <2>2, FS_Subset
  <1>5. Scopes!NamedImports(file, c) = binders \ stars
    BY <1>1 DEF Scopes!NamedImports, Scopes!PythonBinders
  <1>6. Scopes!StarImports(corpus, file, c) = stars
    BY <1>1 DEF Scopes!StarImports, Scopes!PythonBinders
  <1>7. \A x : (CHOOSE y \in {x} : TRUE) = x
    OBVIOUS
  <1>8. Scopes!Max({i}) = i /\ Scopes!Min({i}) = i
    BY <1>1, GreatestAndLeastOfOne
  <1>9. CASE s.form = "star"
    <2>1. i \in stars
      BY <1>9
    <2>2. binders \ stars = {}
      BY <1>1, <2>1
    <2>3. stars = {i}
      BY <1>4, <2>1, OnlyOne
    <2> DEFINE name == [dots |-> 0, path |-> Append(s.module, c)]
    <2>4. Scopes!ImportsHere(corpus, file, c) = {name}
      BY <1>5, <1>6, <1>8, <2>2, <2>3 DEF Scopes!ImportsHere
    <2>5. Scopes!Attribute(corpus, consumer, isInit, file, c) = Scopes!Lift(corpus, consumer, isInit, name)
      <3> HIDE DEF name
      <3> QED
        BY <1>7, <2>4 DEF Scopes!Attribute
    <2>6. b = BoundTo(corpus, s.module, c)
      <3>1. s.level = 0
        BY <1>1, <1>9
      <3>2. Scopes!PythonModules(consumer, isInit, s) = {s.module}
        BY <3>1 DEF Scopes!PythonModules
      <3> QED
        BY <1>9, <3>2 DEF Scopes!PythonBindings, BoundTo
    <2>7. name.dots = 0 /\ name.path = Append(s.module, c)
      OBVIOUS
    <2>8. Append(s.module, c) = PathOf(consumer, isInit, name)
      BY <2>7 DEF PathOf
    <2> HIDE DEF name, s
    <2>9. Scopes!Lift(corpus, consumer, isInit, name) = b
      <3>1. LiftedTo(corpus, consumer, isInit, name, s.module, c, b)
        BY <1>3, <2>6, <2>8 DEF LiftedTo
      <3> QED
        BY <3>1, LiftsAsPython
    <2> QED
      BY <2>5, <2>9
  <1>10. CASE s.form # "star"
    <2>1. i \in binders \ stars
      BY <1>10
    <2>2. binders \ stars = {i}
      BY <1>4, <2>1, OnlyOne
    <2> DEFINE name == Scopes!Canonical(s)
    <2>3. Scopes!ImportsHere(corpus, file, c) = {name}
      BY <1>5, <1>8, <2>2 DEF Scopes!ImportsHere
    <2>4. Scopes!Attribute(corpus, consumer, isInit, file, c) = Scopes!Lift(corpus, consumer, isInit, name)
      <3> HIDE DEF name
      <3> QED
        BY <1>7, <2>3 DEF Scopes!Attribute
    <2>5. CASE s.form \in {"import", "as"}
      <3>1. b = [kind |-> "module-import", origin |-> s.module]
        <4>1. s.form = "import" => s.module = <<Head(s.module)>>
          <5> SUFFICES ASSUME Len(s.module) = 1 PROVE s.module = <<Head(s.module)>>
            OBVIOUS
          <5> HIDE DEF s
          <5> QED
            BY <1>3
        <4> QED
          BY <2>5, <4>1 DEF Scopes!PythonBindings
      <3>2. s.module \in corpus.modules
        BY <3>1
      <3>3. name = [dots |-> 0, path |-> s.module]
        BY <2>5 DEF Scopes!Canonical
      <3>4. Scopes!Lift(corpus, consumer, isInit, name) = b
        BY <3>1, <3>2, <3>3 DEF Scopes!Lift
      <3> QED
        BY <2>4, <3>4
    <2>6. CASE s.form = "from"
      <3>1. name = [dots |-> s.level, path |-> Append(s.module, s.leaf)]
        BY <1>3, <2>6 DEF Scopes!Canonical
      <3>2. PICK m \in Scopes!PythonModules(consumer, isInit, s) :
              b = BoundTo(corpus, m, s.leaf)
        BY <2>6 DEF Scopes!PythonBindings, BoundTo
      <3> HIDE DEF s
      <3> HIDE DEF name
      <3>3. name.dots = s.level /\ name.path = Append(s.module, s.leaf)
        BY <3>1
      <3>4. m \in Seq(STRING) /\ m # <<>> /\ Append(m, s.leaf) = PathOf(consumer, isInit, name)
        <4>1. RelativeTo(consumer, isInit, s, m, name)
          BY <1>3, <3>3 DEF RelativeTo
        <4> QED
          BY <4>1, RelativePath
      <3>5. Scopes!Lift(corpus, consumer, isInit, name) = b
        <4>1. LiftedTo(corpus, consumer, isInit, name, m, s.leaf, b)
          BY <1>3, <3>2, <3>4 DEF LiftedTo
        <4> QED
          BY <4>1, LiftsAsPython
      <3> QED
        BY <2>4, <3>5
    <2> QED
      BY <1>3, <1>10, <2>5, <2>6
  <1> QED
    BY <1>9, <1>10

(* A name that a file takes by one import, by name or by a star, is        *)
(* attributed to the module that Python takes it from, for packages and    *)
(* modules nested to any depth and relative imports of any level.          *)
THEOREM ImportsAreAttributed == ComputeSpec => []ImportAttributed
  <1>1. ComputesInv => ImportAttributed
    <2> SUFFICES ASSUME ComputesInv, Computed("import"), Unambiguous(input.corpus),
                        NEW i \in DOMAIN input.file, Followed(i),
                        NEW b \in Scopes!PythonBindings(input.corpus, input.consumer, input.isInit,
                                                        input.file[i], input.name),
                        b.kind = "cross-file-import" \/ b.origin \in input.corpus.modules
                 PROVE  output[1] = b
      BY DEF ImportAttributed
    <2>1. /\ input \in ImportInputs
          /\ output = <<Scopes!Attribute(input.corpus, input.consumer, input.isInit, input.file, input.name)>>
      BY DEF ComputesInv, IsComputed, Computed
    <2>2. /\ input.consumer \in Seq(STRING) /\ input.consumer # <<>> /\ input.file \in Seq(Scopes!Statement)
          /\ input.name \in STRING
      BY <2>1, ImportAssumption
    <2> DEFINE binders == Scopes!PythonBinders(input.corpus, input.file, input.name)
               stars   == {j \in binders : input.file[j].form = "star"}
    <2>3. /\ \A j \in DOMAIN input.file :
               /\ ~input.file[j].inFunction /\ ~input.file[j].guarded
               /\ input.file[j].module # <<>>
               /\ input.file[j].form = "star" => input.file[j].level = 0
          /\ Cardinality(stars) <= 1 /\ Cardinality(binders \ stars) <= 1
          /\ \A j \in stars, k \in binders \ stars : j < k
          /\ binders # {} /\ i = Max(binders)
          /\ input.file[i].form = "import" => Len(input.file[i].module) = 1
      BY DEF Followed
    <2>4. i \in binders /\ \A k \in binders : k <= i
      <3>1. binders \subseteq 1..Len(input.file) /\ Len(input.file) \in Nat
        BY <2>2, LenProperties DEF Scopes!PythonBinders
      <3> HIDE DEF binders
      <3> QED
        BY <2>3, <3>1, GreatestOf
    <2>5. PICK B, S : B = binders /\ S = stars
      OBVIOUS
    <2>6. B = Scopes!PythonBinders(input.corpus, input.file, input.name)
          /\ S = {j \in B : input.file[j].form = "star"}
      BY <2>5
    <2> HIDE DEF binders, stars
    <2>7. Scopes!Attribute(input.corpus, input.consumer, input.isInit, input.file, input.name) = b
      BY <2>2, <2>3, <2>4, <2>5, <2>6, AttributesAsPython
    <2> QED
      BY <2>1, <2>7
  <1> QED
    BY <1>1, Computes, PTL
-----------------------------------------------------------------------------
(* Bridges.  A module: its nodes have one form for each text.              *)
IsModule(m) ==
  /\ m \in Seq(BridgeStep!Process)
  /\ \A at, other \in UNION {BridgeStep!Places(m, p) : p \in DOMAIN m} :
       BridgeStep!Node(m, at).word = BridgeStep!Node(m, other).word
         => BridgeStep!Node(m, at).form = BridgeStep!Node(m, other).form

IsPlace(at) == at \in Nat \X Nat \X Nat

LEMMA PlacesOf ==
  ASSUME NEW m, IsModule(m), NEW p \in DOMAIN m
  PROVE  /\ p \in Nat
         /\ \A at \in BridgeStep!Places(m, p) : IsPlace(at) /\ at[1] = p
         /\ \A i \in DOMAIN m[p].sites : <<p, i, 1>> \in BridgeStep!Places(m, p)
  <1>1. p \in Nat /\ m[p] \in BridgeStep!Process
    BY ElementOfSeq, LenProperties DEF IsModule
  <1>2. ASSUME NEW i \in DOMAIN m[p].sites
        PROVE  /\ i \in Nat
               /\ DOMAIN m[p].sites[i].nodes \subseteq Nat
               /\ 1 \in DOMAIN m[p].sites[i].nodes
    <2>1. m[p].sites \in Seq(BridgeStep!Site)
      BY <1>1 DEF BridgeStep!Process
    <2>2. PICK sites : sites = m[p].sites
      OBVIOUS
    <2>3. i \in Nat /\ sites[i] \in BridgeStep!Site
      BY <2>1, <2>2, ElementOfSeq, LenProperties
    <2>4. PICK E : sites[i].nodes \in Seq(E) \ {<<>>}
      BY <2>3 DEF BridgeStep!Site
    <2>5. PICK nodes : nodes = sites[i].nodes
      OBVIOUS
    <2>6. nodes \in Seq(E) /\ nodes # <<>>
      BY <2>4, <2>5
    <2>7. DOMAIN nodes = 1..Len(nodes) /\ Len(nodes) \in Nat /\ Len(nodes) # 0
      BY <2>6, LenProperties, EmptySeq
    <2> QED
      BY <2>2, <2>3, <2>5, <2>7
  <1>3. ASSUME NEW at \in BridgeStep!Places(m, p)
        PROVE  IsPlace(at) /\ at[1] = p
    <2>1. PICK i \in DOMAIN m[p].sites : at \in {<<p, i, k>> : k \in DOMAIN m[p].sites[i].nodes}
      BY DEF BridgeStep!Places
    <2>2. PICK k \in DOMAIN m[p].sites[i].nodes : at = <<p, i, k>>
      BY <2>1
    <2> QED
      BY <1>1, <1>2, <2>2 DEF IsPlace
  <1>4. ASSUME NEW i \in DOMAIN m[p].sites
        PROVE  <<p, i, 1>> \in BridgeStep!Places(m, p)
    BY <1>2 DEF BridgeStep!Places
  <1> QED
    BY <1>1, <1>3, <1>4

(* One of some places comes first, and of two places one.                  *)
LEMMA FirstPlace ==
  ASSUME NEW S, S # {}, \A at \in S : IsPlace(at)
  PROVE  \E at \in S : \A other \in S : ~BridgeStep!Earlier(other, at)
  <1>0. \A at \in S : at[1] \in Nat /\ at[2] \in Nat /\ at[3] \in Nat
    BY DEF IsPlace
  <1> DEFINE A == {at[1] : at \in S}
  <1>1. A \subseteq Nat /\ A # {}
    BY <1>0
  <1>2. PICK p \in A : \A x \in A : p <= x
    <2> HIDE DEF A
    <2> QED
      BY <1>1, LeastExists
  <1> DEFINE B == {at[2] : at \in {x \in S : x[1] = p}}
  <1>3. B \subseteq Nat /\ B # {}
    BY <1>0
  <1>4. PICK i \in B : \A x \in B : i <= x
    <2> HIDE DEF B
    <2> QED
      BY <1>3, LeastExists
  <1> DEFINE C == {at[3] : at \in {x \in S : x[1] = p /\ x[2] = i}}
  <1>5. C \subseteq Nat /\ C # {}
    BY <1>0
  <1>6. PICK k \in C : \A x \in C : k <= x
    <2> HIDE DEF C
    <2> QED
      BY <1>5, LeastExists
  <1>7. PICK at \in S : at[1] = p /\ at[2] = i /\ at[3] = k
    OBVIOUS
  <1>8. ASSUME NEW other \in S
        PROVE  ~BridgeStep!Earlier(other, at)
    <2>1. p <= other[1] /\ (other[1] = p => i <= other[2])
          /\ (other[1] = p /\ other[2] = i => k <= other[3])
      BY <1>2, <1>4, <1>6
    <2> QED
      BY <1>0, <1>7, <2>1 DEF BridgeStep!Earlier
  <1> QED
    BY <1>8

LEMMA OneIsEarlier ==
  ASSUME NEW at, NEW other, IsPlace(at), IsPlace(other), at # other
  PROVE  BridgeStep!Earlier(at, other) \/ BridgeStep!Earlier(other, at)
  BY DEF IsPlace, BridgeStep!Earlier

LEMMA SameNumber ==
  \A S : BridgeStep!Cardinality(S) = Cardinality(S)
  BY DEF BridgeStep!Cardinality, Cardinality

(* The walker gives every process it walks a number of its own: that of the*)
(* statements, as long as it has walked all.                               *)
LEMMA OneNumber ==
  ASSUME NEW m, IsModule(m), NEW p \in BridgeStep!Walked(m), NEW q \in BridgeStep!Walked(m), p < q
  PROVE  BridgeStep!WalkerNumber(m, p) # BridgeStep!WalkerNumber(m, q)
  <1> DEFINE A == {r \in 1..(p - 1) : m[r].kind \in BridgeStep!Numbered}
             B == {r \in 1..(q - 1) : m[r].kind \in BridgeStep!Numbered}
  <1>1. p \in Nat /\ q \in Nat /\ p >= 1 /\ m[p].kind \in BridgeStep!Numbered
    BY LenProperties DEF BridgeStep!Walked, IsModule
  <1>2. IsFiniteSet(1..(q - 1))
    BY <1>1, FS_Interval
  <1>3. IsFiniteSet(B)
    <2>1. B \in SUBSET (1..(q - 1))
      OBVIOUS
    <2> HIDE DEF B
    <2> QED
      BY <1>2, <2>1, FS_Subset
  <1>4. A \in SUBSET B /\ p \in B /\ p \notin A
    BY <1>1
  <1> HIDE DEF A, B
  <1>5. Cardinality(A) # Cardinality(B)
    BY <1>3, <1>4, FS_Subset
  <1> QED
    BY <1>5, SameNumber DEF BridgeStep!WalkerNumber, A, B

LEMMA AllWalked ==
  ASSUME NEW m, IsModule(m), NEW p \in DOMAIN m,
         \A q \in 1..p : m[q].kind \in BridgeStep!Numbered
  PROVE  /\ p \in BridgeStep!Walked(m)
         /\ BridgeStep!WalkerNumber(m, p) = BridgeStep!StatementNumber(m, p)
  <1>1. p \in Nat /\ p >= 1
    BY LenProperties DEF IsModule
  <1>2. {q \in 1..(p - 1) : m[q].kind \in BridgeStep!Numbered} = 1..(p - 1)
    BY <1>1
  <1>3. Cardinality(1..(p - 1)) = p - 1
    BY <1>1, FS_Interval
  <1>4. BridgeStep!WalkerNumber(m, p) = BridgeStep!StatementNumber(m, p)
    <2>1. BridgeStep!WalkerNumber(m, p) = Cardinality(1..(p - 1))
      BY <1>2, SameNumber DEF BridgeStep!WalkerNumber
    <2> QED
      BY <1>3, <2>1 DEF BridgeStep!StatementNumber
  <1>5. p \in BridgeStep!Walked(m)
    BY <1>1 DEF BridgeStep!Walked
  <1> QED
    BY <1>4, <1>5

(* A root of a text comes from a node with this text: from the first of its*)
(* operators, or from the first of the literals and selects that are made. *)
FirstMade(m, q, at, text) ==
  /\ BridgeStep!Node(m, at).form = "shared" /\ at \in BridgeStep!Made(m, q)
  /\ \A other \in BridgeStep!Made(m, q) :
       BridgeStep!Earlier(other, at) => BridgeStep!Node(m, other).word # text

FirstOperator(m, q, at, text) ==
  /\ BridgeStep!Node(m, at).form = "operator"
  /\ \A other \in BridgeStep!Places(m, q) :
       BridgeStep!Earlier(other, at) /\ BridgeStep!Node(m, other).form = "operator"
         => BridgeStep!Node(m, other).word # text

LEMMA MadePlaces ==
  ASSUME NEW m, IsModule(m), NEW q \in BridgeStep!Walked(m), NEW at \in BridgeStep!Made(m, q)
  PROVE  at \in BridgeStep!Places(m, q) /\ BridgeStep!Node(m, at).form = "shared"
  <1>1. /\ at \in BridgeStep!OfForm(m, UNION {BridgeStep!Places(m, p) : p \in BridgeStep!Walked(m)}, "shared")
        /\ at[1] = q
    BY DEF BridgeStep!Made
  <1>2. PICK p \in BridgeStep!Walked(m) : at \in BridgeStep!Places(m, p)
    BY <1>1 DEF BridgeStep!OfForm
  <1>3. p = q
    BY <1>1, <1>2, PlacesOf DEF BridgeStep!Walked
  <1> QED
    BY <1>1, <1>2, <1>3 DEF BridgeStep!OfForm

LEMMA RootsOf ==
  ASSUME NEW m, IsModule(m), NEW q \in BridgeStep!Walked(m),
         NEW r \in BridgeStep!SharedRoots(m, q) \union BridgeStep!OperatorRoots(m, q)
  PROVE  \E at \in BridgeStep!Places(m, q) :
           /\ r.text = BridgeStep!Node(m, at).word
           /\ \/ FirstMade(m, q, at, r.text) /\ r.node = <<BridgeStep!Node(m, at).key>>
              \/ FirstOperator(m, q, at, r.text) /\ r.node = at
  <1>1. CASE r \in BridgeStep!SharedRoots(m, q)
    <2>1. PICK at \in BridgeStep!Made(m, q) :
            /\ \A other \in BridgeStep!Made(m, q) :
                 BridgeStep!Earlier(other, at) => BridgeStep!Node(m, other).word # BridgeStep!Node(m, at).word
            /\ r = [text |-> BridgeStep!Node(m, at).word, node |-> <<BridgeStep!Node(m, at).key>>]
      BY <1>1 DEF BridgeStep!SharedRoots
    <2>2. r.text = BridgeStep!Node(m, at).word /\ r.node = <<BridgeStep!Node(m, at).key>>
      BY <2>1
    <2> QED
      BY <2>1, <2>2, MadePlaces DEF FirstMade
  <1>2. CASE r \in BridgeStep!OperatorRoots(m, q)
    <2>1. PICK at \in BridgeStep!OfForm(m, BridgeStep!Places(m, q), "operator") :
            /\ \A other \in BridgeStep!OfForm(m, BridgeStep!Places(m, q), "operator") :
                 BridgeStep!Earlier(other, at) => BridgeStep!Node(m, other).word # BridgeStep!Node(m, at).word
            /\ r = [text |-> BridgeStep!Node(m, at).word, node |-> at]
      BY <1>2 DEF BridgeStep!OperatorRoots
    <2>2. r.text = BridgeStep!Node(m, at).word /\ r.node = at
      BY <2>1
    <2> QED
      BY <2>1, <2>2 DEF BridgeStep!OfForm, FirstOperator
  <1> QED
    BY <1>1, <1>2

LEMMA OneRoot ==
  ASSUME NEW m, IsModule(m), NEW q \in BridgeStep!Walked(m),
         NEW r \in BridgeStep!SharedRoots(m, q) \union BridgeStep!OperatorRoots(m, q),
         NEW s \in BridgeStep!SharedRoots(m, q) \union BridgeStep!OperatorRoots(m, q),
         r.text = s.text
  PROVE  r.node = s.node
  <1>1. q \in DOMAIN m
    BY DEF BridgeStep!Walked
  <1>2. PICK at \in BridgeStep!Places(m, q) :
           /\ r.text = BridgeStep!Node(m, at).word
           /\ \/ FirstMade(m, q, at, r.text) /\ r.node = <<BridgeStep!Node(m, at).key>>
              \/ FirstOperator(m, q, at, r.text) /\ r.node = at
    BY RootsOf
  <1>3. PICK an \in BridgeStep!Places(m, q) :
           /\ s.text = BridgeStep!Node(m, an).word
           /\ \/ FirstMade(m, q, an, s.text) /\ s.node = <<BridgeStep!Node(m, an).key>>
              \/ FirstOperator(m, q, an, s.text) /\ s.node = an
    BY RootsOf
  <1>4. BridgeStep!Node(m, at).form = BridgeStep!Node(m, an).form
    BY <1>1, <1>2, <1>3 DEF IsModule
  <1>5. IsPlace(at) /\ IsPlace(an)
    BY <1>1, PlacesOf
  <1>6. ~BridgeStep!Earlier(at, an) /\ ~BridgeStep!Earlier(an, at)
    BY <1>2, <1>3, <1>4 DEF FirstMade, FirstOperator
  <1>7. at = an
    BY <1>5, <1>6, OneIsEarlier
  <1> QED
    BY <1>2, <1>3, <1>7 DEF FirstMade, FirstOperator

(* The table of a process is that of the one process walked with its name. *)
LEMMA TableOf ==
  ASSUME NEW m, IsModule(m), NEW name
  PROVE  \/ BridgeStep!TextToRoot(m, name) = {}
         \/ \E q \in BridgeStep!Walked(m) :
              /\ BridgeStep!WalkerProcess(m, q) = name
              /\ BridgeStep!TextToRoot(m, name)
                   = BridgeStep!SharedRoots(m, q) \union BridgeStep!OperatorRoots(m, q)
  <1> DEFINE Q == {q \in BridgeStep!Walked(m) : BridgeStep!WalkerProcess(m, q) = name}
  <1>1. CASE Q = {}
    BY <1>1 DEF BridgeStep!TextToRoot
  <1>2. ASSUME NEW q \in Q
        PROVE  Q = {q}
    <2>1. ASSUME NEW p \in Q PROVE p = q
      <3>1. BridgeStep!WalkerNumber(m, p) = BridgeStep!WalkerNumber(m, q)
        BY DEF BridgeStep!WalkerProcess
      <3>2. p \in Nat /\ q \in Nat
        BY LenProperties DEF BridgeStep!Walked, IsModule
      <3>3. ~(p < q) /\ ~(q < p)
        BY <3>1, OneNumber
      <3> QED
        BY <3>2, <3>3
    <2> QED
      BY <2>1
  <1>3. ASSUME NEW q \in Q
        PROVE  BridgeStep!TextToRoot(m, name)
                 = BridgeStep!SharedRoots(m, q) \union BridgeStep!OperatorRoots(m, q)
    <2>1. BridgeStep!TextToRoot(m, name)
            = UNION {BridgeStep!SharedRoots(m, p) \union BridgeStep!OperatorRoots(m, p) : p \in Q}
      BY DEF BridgeStep!TextToRoot
    <2> HIDE DEF Q
    <2> QED
      BY <1>2, <2>1
  <1> QED
    BY <1>1, <1>3

(* The first node with a text makes its root.                              *)
LEMMA OperatorHasRoot ==
  ASSUME NEW m, IsModule(m), NEW q \in DOMAIN m, NEW at \in BridgeStep!Places(m, q),
         BridgeStep!Node(m, at).form = "operator"
  PROVE  \E r \in BridgeStep!OperatorRoots(m, q) : r.text = BridgeStep!Node(m, at).word /\ r.node[1] = q
  <1> DEFINE S == {x \in BridgeStep!Places(m, q) : /\ BridgeStep!Node(m, x).form = "operator"
                                                  /\ BridgeStep!Node(m, x).word = BridgeStep!Node(m, at).word}
  <1>1. S # {} /\ \A x \in S : IsPlace(x)
    BY PlacesOf
  <1>2. PICK x \in S : \A other \in S : ~BridgeStep!Earlier(other, x)
    <2> HIDE DEF S
    <2> QED
      BY <1>1, FirstPlace
  <1> DEFINE r == [text |-> BridgeStep!Node(m, x).word, node |-> x]
  <1>3. r \in BridgeStep!OperatorRoots(m, q)
    BY <1>2 DEF BridgeStep!OperatorRoots, BridgeStep!OfForm
  <1>4. r.text = BridgeStep!Node(m, at).word /\ r.node = x /\ x[1] = q
    BY <1>2, PlacesOf
  <1> QED
    BY <1>3, <1>4

(* The first node with a key is made, and the first made of its text is    *)
(* entered.                                                                *)
LEMMA SharedHasRoot ==
  ASSUME NEW m, IsModule(m), NEW p \in BridgeStep!Walked(m), NEW at \in BridgeStep!Places(m, p),
         BridgeStep!Node(m, at).form = "shared",
         \A q \in 1..p : \A x \in BridgeStep!Places(m, q) :
           BridgeStep!Node(m, x).form = "shared" /\ BridgeStep!Node(m, x).key = BridgeStep!Node(m, at).key
             => q = p /\ BridgeStep!Node(m, x).word = BridgeStep!Node(m, at).word
  PROVE  \E r \in BridgeStep!SharedRoots(m, p) : r.text = BridgeStep!Node(m, at).word
  <1> DEFINE S == {x \in UNION {BridgeStep!Places(m, q) : q \in BridgeStep!Walked(m)} :
                     /\ BridgeStep!Node(m, x).form = "shared"
                     /\ BridgeStep!Node(m, x).key = BridgeStep!Node(m, at).key}
  <1>0. p \in DOMAIN m /\ DOMAIN m \subseteq Nat /\ p \in 1..p
        /\ \A q \in DOMAIN m : q <= p => q \in 1..p
    BY LenProperties DEF BridgeStep!Walked, IsModule
  <1>1. at \in S
    OBVIOUS
  <1>2. ASSUME NEW x \in S
        PROVE  IsPlace(x) /\ (x[1] <= p => x[1] = p /\ BridgeStep!Node(m, x).word = BridgeStep!Node(m, at).word)
    <2>1. PICK q \in BridgeStep!Walked(m) : x \in BridgeStep!Places(m, q)
      OBVIOUS
    <2>2. q \in DOMAIN m
      BY DEF BridgeStep!Walked
    <2>3. IsPlace(x) /\ x[1] = q
      BY <2>1, <2>2, PlacesOf
    <2>4. ASSUME q <= p
          PROVE  x[1] = p /\ BridgeStep!Node(m, x).word = BridgeStep!Node(m, at).word
      <3>1. q \in 1..p
        BY <1>0, <2>2, <2>4
      <3> QED
        BY <2>1, <2>3, <3>1
    <2> QED
      BY <2>3, <2>4
  <1>3. PICK x \in S : \A other \in S : ~BridgeStep!Earlier(other, x)
    <2> HIDE DEF S
    <2> QED
      BY <1>1, <1>2, FirstPlace
  <1>4. IsPlace(at) /\ at[1] = p
    BY <1>0, PlacesOf
  <1>5. x[1] = p /\ BridgeStep!Node(m, x).word = BridgeStep!Node(m, at).word
    <2>1. ~BridgeStep!Earlier(at, x) /\ IsPlace(x)
      BY <1>1, <1>2, <1>3
    <2>2. x[1] <= p
      <3> HIDE DEF S
      <3> QED
        BY <1>4, <2>1 DEF IsPlace, BridgeStep!Earlier
    <2> QED
      BY <1>2, <2>2
  <1>6. x \in BridgeStep!Made(m, p)
    BY <1>3, <1>5 DEF BridgeStep!Made, BridgeStep!OfForm
  <1> DEFINE T == {y \in BridgeStep!Made(m, p) : BridgeStep!Node(m, y).word = BridgeStep!Node(m, at).word}
  <1>7. T # {} /\ \A y \in T : IsPlace(y)
    BY <1>0, <1>5, <1>6, MadePlaces, PlacesOf
  <1>8. PICK y \in T : \A other \in T : ~BridgeStep!Earlier(other, y)
    <2> HIDE DEF T
    <2> QED
      BY <1>7, FirstPlace
  <1> DEFINE r == [text |-> BridgeStep!Node(m, y).word, node |-> <<BridgeStep!Node(m, y).key>>]
  <1>9. r \in BridgeStep!SharedRoots(m, p)
    BY <1>8 DEF BridgeStep!SharedRoots
  <1> QED
    BY <1>8, <1>9

(* What the text of a stub is tied to: roots of that text, or the signal.  *)
LEMMA TargetsOf ==
  ASSUME NEW m, IsModule(m), NEW p \in DOMAIN m, NEW i \in DOMAIN m[p].sites,
         NEW root, root = m[p].sites[i].nodes[1],
         NEW x \in BridgeStep!BridgeTargets(m, p, i)
  PROVE  \/ /\ root.form = "name" /\ root.word \in KnownSignals
            /\ BridgeStep!BridgeTargets(m, p, i) = {<<root.word>>}
         \/ \E q \in BridgeStep!Walked(m) :
              /\ BridgeStep!WalkerProcess(m, q) = BridgeStep!StatementProcess(m, p)
              /\ \E r \in BridgeStep!SharedRoots(m, q) \union BridgeStep!OperatorRoots(m, q) :
                   r.text = root.word /\ r.node = x
              /\ BridgeStep!BridgeTargets(m, p, i) = {x}
  <1> DEFINE name == BridgeStep!StatementProcess(m, p)
             table == BridgeStep!TextToRoot(m, name)
             roots == {r.node : r \in {t \in table : t.text = root.word}}
  <1>1. BridgeStep!BridgeTargets(m, p, i) \in {{}, roots}
          \/ /\ root.form = "name" /\ root.word \in KnownSignals
             /\ BridgeStep!BridgeTargets(m, p, i) = {<<root.word>>}
    BY DEF BridgeStep!BridgeTargets
  <1>2. CASE BridgeStep!BridgeTargets(m, p, i) = roots
    <2>1. PICK r \in table : r.text = root.word /\ r.node = x
      BY <1>2
    <2>2. PICK q \in BridgeStep!Walked(m) :
            /\ BridgeStep!WalkerProcess(m, q) = name
            /\ table = BridgeStep!SharedRoots(m, q) \union BridgeStep!OperatorRoots(m, q)
      BY <2>1, TableOf
    <2>3. \A s \in table : s.text = root.word => s.node = x
      <3> HIDE DEF table
      <3> QED
        BY <2>1, <2>2, OneRoot
    <2>4. roots = {x}
      <3> HIDE DEF table
      <3> QED
        BY <2>1, <2>3
    <2> HIDE DEF table, roots
    <2>5. r \in BridgeStep!SharedRoots(m, q) \union BridgeStep!OperatorRoots(m, q)
      BY <2>1, <2>2
    <2> QED
      BY <1>2, <2>1, <2>2, <2>4, <2>5
  <1> HIDE DEF roots
  <1> QED
    BY <1>1, <1>2

(* What is in the table of an operator's or a shared node's own process is *)
(* tied, and what has a text that no root has is tied to nothing.          *)
LEMMA TiedTo ==
  ASSUME NEW m, IsModule(m), NEW p \in BridgeStep!Walked(m), NEW i \in DOMAIN m[p].sites,
         NEW root, root = m[p].sites[i].nodes[1],
         BridgeStep!WalkerNumber(m, p) = BridgeStep!StatementNumber(m, p),
         m[p].sites[i].role \in BridgeStep!StubIsObject,
         NEW r \in BridgeStep!SharedRoots(m, p) \union BridgeStep!OperatorRoots(m, p), r.text = root.word
  PROVE  r.node \in BridgeStep!BridgeTargets(m, p, i)
  <1>1. BridgeStep!WalkerProcess(m, p) = BridgeStep!StatementProcess(m, p)
    BY DEF BridgeStep!WalkerProcess, BridgeStep!StatementProcess
  <1>2. r \in BridgeStep!TextToRoot(m, BridgeStep!StatementProcess(m, p))
    BY <1>1 DEF BridgeStep!TextToRoot
  <1> QED
    BY <1>2 DEF BridgeStep!BridgeTargets

(* A root of a text has its form.                                          *)
Top(m, p, i) == m[p].sites[i].nodes[1]

SharedWith(m, q, word, x) ==
  \E at \in BridgeStep!Places(m, q) :
    /\ BridgeStep!Node(m, at).form = "shared" /\ BridgeStep!Node(m, at).word = word
    /\ x = <<BridgeStep!Node(m, at).key>>

LEMMA RootHasForm ==
  ASSUME NEW m, IsModule(m), NEW p \in DOMAIN m, NEW i \in DOMAIN m[p].sites,
         NEW q \in BridgeStep!Walked(m),
         NEW r \in BridgeStep!SharedRoots(m, q) \union BridgeStep!OperatorRoots(m, q), r.text = Top(m, p, i).word
  PROVE  \/ Top(m, p, i).form = "shared" /\ SharedWith(m, q, Top(m, p, i).word, r.node)
         \/ Top(m, p, i).form = "operator" /\ r.node[1] = q /\ BridgeStep!Node(m, r.node).word = Top(m, p, i).word
  <1>1. PICK at \in BridgeStep!Places(m, q) :
           /\ r.text = BridgeStep!Node(m, at).word
           /\ \/ BridgeStep!Node(m, at).form = "shared" /\ r.node = <<BridgeStep!Node(m, at).key>>
              \/ BridgeStep!Node(m, at).form = "operator" /\ r.node = at
    BY RootsOf DEF FirstMade, FirstOperator
  <1>2. q \in DOMAIN m
    BY DEF BridgeStep!Walked
  <1>3. <<p, i, 1>> \in BridgeStep!Places(m, p) /\ at[1] = q
    BY <1>2, PlacesOf
  <1>4. BridgeStep!Node(m, <<p, i, 1>>) = Top(m, p, i)
    BY DEF Top, BridgeStep!Node
  <1>5. BridgeStep!Node(m, at).form = Top(m, p, i).form
    <2>1. \A here, there \in UNION {BridgeStep!Places(m, k) : k \in DOMAIN m} :
            BridgeStep!Node(m, here).word = BridgeStep!Node(m, there).word
              => BridgeStep!Node(m, here).form = BridgeStep!Node(m, there).form
      BY DEF IsModule
    <2>2. at \in UNION {BridgeStep!Places(m, k) : k \in DOMAIN m}
      BY <1>2
    <2>3. <<p, i, 1>> \in UNION {BridgeStep!Places(m, k) : k \in DOMAIN m}
      BY <1>3
    <2>4. BridgeStep!Node(m, at).word = BridgeStep!Node(m, <<p, i, 1>>).word
      BY <1>1, <1>4
    <2>5. BridgeStep!Node(m, at).form = BridgeStep!Node(m, <<p, i, 1>>).form
      BY <2>1, <2>2, <2>3, <2>4
    <2> QED
      BY <1>4, <2>5
  <1> QED
    BY <1>1, <1>3, <1>5 DEF SharedWith

(* A bridge leads to the expression that its stub stands for, whatever the *)
(* module: the first of its text, in the process of the stub as long as    *)
(* both numberings count the same processes.                               *)
THEOREM BridgesAreFaithful == ComputeSpec => []BridgesFaithful
  <1>1. ComputesInv => BridgesFaithful
    <2> SUFFICES ASSUME ComputesInv, Computed("bridges"),
                        NEW p \in DOMAIN input, NEW i \in DOMAIN input[p].sites
                 PROVE  LET site == input[p].sites[i]
                            root == site.nodes[1]
                            targets == output[1][p][i]
                            Numbered(q) == input[q].kind \in BridgeStep!Numbered
                            Shared(q, word) == {at \in BridgeStep!Places(input, q) :
                                                  /\ BridgeStep!Node(input, at).form = "shared"
                                                  /\ BridgeStep!Node(input, at).word = word}
                            New == \A q \in 1..p : \A at \in BridgeStep!Places(input, q) :
                                     LET n == BridgeStep!Node(input, at)
                                     IN  n.form = "shared" /\ n.key = root.key => q = p /\ n.word = root.word
                        IN  /\ Cardinality(targets) <= 1
                            /\ \A at \in targets : root.form = "operator" =>
                                 BridgeStep!Node(input, at).word = root.word
                            /\ (\A q \in 1..p : Numbered(q)) =>
                                 /\ \A x \in targets : root.form = "operator" => x[1] = p
                                 /\ \A x \in targets : root.form = "shared" =>
                                      \E at \in Shared(p, root.word) : x = <<BridgeStep!Node(input, at).key>>
                                 /\ site.role \in {"lhs", "rhs", "selector", "case_value"} =>
                                      CASE root.form = "operator" -> targets # {}
                                        [] root.form = "name"     -> root.word \in KnownSignals => targets = {<<root.word>>}
                                        [] root.form = "shared"   -> New => targets # {}
                                        [] OTHER                  -> targets = {}
      BY DEF BridgesFaithful
    <2>1. input \in ModuleInputs /\ output = <<BridgeStep!Bridges(input)>>
      BY DEF ComputesInv, IsComputed, Computed
    <2>2. IsModule(input)
      BY <2>1, ModuleAssumption DEF IsModule
    <2> DEFINE site == input[p].sites[i]
               root == site.nodes[1]
               targets == BridgeStep!BridgeTargets(input, p, i)
    <2>3. output[1][p][i] = targets
      BY <2>1 DEF BridgeStep!Bridges
    <2>4. \A x \in targets : targets = {x}
      BY <2>2, TargetsOf
    <2>5. Cardinality(targets) <= 1
      <3>1. targets = {} \/ \E x : targets = {x}
        BY <2>4
      <3> HIDE DEF targets
      <3> QED
        <4>1. CASE targets = {}
          BY <4>1, FS_EmptySet
        <4>2. ASSUME NEW x, targets = {x}
              PROVE  Cardinality(targets) <= 1
          <5>1. Cardinality({x}) = 1
            BY FS_Singleton
          <5> QED
            BY <4>2, <5>1
        <4> QED
          BY <3>1, <4>1, <4>2
    <2>6. ASSUME NEW at \in targets
          PROVE  \/ root.form = "name" /\ root.word \in KnownSignals /\ at = <<root.word>>
                 \/ \E q \in BridgeStep!Walked(input) :
                      /\ BridgeStep!WalkerProcess(input, q) = BridgeStep!StatementProcess(input, p)
                      /\ \/ root.form = "shared" /\ SharedWith(input, q, root.word, at)
                         \/ root.form = "operator" /\ at[1] = q /\ BridgeStep!Node(input, at).word = root.word
      <3>1. CASE root.form = "name" /\ root.word \in KnownSignals /\ targets = {<<root.word>>}
        BY <3>1
      <3>2. CASE \E q \in BridgeStep!Walked(input) :
                   /\ BridgeStep!WalkerProcess(input, q) = BridgeStep!StatementProcess(input, p)
                   /\ \E r \in BridgeStep!SharedRoots(input, q) \union BridgeStep!OperatorRoots(input, q) :
                        r.text = root.word /\ r.node = at
        <4>1. PICK q \in BridgeStep!Walked(input) :
                /\ BridgeStep!WalkerProcess(input, q) = BridgeStep!StatementProcess(input, p)
                /\ \E r \in BridgeStep!SharedRoots(input, q) \union BridgeStep!OperatorRoots(input, q) :
                        r.text = root.word /\ r.node = at
          BY <3>2
        <4>2. PICK r \in BridgeStep!SharedRoots(input, q) \union BridgeStep!OperatorRoots(input, q) :
                r.text = root.word /\ r.node = at
          BY <4>1
        <4> HIDE DEF targets
        <4>3. root = Top(input, p, i)
          BY DEF Top
        <4> DEFINE top == Top(input, p, i)
        <4>4. \/ top.form = "shared" /\ SharedWith(input, q, top.word, r.node)
              \/ top.form = "operator" /\ r.node[1] = q /\ BridgeStep!Node(input, r.node).word = top.word
          <5>1. r.text = top.word
            BY <4>2, <4>3
          <5> HIDE DEF root
          <5> QED
            BY <2>2, <5>1, RootHasForm
        <4> QED
          <5> HIDE DEF top, root
          <5> QED
            BY <4>1, <4>2, <4>3, <4>4 DEF top
      <3> QED
        BY <2>2, <3>1, <3>2, TargetsOf
    <2>7. \A at \in targets : root.form = "operator" => BridgeStep!Node(input, at).word = root.word
      BY <2>6
    <2>8. ASSUME \A q \in 1..p : input[q].kind \in BridgeStep!Numbered
          PROVE  /\ \A x \in targets : root.form = "operator" => x[1] = p
                 /\ \A x \in targets : root.form = "shared" => SharedWith(input, p, root.word, x)
                 /\ site.role \in {"lhs", "rhs", "selector", "case_value"} =>
                      CASE root.form = "operator" -> targets # {}
                        [] root.form = "name"     -> root.word \in KnownSignals => targets = {<<root.word>>}
                        [] root.form = "shared"   ->
                             (\A q \in 1..p : \A at \in BridgeStep!Places(input, q) :
                                LET n == BridgeStep!Node(input, at)
                                IN  n.form = "shared" /\ n.key = root.key
                                      => q = p /\ n.word = root.word) => targets # {}
                        [] OTHER                  -> targets = {}
      <3>1. p \in BridgeStep!Walked(input)
            /\ BridgeStep!WalkerNumber(input, p) = BridgeStep!StatementNumber(input, p)
        BY <2>2, <2>8, AllWalked
      <3>2. ASSUME NEW q \in BridgeStep!Walked(input),
                   BridgeStep!WalkerProcess(input, q) = BridgeStep!StatementProcess(input, p)
            PROVE  q = p
        <4>1. BridgeStep!WalkerNumber(input, q) = BridgeStep!WalkerNumber(input, p)
          BY <3>1, <3>2 DEF BridgeStep!WalkerProcess, BridgeStep!StatementProcess
        <4>2. p \in Nat /\ q \in Nat
          BY <2>2, LenProperties DEF BridgeStep!Walked, IsModule
        <4>3. ~(p < q) /\ ~(q < p)
          BY <2>2, <3>1, <4>1, OneNumber
        <4> QED
          BY <4>2, <4>3
      <3>8. ASSUME NEW x \in targets
            PROVE  /\ root.form = "operator" => x[1] = p
                   /\ root.form = "shared" => SharedWith(input, p, root.word, x)
        <4> HIDE DEF targets, root
        <4> QED
          BY <2>6, <3>2, <3>8
      <3>3. <<p, i, 1>> \in BridgeStep!Places(input, p) /\ BridgeStep!Node(input, <<p, i, 1>>) = root
        BY <2>2, PlacesOf DEF BridgeStep!Node
      <3>4. ASSUME site.role \in BridgeStep!StubIsObject, root.form = "operator"
            PROVE  targets # {}
        <4>1. PICK r \in BridgeStep!OperatorRoots(input, p) : r.text = root.word
          BY <2>2, <3>3, <3>4, OperatorHasRoot
        <4>2. r.node \in targets
          BY <2>2, <3>1, <3>4, <4>1, TiedTo
        <4> QED
          BY <4>2
      <3>5. ASSUME site.role \in BridgeStep!StubIsObject, root.form = "name", root.word \in KnownSignals
            PROVE  targets = {<<root.word>>}
        <4>1. ASSUME NEW x \in targets PROVE targets = {<<root.word>>}
          <5>1. x = <<root.word>>
            <6> HIDE DEF targets, root
            <6> QED
              BY <2>6, <3>5
          <5> QED
            BY <2>4, <5>1
        <4>2. targets # {}
          BY <3>5 DEF BridgeStep!BridgeTargets
        <4> HIDE DEF targets
        <4> QED
          BY <4>1, <4>2
      <3>6. ASSUME site.role \in BridgeStep!StubIsObject, root.form = "shared",
                   \A q \in 1..p : \A at \in BridgeStep!Places(input, q) :
                     BridgeStep!Node(input, at).form = "shared" /\ BridgeStep!Node(input, at).key = root.key
                       => q = p /\ BridgeStep!Node(input, at).word = root.word
            PROVE  targets # {}
        <4>1. PICK r \in BridgeStep!SharedRoots(input, p) : r.text = root.word
          <5> DEFINE at == <<p, i, 1>>
          <5>1. at \in BridgeStep!Places(input, p) /\ BridgeStep!Node(input, at) = root
            BY <3>3
          <5> HIDE DEF at, root
          <5> QED
            BY <2>2, <3>1, <3>6, <5>1, SharedHasRoot
        <4>2. r.node \in targets
          BY <2>2, <3>1, <3>6, <4>1, TiedTo
        <4> QED
          BY <4>2
      <3>7. ASSUME root.form \notin {"operator", "name", "shared"}
            PROVE  targets = {}
        <4> HIDE DEF targets, root
        <4> QED
          BY <2>6, <3>7
      <3> HIDE DEF targets, root
      <3> QED
        BY <3>4, <3>5, <3>6, <3>7, <3>8 DEF BridgeStep!StubIsObject
    <2> HIDE DEF targets
    <2> QED
      BY <2>3, <2>5, <2>7, <2>8 DEF SharedWith
  <1> QED
    BY <1>1, Computes, PTL

-----------------------------------------------------------------------------
(* The token budget.  Sums of sequences of the same length compare as the  *)
(* elements do.                                                            *)
IsSum(s, f, n) == s \in [0..n -> Int] /\ s[0] = 0 /\ \A k \in Nat : k + 1 \in 0..n => s[k + 1] = s[k] + f[k + 1]

LEMMA SumsUp ==
  ASSUME NEW f \in Seq(Int)
  PROVE  \E s : IsSum(s, f, Len(f)) /\ Budget!SumOf(f) = s[Len(f)]
  <1> DEFINE N == Len(f)
             Up(g, n) == IF n = 0 THEN 0 ELSE g[n - 1] + f[n]
             L == CHOOSE g : g = [n \in 0..N |-> Up(g, n)]
             at(k) == IF k \in 1..N THEN f[k] ELSE 0
             step == [z \in Nat \X Int |-> z[2] + at(z[1] + 1)]
  <1>1. N \in Nat /\ \A k \in 1..N : f[k] \in Int
    BY LenProperties, ElementOfSeq
  <1>2. Budget!SumOf(f) = L[N]
    BY DEF Budget!SumOf
  <1>3. step \in [Nat \X Int -> Int]
    BY <1>1
  <1>4. PICK F : IsIteration(F, Int, 0, step)
    <2> DEFINE D == Int
               zero == 0
    <2>1. step \in [Nat \X D -> D] /\ zero \in D
      BY <1>3
    <2> HIDE DEF step, D, zero
    <2>2. \E F : IsIteration(F, D, zero, step)
      BY <2>1, Iterates
    <2> QED
      BY <2>2 DEF D, zero
  <1> DEFINE G == [n \in 0..N |-> F[n]]
  <1>5. F \in [Nat -> Int] /\ F[0] = 0
        /\ \A n \in Nat : F[n + 1] = F[n] + at(n + 1)
    BY <1>4 DEF IsIteration
  <1> HIDE DEF step
  <1>6. \A n \in 0..N : G[n] = Up(G, n)
    <2> SUFFICES ASSUME NEW n \in 0..N PROVE G[n] = Up(G, n)
      OBVIOUS
    <2>1. CASE n = 0
      BY <1>1, <1>5, <2>1
    <2>2. CASE n # 0
      <3>1. n - 1 \in Nat /\ n - 1 \in 0..N /\ (n - 1) + 1 = n /\ n \in 1..N
        BY <1>1, <2>2
      <3>2. F[n] = F[n - 1] + at(n)
        <4> HIDE DEF at
        <4> QED
          BY <1>5, <3>1
      <3> QED
        BY <2>2, <3>1, <3>2
    <2> QED
      BY <2>1, <2>2
  <1>7. L = [n \in 0..N |-> Up(L, n)]
    <2> HIDE DEF Up
    <2>1. G = [n \in 0..N |-> Up(G, n)]
      BY <1>6
    <2> HIDE DEF G
    <2> QED
      BY <2>1
  <1> HIDE DEF L
  <1>8. \A n \in Nat : n \in 0..N => L[n] = G[n]
    <2> DEFINE S == {n \in Nat : n \in 0..N => L[n] = G[n]}
    <2>1. 0 \in S
      <3>1. L[0] = Up(L, 0) /\ G[0] = Up(G, 0)
        <4> HIDE DEF G, Up
        <4> QED
          BY <1>1, <1>6, <1>7
      <3> HIDE DEF G
      <3> QED
        BY <3>1
    <2>2. ASSUME NEW n \in Nat, n \in S
          PROVE  n + 1 \in S
      <3> SUFFICES ASSUME n + 1 \in 0..N PROVE L[n + 1] = G[n + 1]
        OBVIOUS
      <3>1. L[n + 1] = Up(L, n + 1) /\ G[n + 1] = Up(G, n + 1)
        <4> HIDE DEF G, Up
        <4> QED
          BY <1>6, <1>7
      <3>2. n + 1 # 0 /\ (n + 1) - 1 = n /\ L[n] = G[n]
        BY <1>1, <2>2
      <3> HIDE DEF G
      <3> QED
        BY <3>1, <3>2
    <2>3. Nat \subseteq S
      <3> HIDE DEF S
      <3> QED
        BY <2>1, <2>2, Induction
    <2> HIDE DEF G
    <2> QED
      BY <2>3
  <1>9. IsSum(L, f, N)
    <2>1. \A n \in 0..N : L[n] = G[n] /\ G[n] \in Int
      BY <1>1, <1>5, <1>8
    <2> HIDE DEF G
    <2>2. L = [n \in 0..N |-> L[n]]
      <3> HIDE DEF Up
      <3> QED
        BY <1>7
    <2>3. L \in [0..N -> Int]
      BY <2>1, <2>2
    <2>4. L[0] = 0
      BY <1>1, <1>7
    <2>5. ASSUME NEW k \in Nat, k + 1 \in 0..N
          PROVE  L[k + 1] = L[k] + f[k + 1]
      <3>1. L[k + 1] = Up(L, k + 1)
        <4> HIDE DEF Up
        <4> QED
          BY <1>7, <2>5
      <3> QED
        BY <3>1
    <2> HIDE DEF N, Up
    <2> QED
      BY <2>3, <2>4, <2>5 DEF IsSum
  <1> QED
    BY <1>2, <1>9

LEMMA SumsCompare ==
  ASSUME NEW n \in Nat, NEW f \in [1..n -> Int], NEW g \in [1..n -> Int],
         \A i \in 1..n : f[i] <= g[i]
  PROVE  Budget!SumOf(f) \in Int /\ Budget!SumOf(g) \in Int /\ Budget!SumOf(f) <= Budget!SumOf(g)
  <1>1. f \in Seq(Int) /\ g \in Seq(Int)
    BY SeqDef
  <1>2. Len(f) = n /\ Len(g) = n
    BY <1>1, LenProperties
  <1>3. PICK s : IsSum(s, f, n) /\ Budget!SumOf(f) = s[n]
    BY <1>1, <1>2, SumsUp
  <1>4. PICK t : IsSum(t, g, n) /\ Budget!SumOf(g) = t[n]
    BY <1>1, <1>2, SumsUp
  <1> DEFINE S == {k \in Nat : k \in 0..n => s[k] <= t[k]}
  <1>5. 0 \in S
    BY <1>3, <1>4 DEF IsSum
  <1>6. ASSUME NEW k \in Nat, k \in S
        PROVE  k + 1 \in S
    <2> SUFFICES ASSUME k + 1 \in 0..n PROVE s[k + 1] <= t[k + 1]
      OBVIOUS
    <2>1. s[k + 1] = s[k] + f[k + 1] /\ t[k + 1] = t[k] + g[k + 1]
      BY <1>3, <1>4 DEF IsSum
    <2>2. k \in 0..n /\ k + 1 \in 1..n
      OBVIOUS
    <2>3. s[k] \in Int /\ t[k] \in Int /\ s[k] <= t[k]
      BY <1>3, <1>4, <1>6, <2>2 DEF IsSum
    <2>4. f[k + 1] <= g[k + 1] /\ f[k + 1] \in Int /\ g[k + 1] \in Int
      BY <2>2
    <2> QED
      BY <2>1, <2>3, <2>4
  <1>7. n \in S
    <2> HIDE DEF S
    <2> QED
      BY <1>5, <1>6, Induction
  <1> QED
    BY <1>3, <1>4, <1>7 DEF IsSum

(* A block whose lines have lengths; and what is cut makes it shorter.     *)
IsBlock(b) ==
  /\ b.entities \in Seq({e \in Budget!Entity : e.stub <= e.chars})
  /\ b.groups \in Seq(Budget!Group)
  /\ b.paths \in Seq(Nat)

LEMMA TotalShrinks ==
  ASSUME NEW b, IsBlock(b), NEW S, NEW T, S \subseteq T
  PROVE  /\ Budget!TotalChars(b, S) \in Int /\ Budget!TotalChars(b, T) \in Int
         /\ Budget!TotalChars(b, T) <= Budget!TotalChars(b, S)
  <1> DEFINE E(C) == [i \in DOMAIN b.entities |-> Budget!EntityChars(b.entities[i], <<"entity", i>> \in C)]
             G(C) == [i \in DOMAIN b.groups |-> IF <<"group", i>> \in C THEN 0 ELSE b.groups[i].chars]
             P(C) == [i \in DOMAIN b.paths |-> IF <<"path", i>> \in C THEN 0 ELSE b.paths[i]]
  <1>1. /\ Len(b.entities) \in Nat /\ DOMAIN b.entities = 1..Len(b.entities)
        /\ Len(b.groups) \in Nat /\ DOMAIN b.groups = 1..Len(b.groups)
        /\ Len(b.paths) \in Nat /\ DOMAIN b.paths = 1..Len(b.paths)
    BY LenProperties DEF IsBlock
  <1>2. /\ Budget!SumOf(E(S)) \in Int /\ Budget!SumOf(E(T)) \in Int
        /\ Budget!SumOf(E(T)) <= Budget!SumOf(E(S))
    <2> DEFINE n == Len(b.entities)
               f == E(T)
               g == E(S)
    <2>1. ASSUME NEW i \in 1..n
          PROVE  /\ f[i] \in Int /\ g[i] \in Int /\ f[i] <= g[i]
      <3>1. b.entities[i] \in {x \in Budget!Entity : x.stub <= x.chars}
        BY ElementOfSeq DEF IsBlock
      <3>2. PICK x \in Budget!Entity : x = b.entities[i] /\ x.stub <= x.chars
        BY <3>1
      <3>3. x.seed \in BOOLEAN /\ x.chars \in Nat /\ x.stub \in Nat /\ SeedTag \in Nat /\ NeighbourTag \in Nat
        BY <3>2, BudgetAssumption DEF Budget!Entity
      <3>4. /\ f[i] = Budget!EntityChars(x, <<"entity", i>> \in T)
            /\ g[i] = Budget!EntityChars(x, <<"entity", i>> \in S)
        BY <1>1, <3>2
      <3> HIDE DEF f, g
      <3> QED
        BY <3>2, <3>3, <3>4 DEF Budget!EntityChars, Budget!Tag
    <2>2. f = [i \in 1..n |-> f[i]] /\ g = [i \in 1..n |-> g[i]]
      BY <1>1
    <2> HIDE DEF f, g
    <2>3. f \in [1..n -> Int] /\ g \in [1..n -> Int]
      BY <2>1, <2>2
    <2>4. n \in Nat
      BY <1>1
    <2> HIDE DEF n
    <2>5. Budget!SumOf(f) \in Int /\ Budget!SumOf(g) \in Int /\ Budget!SumOf(f) <= Budget!SumOf(g)
      BY <2>1, <2>3, <2>4, SumsCompare
    <2> HIDE DEF E
    <2> QED
      BY <2>5 DEF f, g
  <1>3. /\ Budget!SumOf(G(S)) \in Int /\ Budget!SumOf(G(T)) \in Int
        /\ Budget!SumOf(G(T)) <= Budget!SumOf(G(S))
    <2> DEFINE n == Len(b.groups)
               f == G(T)
               g == G(S)
    <2>1. ASSUME NEW i \in 1..n
          PROVE  /\ f[i] \in Int /\ g[i] \in Int /\ f[i] <= g[i]
      <3>1. b.groups[i] \in Budget!Group
        BY ElementOfSeq DEF IsBlock
      <3>2. b.groups[i].chars \in Nat
        BY <3>1 DEF Budget!Group
      <3> QED
        BY <1>1, <3>2
    <2>2. f = [i \in 1..n |-> f[i]] /\ g = [i \in 1..n |-> g[i]]
      BY <1>1
    <2> HIDE DEF f, g
    <2>3. f \in [1..n -> Int] /\ g \in [1..n -> Int]
      BY <2>1, <2>2
    <2>4. n \in Nat
      BY <1>1
    <2> HIDE DEF n
    <2>5. Budget!SumOf(f) \in Int /\ Budget!SumOf(g) \in Int /\ Budget!SumOf(f) <= Budget!SumOf(g)
      BY <2>1, <2>3, <2>4, SumsCompare
    <2> HIDE DEF G
    <2> QED
      BY <2>5 DEF f, g
  <1>4. /\ Budget!SumOf(P(S)) \in Int /\ Budget!SumOf(P(T)) \in Int
        /\ Budget!SumOf(P(T)) <= Budget!SumOf(P(S))
    <2> DEFINE n == Len(b.paths)
               f == P(T)
               g == P(S)
    <2>1. ASSUME NEW i \in 1..n
          PROVE  /\ f[i] \in Int /\ g[i] \in Int /\ f[i] <= g[i]
      <3>1. b.paths[i] \in Nat
        BY ElementOfSeq DEF IsBlock
      <3> QED
        BY <1>1, <3>1
    <2>2. f = [i \in 1..n |-> f[i]] /\ g = [i \in 1..n |-> g[i]]
      BY <1>1
    <2> HIDE DEF f, g
    <2>3. f \in [1..n -> Int] /\ g \in [1..n -> Int]
      BY <2>1, <2>2
    <2>4. n \in Nat
      BY <1>1
    <2> HIDE DEF n
    <2>5. Budget!SumOf(f) \in Int /\ Budget!SumOf(g) \in Int /\ Budget!SumOf(f) <= Budget!SumOf(g)
      BY <2>1, <2>3, <2>4, SumsCompare
    <2> HIDE DEF P
    <2> QED
      BY <2>5 DEF f, g
  <1>5. \A C : Budget!TotalChars(b, C) = Budget!SumOf(E(C)) + Budget!SumOf(G(C)) + Budget!SumOf(P(C))
    BY DEF Budget!TotalChars
  <1>6. /\ Budget!TotalChars(b, S) = Budget!SumOf(E(S)) + Budget!SumOf(G(S)) + Budget!SumOf(P(S))
        /\ Budget!TotalChars(b, T) = Budget!SumOf(E(T)) + Budget!SumOf(G(T)) + Budget!SumOf(P(T))
    <2> HIDE DEF E, G, P
    <2> QED
      BY <1>5
  <1> HIDE DEF E, G, P
  <1> QED
    BY <1>2, <1>3, <1>4, <1>6

(* A phase.  Its items are taken in a strict order, each at a turn of its  *)
(* own.                                                                    *)
IsOrder(items, order) ==
  /\ \A x \in items : <<x, x>> \notin order
  /\ \A x, y, z \in items : <<x, y>> \in order /\ <<y, z>> \in order => <<x, z>> \in order
  /\ \A x, y \in items : x = y \/ <<x, y>> \in order \/ <<y, x>> \in order

Turn(items, order, v) == Cardinality({w \in items : <<w, v>> \in order})

LEMMA Turns ==
  ASSUME NEW items, IsFiniteSet(items), NEW order, IsOrder(items, order), NEW v \in items
  PROVE  /\ Turn(items, order, v) \in 0..(Cardinality(items) - 1) /\ Cardinality(items) \in Nat
         /\ \A u \in items : <<u, v>> \in order => Turn(items, order, u) < Turn(items, order, v)
  <1> DEFINE W(x) == {w \in items : <<w, x>> \in order}
  <1>1. \A x \in items : W(x) \in SUBSET items /\ x \notin W(x)
    BY DEF IsOrder
  <1>2. Cardinality(items) \in Nat
    BY FS_CardinalityType
  <1>3. \A x : Turn(items, order, x) = Cardinality(W(x))
    BY DEF Turn
  <1>4. \A x \in items : IsFiniteSet(W(x)) /\ Cardinality(W(x)) \in Nat
    <2> HIDE DEF W
    <2> QED
      BY <1>1, FS_Subset, FS_CardinalityType
  <1>5. Cardinality(W(v)) <= Cardinality(items) /\ Cardinality(W(v)) # Cardinality(items)
    <2>1. W(v) \in SUBSET items /\ W(v) # items
      BY <1>1
    <2> HIDE DEF W
    <2> QED
      BY <2>1, FS_Subset
  <1>6. ASSUME NEW u \in items, <<u, v>> \in order
        PROVE  Cardinality(W(u)) < Cardinality(W(v))
    <2>1. W(u) \in SUBSET W(v) /\ W(u) # W(v)
      BY <1>6 DEF IsOrder
    <2> HIDE DEF W
    <2>2. Cardinality(W(u)) <= Cardinality(W(v)) /\ Cardinality(W(u)) # Cardinality(W(v))
      BY <1>4, <2>1, FS_Subset
    <2> QED
      BY <1>4, <2>2
  <1> HIDE DEF W
  <1> QED
    BY <1>2, <1>3, <1>4, <1>5, <1>6

(* What a phase has cut, when the turns before n are through.              *)
Over(b, budget, cut) == Budget!TotalChars(b, cut) > budget

Before(items, order, cut, n) == cut \union {v \in items : Turn(items, order, v) < n}

(* The phase has taken the first of some turns: one after the other, each  *)
(* of them as the block was too long; it is not, or they are all.          *)
PhaseCuts(b, budget, items, order, cut, n, R) ==
  \E k \in 0..n : /\ R = Before(items, order, cut, k)
                  /\ \A l \in 0..(k - 1) : Over(b, budget, Before(items, order, cut, l))
                  /\ k = n \/ ~Over(b, budget, Before(items, order, cut, k))

LEMMA PhaseSteps ==
  ASSUME NEW b, NEW budget, NEW items, IsFiniteSet(items), NEW order, IsOrder(items, order), NEW cut, NEW n \in Nat,
         NEW R, PhaseCuts(b, budget, items, order, cut, n, R)
  PROVE  PhaseCuts(b, budget, items, order, cut, n + 1,
                   IF Over(b, budget, R) THEN R \union {v \in items : Turn(items, order, v) = n} ELSE R)
  <1>1. PICK k \in 0..n : /\ R = Before(items, order, cut, k)
                          /\ \A l \in 0..(k - 1) : Over(b, budget, Before(items, order, cut, l))
                          /\ k = n \/ ~Over(b, budget, Before(items, order, cut, k))
    BY DEF PhaseCuts
  <1>2. CASE ~Over(b, budget, R)
    <2>1. k \in 0..(n + 1)
      OBVIOUS
    <2> QED
      BY <1>1, <1>2, <2>1 DEF PhaseCuts
  <1>3. CASE Over(b, budget, R)
    <2>1. k = n
      BY <1>1, <1>3
    <2>2. Before(items, order, cut, n + 1) = R \union {v \in items : Turn(items, order, v) = n}
      <3>1. \A v \in items : Turn(items, order, v) \in Nat
        BY Turns
      <3>2. \A v \in items : Turn(items, order, v) < n + 1 <=> (Turn(items, order, v) < n \/ Turn(items, order, v) = n)
        BY <3>1
      <3> QED
        BY <1>1, <2>1, <3>2 DEF Before
    <2>3. \A l \in 0..((n + 1) - 1) : Over(b, budget, Before(items, order, cut, l))
      <3>1. \A l \in 0..((n + 1) - 1) : l \in 0..(k - 1) \/ l = n
        BY <2>1
      <3> QED
        BY <1>1, <1>3, <2>1, <3>1
    <2>4. n + 1 \in 0..(n + 1)
      OBVIOUS
    <2> QED
      BY <1>3, <2>2, <2>3, <2>4 DEF PhaseCuts
  <1> QED
    BY <1>2, <1>3

LEMMA SameSize ==
  \A S : Budget!Cardinality(S) = Cardinality(S)
  BY DEF Budget!Cardinality, Cardinality

LEMMA PhaseRuns ==
  ASSUME NEW b, NEW budget, NEW items, IsFiniteSet(items), NEW order, IsOrder(items, order), NEW cut
  PROVE  PhaseCuts(b, budget, items, order, cut, Cardinality(items),
                   Budget!CutWhileOver(b, budget, items, order, cut))
  <1> DEFINE N == Cardinality(items)
             At(n) == {v \in items : Turn(items, order, v) = n}
             Gone(g, n) == IF n = 0 THEN cut
                           ELSE IF Budget!TotalChars(b, g[n - 1]) > budget THEN g[n - 1] \union At(n - 1)
                           ELSE g[n - 1]
             L == CHOOSE g : g = [n \in 0..N |-> Gone(g, n)]
             D == SUBSET (cut \union items)
             step == [z \in Nat \X D |-> IF Over(b, budget, z[2]) THEN z[2] \union At(z[1]) ELSE z[2]]
  <1>1. N \in Nat
    BY FS_CardinalityType
  <1>2. Budget!CutWhileOver(b, budget, items, order, cut) = L[N]
    <2>1. \A n : {v \in items : Budget!Cardinality({w \in items : <<w, v>> \in order}) = n} = At(n)
      BY SameSize DEF Turn
    <2>2. Budget!Cardinality(items) = N
      BY SameSize
    <2> HIDE DEF At, N
    <2> QED
      BY <2>1, <2>2 DEF Budget!CutWhileOver
  <1>3. PICK F : IsIteration(F, D, cut, step)
    <2>1. step \in [Nat \X D -> D] /\ cut \in D
      <3> HIDE DEF Over
      <3> QED
        OBVIOUS
    <2> HIDE DEF step, D
    <2> QED
      BY <2>1, Iterates
  <1>4. F \in [Nat -> D] /\ F[0] = cut
        /\ \A n \in Nat : F[n + 1] = IF Over(b, budget, F[n]) THEN F[n] \union At(n) ELSE F[n]
    <2>1. F \in [Nat -> D] /\ F[0] = cut /\ \A n \in Nat : F[n + 1] = step[<<n, F[n]>>]
      BY <1>3 DEF IsIteration
    <2>2. \A n \in Nat : F[n] \in D
      BY <2>1
    <2>3. \A n \in Nat : step[<<n, F[n]>>] = IF Over(b, budget, F[n]) THEN F[n] \union At(n) ELSE F[n]
      <3> HIDE DEF D, At, Over
      <3> QED
        BY <2>2
    <2> HIDE DEF D, At, Over, step
    <2> QED
      BY <2>1, <2>3
  <1> HIDE DEF step, D
  <1> DEFINE G == [n \in 0..N |-> F[n]]
  <1>5. \A n \in 0..N : G[n] = Gone(G, n)
    <2> SUFFICES ASSUME NEW n \in 0..N PROVE G[n] = Gone(G, n)
      OBVIOUS
    <2> HIDE DEF At
    <2>1. CASE n = 0
      BY <1>1, <1>4, <2>1
    <2>2. CASE n # 0
      <3>1. n - 1 \in Nat /\ n - 1 \in 0..N /\ (n - 1) + 1 = n
        BY <1>1, <2>2
      <3>2. F[n] = IF Over(b, budget, F[n - 1]) THEN F[n - 1] \union At(n - 1) ELSE F[n - 1]
        <4>1. F[(n - 1) + 1] = IF Over(b, budget, F[n - 1]) THEN F[n - 1] \union At(n - 1) ELSE F[n - 1]
          BY <1>4, <3>1
        <4> QED
          BY <3>1, <4>1
      <3>3. G[n] = F[n] /\ G[n - 1] = F[n - 1]
        BY <3>1
      <3> HIDE DEF G
      <3> QED
        BY <2>2, <3>2, <3>3 DEF Over
    <2> QED
      BY <2>1, <2>2
  <1>6. L = [n \in 0..N |-> Gone(L, n)]
    <2> HIDE DEF Gone
    <2>1. G = [n \in 0..N |-> Gone(G, n)]
      BY <1>5
    <2> HIDE DEF G
    <2> QED
      BY <2>1
  <1> HIDE DEF L, G, At
  <1>7. N \in {n \in Nat : n \in 0..N => PhaseCuts(b, budget, items, order, cut, n, L[n])}
    <2> DEFINE S == {n \in Nat : n \in 0..N => PhaseCuts(b, budget, items, order, cut, n, L[n])}
    <2>1. 0 \in S
      <3>1. L[0] = cut
        BY <1>1, <1>6
      <3>2. Before(items, order, cut, 0) = cut
        <4>1. \A v \in items : ~(Turn(items, order, v) < 0)
          BY Turns
        <4> QED
          BY <4>1 DEF Before
      <3>3. 0 \in 0..0 /\ \A l \in 0..(0 - 1) : FALSE
        OBVIOUS
      <3>4. PhaseCuts(b, budget, items, order, cut, 0, cut)
        BY <3>2, <3>3 DEF PhaseCuts
      <3> QED
        BY <3>1, <3>4
    <2>2. ASSUME NEW n \in Nat, n \in S
          PROVE  n + 1 \in S
      <3> SUFFICES ASSUME n + 1 \in 0..N PROVE PhaseCuts(b, budget, items, order, cut, n + 1, L[n + 1])
        OBVIOUS
      <3>1. PhaseCuts(b, budget, items, order, cut, n, L[n])
        BY <1>1, <2>2
      <3>2. L[n + 1] = Gone(L, n + 1)
        <4> HIDE DEF Gone
        <4> QED
          BY <1>6
      <3>3. L[n + 1] = IF Over(b, budget, L[n]) THEN L[n] \union At(n) ELSE L[n]
        <4>1. n + 1 # 0 /\ (n + 1) - 1 = n
          OBVIOUS
        <4> QED
          BY <3>2, <4>1 DEF Over
      <3> QED
        BY <3>1, <3>3, PhaseSteps DEF At
    <2> HIDE DEF S
    <2>3. N \in S
      BY <1>1, <2>1, <2>2, Induction
    <2> QED
      BY <2>3 DEF S
  <1> QED
    BY <1>1, <1>2, <1>7

(* So what a phase cuts is the first of its items, no more than needed.    *)
Truncates(b, budget, items, order, cut, R) ==
  /\ cut \subseteq R /\ R \subseteq cut \union items
  /\ \A x, y \in items : <<x, y>> \in order /\ y \in R \ cut => x \in R
  /\ Over(b, budget, R) => R = cut \union items
  /\ R # cut => Over(b, budget, cut) /\ \E y \in R : Over(b, budget, R \ {y})

LEMMA PhaseTruncates ==
  ASSUME NEW b, IsBlock(b), NEW budget \in Nat, NEW items, IsFiniteSet(items), NEW order, IsOrder(items, order), NEW cut
  PROVE  Truncates(b, budget, items, order, cut, Budget!CutWhileOver(b, budget, items, order, cut))
  <1> DEFINE R == Budget!CutWhileOver(b, budget, items, order, cut)
             N == Cardinality(items)
             T(v) == Turn(items, order, v)
             B(k) == Before(items, order, cut, k)
  <1>1. PICK k \in 0..N : /\ R = B(k)
                          /\ \A l \in 0..(k - 1) : Over(b, budget, B(l))
                          /\ k = N \/ ~Over(b, budget, B(k))
    BY PhaseRuns DEF PhaseCuts
  <1>2. N \in Nat /\ \A v \in items : T(v) \in 0..(N - 1)
    BY Turns, FS_CardinalityType
  <1>3. \A u, v \in items : <<u, v>> \in order => T(u) < T(v)
    BY Turns
  <1>4. \A l, v : v \in B(l) <=> v \in cut \/ (v \in items /\ T(v) < l)
    BY DEF Before
  <1> HIDE DEF R, N, T, B
  <1>5. cut \subseteq R /\ R \subseteq cut \union items
    BY <1>1, <1>4
  <1>6. \A x, y \in items : <<x, y>> \in order /\ y \in R \ cut => x \in R
    <2> SUFFICES ASSUME NEW x \in items, NEW y \in items, <<x, y>> \in order, y \in R \ cut PROVE x \in R
      OBVIOUS
    <2>1. T(x) < T(y) /\ T(y) < k /\ T(x) \in Nat /\ T(y) \in Nat
      BY <1>1, <1>2, <1>3, <1>4
    <2>2. T(x) < k
      BY <1>2, <2>1
    <2> QED
      BY <1>1, <1>4, <2>2
  <1>7. Over(b, budget, R) => R = cut \union items
    <2> SUFFICES ASSUME Over(b, budget, R) PROVE cut \union items \subseteq R
      BY <1>5
    <2>1. k = N
      BY <1>1
    <2>2. \A v \in items : T(v) < N
      BY <1>2
    <2> QED
      BY <1>1, <1>4, <2>1, <2>2
  <1>8. ASSUME R # cut
        PROVE  Over(b, budget, cut) /\ \E y \in R : Over(b, budget, R \ {y})
    <2> DEFINE Q == {T(v) : v \in {w \in items : w \in R \ cut}}
               P == {k - j : j \in Q}
    <2>1. \A v \in R \ cut : v \in items /\ T(v) \in Nat /\ T(v) < k
      BY <1>1, <1>2, <1>4
    <2>2. P \subseteq Nat /\ P # {}
      BY <1>5, <1>8, <2>1
    <2>3. PICK p \in P : \A q \in P : p <= q
      <3> HIDE DEF P
      <3> QED
        BY <2>2, LeastExists
    <2>4. PICK y \in R \ cut : p = k - T(y)
      OBVIOUS
    <2>5. \A v \in R \ cut : T(v) <= T(y)
      <3> SUFFICES ASSUME NEW v \in R \ cut PROVE T(v) <= T(y)
        OBVIOUS
      <3>1. k - T(v) \in P
        BY <2>1
      <3>2. k - T(y) <= k - T(v)
        BY <2>3, <2>4, <3>1
      <3> QED
        BY <1>2, <2>1, <3>2
    <2>6. \A v \in R \ cut : v # y => T(v) < T(y)
      <3> SUFFICES ASSUME NEW v \in R \ cut, v # y PROVE T(v) < T(y)
        OBVIOUS
      <3>1. v \in items /\ y \in items /\ T(v) \in Nat /\ T(y) \in Nat
        BY <2>1
      <3>2. ~(T(y) < T(v))
        BY <2>5, <3>1
      <3>3. <<v, y>> \in order \/ <<y, v>> \in order
        BY <3>1 DEF IsOrder
      <3> QED
        BY <1>3, <3>1, <3>2, <3>3
    <2>7. T(y) \in 0..(k - 1) /\ 0 \in 0..(k - 1)
      BY <2>1
    <2>8. Over(b, budget, B(T(y))) /\ Over(b, budget, B(0))
      BY <1>1, <2>7
    <2>9. R \ {y} \subseteq B(T(y))
      <3> HIDE DEF Q, P
      <3> QED
        BY <1>4, <2>1, <2>6
    <2>10. B(0) = cut
      <3>1. \A v \in items : ~(T(v) < 0)
        BY <1>2
      <3> QED
        BY <1>4, <3>1
    <2> HIDE DEF Q, P
    <2>11. Over(b, budget, R \ {y})
      <3>1. /\ Budget!TotalChars(b, R \ {y}) \in Int /\ Budget!TotalChars(b, B(T(y))) \in Int
            /\ Budget!TotalChars(b, B(T(y))) <= Budget!TotalChars(b, R \ {y})
        BY <2>9, TotalShrinks
      <3> QED
        BY <2>8, <3>1 DEF Over
    <2> QED
      BY <2>8, <2>10, <2>11
  <1> QED
    BY <1>5, <1>6, <1>7, <1>8 DEF Truncates, R

(* What is over with more cut, is over with less.                          *)
LEMMA OverBefore ==
  ASSUME NEW b, IsBlock(b), NEW budget \in Nat, NEW S, NEW T, S \subseteq T, Over(b, budget, T)
  PROVE  Over(b, budget, S)
  <1>1. /\ Budget!TotalChars(b, S) \in Int /\ Budget!TotalChars(b, T) \in Int
        /\ Budget!TotalChars(b, T) <= Budget!TotalChars(b, S)
    BY TotalShrinks
  <1> QED
    BY <1>1 DEF Over

LEMMA EndOrder ==
  ASSUME NEW kind, NEW I, I \subseteq Nat, IsFiniteSet(I)
  PROVE  IsFiniteSet({kind} \X I) /\ IsOrder({kind} \X I, Budget!FromTheEnd({kind} \X I))
  <1> DEFINE items == {kind} \X I
             order == Budget!FromTheEnd(items)
  <1>1. IsFiniteSet({kind} \X I)
    BY FS_Singleton, FS_Product
  <1>2. \A x \in items : x[2] \in Nat /\ x = <<kind, x[2]>>
    <2> SUFFICES ASSUME NEW x \in items PROVE x[2] \in Nat /\ x = <<kind, x[2]>>
      OBVIOUS
    <2>1. x \in {kind} \X I
      OBVIOUS
    <2> HIDE DEF items
    <2>2. x[1] \in {kind} /\ x[2] \in I /\ x = <<x[1], x[2]>>
      BY <2>1
    <2> QED
      BY <2>2
  <1>3. \A x, y \in items : <<x, y>> \in order <=> x[2] > y[2]
    BY DEF Budget!FromTheEnd
  <1>4. \A x, y \in items : x[2] = y[2] => x = y
    <2> HIDE DEF items
    <2> QED
      BY <1>2
  <1> HIDE DEF items, order
  <1>5. IsOrder(items, order)
    BY <1>2, <1>3, <1>4 DEF IsOrder
  <1> QED
    BY <1>1, <1>5 DEF items, order

LEMMA GroupOrder ==
  ASSUME NEW b, b.groups \in Seq(Budget!Group)
  PROVE  IsFiniteSet(Budget!Groups(b)) /\ IsOrder(Budget!Groups(b), Budget!SmallestFirst(b))
  <1> DEFINE items == Budget!Groups(b)
             order == Budget!SmallestFirst(b)
             M(x) == b.groups[x[2]].members
  <1>1. IsFiniteSet(items)
    <2>1. DOMAIN b.groups = 1..Len(b.groups) /\ Len(b.groups) \in Nat
      BY LenProperties
    <2>2. IsFiniteSet(1..Len(b.groups))
      BY <2>1, FS_Interval
    <2>3. IsFiniteSet({"group"})
      BY FS_Singleton
    <2> QED
      BY <2>1, <2>2, <2>3, FS_Product DEF Budget!Groups
  <1>2. \A x \in items : x[2] \in Nat /\ M(x) \in Nat /\ x = <<"group", x[2]>>
    <2> SUFFICES ASSUME NEW x \in items PROVE x[2] \in Nat /\ M(x) \in Nat /\ x = <<"group", x[2]>>
      OBVIOUS
    <2>1. x[2] \in DOMAIN b.groups /\ x = <<"group", x[2]>>
      BY DEF Budget!Groups
    <2>2. x[2] \in 1..Len(b.groups) /\ Len(b.groups) \in Nat
      BY <2>1, LenProperties
    <2>3. b.groups[x[2]] \in Budget!Group
      BY <2>2, ElementOfSeq
    <2> QED
      BY <2>1, <2>2, <2>3 DEF Budget!Group
  <1>3. \A x, y \in items : <<x, y>> \in order <=> M(x) < M(y) \/ (M(x) = M(y) /\ x[2] < y[2])
    BY DEF Budget!SmallestFirst
  <1> HIDE DEF items, order, M
  <1>4. \A x, y \in items : x[2] = y[2] => x = y
    BY <1>2
  <1>5. \A x \in items : <<x, x>> \notin order
    BY <1>2, <1>3
  <1>6. ASSUME NEW x \in items, NEW y \in items, NEW z \in items, <<x, y>> \in order, <<y, z>> \in order
        PROVE  <<x, z>> \in order
    <2>1. /\ M(x) < M(y) \/ (M(x) = M(y) /\ x[2] < y[2])
          /\ M(y) < M(z) \/ (M(y) = M(z) /\ y[2] < z[2])
      BY <1>3, <1>6
    <2>2. /\ x[2] \in Nat /\ y[2] \in Nat /\ z[2] \in Nat
          /\ M(x) \in Nat /\ M(y) \in Nat /\ M(z) \in Nat
      BY <1>2
    <2>3. M(x) < M(z) \/ (M(x) = M(z) /\ x[2] < z[2])
      BY <2>1, <2>2
    <2> QED
      BY <1>3, <2>3
  <1>7. ASSUME NEW x \in items, NEW y \in items, x # y
        PROVE  <<x, y>> \in order \/ <<y, x>> \in order
    <2>1. x[2] # y[2]
      BY <1>4, <1>7
    <2>2. x[2] \in Nat /\ y[2] \in Nat /\ M(x) \in Nat /\ M(y) \in Nat
      BY <1>2
    <2>3. \/ M(x) < M(y) \/ (M(x) = M(y) /\ x[2] < y[2])
          \/ M(y) < M(x) \/ (M(y) = M(x) /\ y[2] < x[2])
      BY <2>1, <2>2
    <2> QED
      BY <1>3, <2>3
  <1>8. IsOrder(items, order)
    BY <1>5, <1>6, <1>7 DEF IsOrder
  <1> QED
    BY <1>1, <1>8 DEF items, order

(* Four phases, one after the other: a phase that cuts found the block too *)
(* long when the one before it was through, so that one cut all it could,  *)
(* and so did the ones before.                                             *)
LEMMA FourPhases ==
  ASSUME NEW b, IsBlock(b), NEW budget \in Nat,
         NEW A1, NEW A2, NEW A3, NEW A4, NEW o1, NEW o2, NEW o3, NEW o4,
         NEW R1, NEW R2, NEW R3, NEW R4,
         Truncates(b, budget, A1, o1, {}, R1), Truncates(b, budget, A2, o2, R1, R2),
         Truncates(b, budget, A3, o3, R2, R3), Truncates(b, budget, A4, o4, R3, R4)
  PROVE  /\ Over(b, budget, R1) => R1 = A1
         /\ Over(b, budget, R2) => R2 = A1 \union A2
         /\ Over(b, budget, R3) => R3 = A1 \union A2 \union A3
         /\ Over(b, budget, R4) => R4 = A1 \union A2 \union A3 \union A4
         /\ R4 # {} => \E y \in R4 : Over(b, budget, R4 \ {y})
  <1>1. R1 \subseteq R2 /\ R2 \subseteq R3 /\ R3 \subseteq R4
    BY DEF Truncates
  <1>2. Over(b, budget, R4) => Over(b, budget, R3)
    BY <1>1, OverBefore
  <1>3. Over(b, budget, R3) => Over(b, budget, R2)
    BY <1>1, OverBefore
  <1>4. Over(b, budget, R2) => Over(b, budget, R1)
    BY <1>1, OverBefore
  <1>5. Over(b, budget, R1) => R1 = A1
    BY DEF Truncates
  <1>6. Over(b, budget, R2) => R2 = A1 \union A2
    BY <1>4, <1>5 DEF Truncates
  <1>7. Over(b, budget, R3) => R3 = A1 \union A2 \union A3
    BY <1>3, <1>6 DEF Truncates
  <1>8. Over(b, budget, R4) => R4 = A1 \union A2 \union A3 \union A4
    BY <1>2, <1>7 DEF Truncates
  <1>9. ASSUME R4 # {}
        PROVE  \E y \in R4 : Over(b, budget, R4 \ {y})
    <2>1. CASE R4 # R3
      BY <2>1 DEF Truncates
    <2>2. CASE R4 = R3 /\ R3 # R2
      BY <2>2 DEF Truncates
    <2>3. CASE R4 = R3 /\ R3 = R2 /\ R2 # R1
      BY <2>3 DEF Truncates
    <2>4. CASE R4 = R3 /\ R3 = R2 /\ R2 = R1
      BY <1>9, <2>4 DEF Truncates
    <2> QED
      BY <2>1, <2>2, <2>3, <2>4
  <1> QED
    BY <1>5, <1>6, <1>7, <1>8, <1>9

(* So what is cut has all before it cut with it.                           *)
LEMMA CutInOrder ==
  ASSUME NEW b, IsBlock(b), NEW budget \in Nat,
         NEW A1, NEW A2, NEW A3, NEW A4, NEW o1, NEW o2, NEW o3, NEW o4,
         NEW R1, NEW R2, NEW R3, NEW R4,
         Truncates(b, budget, A1, o1, {}, R1), Truncates(b, budget, A2, o2, R1, R2),
         Truncates(b, budget, A3, o3, R2, R3), Truncates(b, budget, A4, o4, R3, R4),
         A1 \intersect A2 = {}, A1 \intersect A3 = {}, A1 \intersect A4 = {},
         A2 \intersect A3 = {}, A2 \intersect A4 = {}, A3 \intersect A4 = {},
         NEW y \in R4
  PROVE  \/ y \in A1 /\ \A x \in A1 : <<x, y>> \in o1 => x \in R4
         \/ y \in A2 /\ A1 \subseteq R4 /\ \A x \in A2 : <<x, y>> \in o2 => x \in R4
         \/ y \in A3 /\ A1 \union A2 \subseteq R4 /\ \A x \in A3 : <<x, y>> \in o3 => x \in R4
         \/ y \in A4 /\ A1 \union A2 \union A3 \subseteq R4 /\ \A x \in A4 : <<x, y>> \in o4 => x \in R4
  <1>1. /\ Over(b, budget, R1) => R1 = A1
        /\ Over(b, budget, R2) => R2 = A1 \union A2
        /\ Over(b, budget, R3) => R3 = A1 \union A2 \union A3
    BY FourPhases
  <1>2. R1 \subseteq R2 /\ R2 \subseteq R3 /\ R3 \subseteq R4
    BY DEF Truncates
  <1>3. CASE y \in R1
    <2>1. y \in A1
      BY <1>3 DEF Truncates
    <2>2. \A x \in A1 : <<x, y>> \in o1 => x \in R1
      BY <1>3, <2>1 DEF Truncates
    <2> QED
      BY <1>2, <2>1, <2>2
  <1>4. CASE y \in R2 \ R1
    <2>1. y \in A2 /\ R1 = A1
      BY <1>1, <1>4 DEF Truncates
    <2>2. \A x \in A2 : <<x, y>> \in o2 => x \in R2
      BY <1>4, <2>1 DEF Truncates
    <2> QED
      BY <1>2, <2>1, <2>2
  <1>5. CASE y \in R3 \ R2
    <2>1. y \in A3 /\ R2 = A1 \union A2
      BY <1>1, <1>5 DEF Truncates
    <2>2. \A x \in A3 : <<x, y>> \in o3 => x \in R3
      BY <1>5, <2>1 DEF Truncates
    <2> QED
      BY <1>2, <2>1, <2>2
  <1>6. CASE y \in R4 \ R3
    <2>1. y \in A4 /\ R3 = A1 \union A2 \union A3
      BY <1>1, <1>6 DEF Truncates
    <2>2. \A x \in A4 : <<x, y>> \in o4 => x \in R4
      BY <1>6, <2>1 DEF Truncates
    <2> QED
      BY <1>2, <2>1, <2>2
  <1> QED
    BY <1>2, <1>3, <1>4, <1>5, <1>6

(* What BudgetPriority says of the cut of a block.                         *)
IsPriority(b, budget, cut) ==
  LET Phase(x) == CASE x[1] = "entity" /\ ~b.entities[x[2]].seed -> 1
                    [] x[1] = "group" -> 2 [] x[1] = "path" -> 3 [] OTHER -> 4
      Precedes(x, y) ==
        \/ Phase(x) < Phase(y)
        \/ Phase(x) = Phase(y) /\ Phase(x) # 2 /\ x[2] > y[2]
        \/ Phase(x) = 2 /\ Phase(y) = 2 /\ b.groups[x[2]].members < b.groups[y[2]].members
  IN  /\ \A y \in cut : {x \in Budget!Items(b) : Precedes(x, y)} \subseteq cut
      /\ cut = Budget!Items(b) \/ Budget!TotalChars(b, cut) <= budget
      /\ cut # {} => \E y \in cut : Budget!TotalChars(b, cut \ {y}) > budget

LEMMA BudgetKept ==
  ASSUME NEW b, IsBlock(b), NEW budget \in Nat
  PROVE  IsPriority(b, budget, Budget!ApplyTokenBudget(b, budget))
  <1> DEFINE A1 == Budget!Entities(b, FALSE)
             A2 == Budget!Groups(b)
             A3 == Budget!Paths(b)
             A4 == Budget!Entities(b, TRUE)
             o1 == Budget!FromTheEnd(A1)
             o2 == Budget!SmallestFirst(b)
             o3 == Budget!FromTheEnd(A3)
             o4 == Budget!FromTheEnd(A4)
             R1 == Budget!CutWhileOver(b, budget, A1, o1, {})
             R2 == Budget!CutWhileOver(b, budget, A2, o2, R1)
             R3 == Budget!CutWhileOver(b, budget, A3, o3, R2)
             R4 == Budget!CutWhileOver(b, budget, A4, o4, R3)
             Phase(x) == CASE x[1] = "entity" /\ ~b.entities[x[2]].seed -> 1
                           [] x[1] = "group" -> 2 [] x[1] = "path" -> 3 [] OTHER -> 4
             Precedes(x, y) ==
               \/ Phase(x) < Phase(y)
               \/ Phase(x) = Phase(y) /\ Phase(x) # 2 /\ x[2] > y[2]
               \/ Phase(x) = 2 /\ Phase(y) = 2 /\ b.groups[x[2]].members < b.groups[y[2]].members
  <1>1. Budget!ApplyTokenBudget(b, budget) = R4
    BY DEF Budget!ApplyTokenBudget, Budget!CutFromTheEnd
  <1>2. Budget!Items(b) = A1 \union A2 \union A3 \union A4
    BY DEF Budget!Items
  <1>3. /\ IsFiniteSet(DOMAIN b.entities) /\ DOMAIN b.entities \subseteq Nat
        /\ IsFiniteSet(DOMAIN b.paths) /\ DOMAIN b.paths \subseteq Nat
    <2>1. /\ DOMAIN b.entities = 1..Len(b.entities) /\ Len(b.entities) \in Nat
          /\ DOMAIN b.paths = 1..Len(b.paths) /\ Len(b.paths) \in Nat
      BY LenProperties DEF IsBlock
    <2>2. IsFiniteSet(1..Len(b.entities)) /\ IsFiniteSet(1..Len(b.paths))
      BY <2>1, FS_Interval
    <2> QED
      BY <2>1, <2>2
  <1>4. ASSUME NEW s \in BOOLEAN
        PROVE  IsFiniteSet(Budget!Entities(b, s)) /\ IsOrder(Budget!Entities(b, s), Budget!FromTheEnd(Budget!Entities(b, s)))
    <2> DEFINE I == {i \in DOMAIN b.entities : b.entities[i].seed = s}
    <2>1. I \subseteq Nat /\ IsFiniteSet(I)
      BY <1>3, FS_Subset
    <2>2. Budget!Entities(b, s) = {"entity"} \X I
      BY DEF Budget!Entities
    <2> HIDE DEF I
    <2> QED
      <3>1. IsFiniteSet({"entity"} \X I) /\ IsOrder({"entity"} \X I, Budget!FromTheEnd({"entity"} \X I))
        BY <2>1, EndOrder
      <3> QED
        BY <2>2, <3>1, Zenon
  <1>5. IsFiniteSet(A1) /\ IsOrder(A1, o1) /\ IsFiniteSet(A4) /\ IsOrder(A4, o4)
    BY <1>4
  <1>6. IsFiniteSet(A3) /\ IsOrder(A3, o3)
    BY <1>3, EndOrder DEF Budget!Paths
  <1>7. IsFiniteSet(A2) /\ IsOrder(A2, o2)
    BY GroupOrder DEF IsBlock
  <1>8. /\ \A x \in A1 : x[1] = "entity" /\ x[2] \in Nat /\ ~b.entities[x[2]].seed
        /\ \A x \in A2 : x[1] = "group"
        /\ \A x \in A3 : x[1] = "path" /\ x[2] \in Nat
        /\ \A x \in A4 : x[1] = "entity" /\ x[2] \in Nat /\ b.entities[x[2]].seed
    BY <1>3 DEF Budget!Entities, Budget!Groups, Budget!Paths
  <1>9. /\ \A x \in A1 : Phase(x) = 1
        /\ \A x \in A2 : Phase(x) = 2
        /\ \A x \in A3 : Phase(x) = 3
        /\ \A x \in A4 : Phase(x) = 4
    <2> HIDE DEF A1, A2, A3, A4
    <2> QED
      BY <1>8
  <1>10. \A x, y \in A1 : <<x, y>> \in o1 <=> x[2] > y[2]
    BY DEF Budget!FromTheEnd
  <1>11. \A x, y \in A2 : b.groups[x[2]].members < b.groups[y[2]].members => <<x, y>> \in o2
    BY DEF Budget!SmallestFirst
  <1>12. \A x, y \in A3 : <<x, y>> \in o3 <=> x[2] > y[2]
    BY DEF Budget!FromTheEnd
  <1>13. \A x, y \in A4 : <<x, y>> \in o4 <=> x[2] > y[2]
    BY DEF Budget!FromTheEnd
  <1> HIDE DEF A1, A2, A3, A4, o1, o2, o3, o4
  <1>14. Truncates(b, budget, A1, o1, {}, R1)
    BY <1>5, PhaseTruncates
  <1>15. Truncates(b, budget, A2, o2, R1, R2)
    <2> HIDE DEF R1
    <2> QED
      BY <1>7, PhaseTruncates
  <1>16. Truncates(b, budget, A3, o3, R2, R3)
    <2> HIDE DEF R2
    <2> QED
      BY <1>6, PhaseTruncates
  <1>17. Truncates(b, budget, A4, o4, R3, R4)
    <2> HIDE DEF R3
    <2> QED
      BY <1>5, PhaseTruncates
  <1> HIDE DEF R1, R2, R3, R4, Phase
  <1>18. /\ Over(b, budget, R4) => R4 = A1 \union A2 \union A3 \union A4
         /\ R4 # {} => \E y \in R4 : Over(b, budget, R4 \ {y})
    BY <1>14, <1>15, <1>16, <1>17, FourPhases
  <1>19. /\ A1 \intersect A2 = {} /\ A1 \intersect A3 = {} /\ A1 \intersect A4 = {}
         /\ A2 \intersect A3 = {} /\ A2 \intersect A4 = {} /\ A3 \intersect A4 = {}
    BY <1>9
  <1>20. ASSUME NEW y \in R4, NEW x \in Budget!Items(b), Precedes(x, y)
         PROVE  x \in R4
    <2>1. \/ y \in A1 /\ \A z \in A1 : <<z, y>> \in o1 => z \in R4
          \/ y \in A2 /\ A1 \subseteq R4 /\ \A z \in A2 : <<z, y>> \in o2 => z \in R4
          \/ y \in A3 /\ A1 \union A2 \subseteq R4 /\ \A z \in A3 : <<z, y>> \in o3 => z \in R4
          \/ y \in A4 /\ A1 \union A2 \union A3 \subseteq R4 /\ \A z \in A4 : <<z, y>> \in o4 => z \in R4
      BY <1>14, <1>15, <1>16, <1>17, <1>19, CutInOrder
    <2>2. x \in A1 \/ x \in A2 \/ x \in A3 \/ x \in A4
      BY <1>2
    <2>3. CASE y \in A1 /\ \A z \in A1 : <<z, y>> \in o1 => z \in R4
      <3>1. x \in A1 /\ x[2] > y[2]
        BY <1>9, <1>20, <2>2, <2>3
      <3> QED
        BY <1>10, <2>3, <3>1
    <2>4. CASE y \in A2 /\ A1 \subseteq R4 /\ \A z \in A2 : <<z, y>> \in o2 => z \in R4
      <3>1. x \in A1 \/ (x \in A2 /\ b.groups[x[2]].members < b.groups[y[2]].members)
        BY <1>9, <1>20, <2>2, <2>4
      <3> QED
        BY <1>11, <2>4, <3>1
    <2>5. CASE y \in A3 /\ A1 \union A2 \subseteq R4 /\ \A z \in A3 : <<z, y>> \in o3 => z \in R4
      <3>1. x \in A1 \/ x \in A2 \/ (x \in A3 /\ x[2] > y[2])
        BY <1>9, <1>20, <2>2, <2>5
      <3> QED
        BY <1>12, <2>5, <3>1
    <2>6. CASE y \in A4 /\ A1 \union A2 \union A3 \subseteq R4 /\ \A z \in A4 : <<z, y>> \in o4 => z \in R4
      <3>1. x \in A1 \/ x \in A2 \/ x \in A3 \/ (x \in A4 /\ x[2] > y[2])
        BY <1>9, <1>20, <2>2, <2>6
      <3> QED
        BY <1>13, <2>6, <3>1
    <2> QED
      BY <2>1, <2>3, <2>4, <2>5, <2>6
  <1>21. R4 = Budget!Items(b) \/ Budget!TotalChars(b, R4) <= budget
    <2>1. Budget!TotalChars(b, R4) \in Int
      BY TotalShrinks
    <2> QED
      BY <1>2, <1>18, <2>1 DEF Over
  <1>22. R4 # {} => \E y \in R4 : Budget!TotalChars(b, R4 \ {y}) > budget
    BY <1>18 DEF Over
  <1>23. \A y \in R4 : {x \in Budget!Items(b) : Precedes(x, y)} \subseteq R4
    <2> HIDE DEF Precedes
    <2> QED
      BY <1>20
  <1> QED
    BY <1>1, <1>21, <1>22, <1>23 DEF IsPriority, Phase

LEMMA SectionKeepsLargest ==
  ASSUME NEW communities \in Seq([count: Nat, chars: Nat]), NEW budget \in Nat,
         NEW i \in Budget!SectionKept(communities, budget),
         NEW j \in DOMAIN communities \ Budget!SectionKept(communities, budget)
  PROVE  communities[j].count <= communities[i].count
  <1> DEFINE b == [entities |-> <<>>, paths |-> <<>>,
                   groups |-> [k \in DOMAIN communities |->
                                 [members |-> communities[k].count, chars |-> communities[k].chars]]]
             items == Budget!Groups(b)
             order == Budget!SmallestFirst(b)
             R == Budget!CutWhileOver(b, budget, items, order, {})
  <1>1. Budget!SectionKept(communities, budget) = {k \in DOMAIN communities : <<"group", k>> \notin R}
    BY DEF Budget!SectionKept
  <1>2. DOMAIN communities = 1..Len(communities) /\ Len(communities) \in Nat
    BY LenProperties
  <1>3. \A k \in DOMAIN communities : communities[k].count \in Nat /\ communities[k].chars \in Nat
    <2> SUFFICES ASSUME NEW k \in DOMAIN communities
                 PROVE  communities[k].count \in Nat /\ communities[k].chars \in Nat
      OBVIOUS
    <2>1. communities[k] \in [count: Nat, chars: Nat]
      BY <1>2, ElementOfSeq
    <2> QED
      BY <2>1
  <1>4. IsBlock(b)
    <2>1. b.groups \in [1..Len(communities) -> Budget!Group]
      BY <1>2, <1>3 DEF Budget!Group
    <2>2. b.groups \in Seq(Budget!Group)
      <3> DEFINE n == Len(communities)
                 g == b.groups
                 G == Budget!Group
      <3>1. n \in Nat /\ g \in [1..n -> G]
        BY <1>2, <2>1
      <3> HIDE DEF n, g, G
      <3>2. g \in Seq(G)
        BY <3>1, SeqDef
      <3> QED
        BY <3>2 DEF g, G
    <2>3. b.entities = <<>> /\ b.paths = <<>>
      OBVIOUS
    <2>4. \A S : <<>> \in Seq(S)
      BY EmptySeq
    <2> HIDE DEF b
    <2> QED
      BY <2>2, <2>3, <2>4 DEF IsBlock
  <1>5. \A k \in DOMAIN communities : <<"group", k>> \in items /\ b.groups[k].members = communities[k].count
    BY DEF Budget!Groups
  <1>6. \A k, l \in DOMAIN communities :
          communities[k].count < communities[l].count => << <<"group", k>>, <<"group", l>> >> \in order
    <2>1. \A x, y \in items : b.groups[x[2]].members < b.groups[y[2]].members => <<x, y>> \in order
      BY DEF Budget!SmallestFirst
    <2> HIDE DEF items, order, b
    <2> QED
      BY <1>5, <2>1
  <1> HIDE DEF b
  <1>7. IsFiniteSet(items) /\ IsOrder(items, order)
    BY <1>4, GroupOrder DEF IsBlock
  <1> HIDE DEF items, order
  <1>8. Truncates(b, budget, items, order, {}, R)
    BY <1>4, <1>7, PhaseTruncates
  <1> HIDE DEF R
  <1>9. i \in DOMAIN communities /\ <<"group", i>> \notin R /\ <<"group", j>> \in R
    BY <1>1
  <1>10. ~(communities[i].count < communities[j].count)
    BY <1>5, <1>6, <1>8, <1>9 DEF Truncates
  <1> QED
    BY <1>3, <1>9, <1>10

(* BudgetPriority, for every block, budget and section: what is cut is     *)
(* first by the order of the phases, is no more than needed, and the       *)
(* section drops its smallest communities.                                 *)
THEOREM BudgetIsByPriority == ComputeSpec => []BudgetPriority
  <1>1. ComputesInv => BudgetPriority
    <2> SUFFICES ASSUME ComputesInv, Computed("budget") PROVE BudgetPriority
      BY DEF BudgetPriority
    <2>1. /\ input \in BudgetInputs
          /\ output = <<[cut  |-> Budget!ApplyTokenBudget(input.block, input.budget),
                        kept |-> Budget!SectionKept(input.communities, input.budget)]>>
      BY DEF ComputesInv, IsComputed, Computed
    <2>2. /\ IsBlock(input.block) /\ input.budget \in Nat
          /\ input.communities \in Seq([count: Nat, chars: Nat])
      BY <2>1, BudgetAssumption DEF IsBlock
    <2>3. /\ output[1].cut = Budget!ApplyTokenBudget(input.block, input.budget)
          /\ output[1].kept = Budget!SectionKept(input.communities, input.budget)
      BY <2>1
    <2>4. \A i \in output[1].kept, j \in DOMAIN input.communities \ output[1].kept :
             input.communities[j].count <= input.communities[i].count
      BY <2>2, <2>3, SectionKeepsLargest
    <2>5. IsPriority(input.block, input.budget, output[1].cut)
      BY <2>2, <2>3, BudgetKept
    <2> QED
      BY <2>4, <2>5 DEF BudgetPriority, IsPriority
  <1> QED
    BY <1>1, Computes, PTL

-----------------------------------------------------------------------------
(* Entity resolution.  A graph over n places, with a name for each entity. *)
IsGraph(g, n) ==
  /\ DOMAIN g \subseteq 1..n
  /\ g \in [DOMAIN g -> Resolution!Entity]
  /\ \A i, j \in DOMAIN g : g[i].name = g[j].name => i = j

Count(g, i) == IF i \in DOMAIN g THEN g[i].count ELSE 0

MentionsOf(g, n) == Budget!SumOf([i \in 1..n |-> Count(g, i)])

LEMMA Adds ==
  ASSUME NEW s \in Int, NEW t \in Int, NEW f \in Int, NEW g \in Int, NEW m \in Int, NEW d \in Int,
         NEW s1, NEW t1, NEW m1, t = s + m, s1 = s + f, t1 = t + g,
         \/ g = f + d /\ m1 = m + d
         \/ g = 0 /\ f = d /\ m1 = m - d
         \/ g = f /\ m1 = m
  PROVE  t1 = s1 + m1
  OBVIOUS

(* What one element gives another is not lost in the sum.                  *)
Moves(f, g, n, a, b) ==
  /\ f \in [1..n -> Int] /\ g \in [1..n -> Int]
  /\ a \in 1..n /\ b \in 1..n /\ a # b
  /\ g[a] = f[a] + f[b] /\ g[b] = 0 /\ \A i \in 1..n : i # a /\ i # b => g[i] = f[i]

LEMMA SumMoves ==
  ASSUME NEW n \in Nat, NEW f, NEW g, NEW a, NEW b, Moves(f, g, n, a, b)
  PROVE  Budget!SumOf(g) = Budget!SumOf(f)
  <1>0. /\ f \in [1..n -> Int] /\ g \in [1..n -> Int]
        /\ a \in 1..n /\ b \in 1..n /\ a # b
        /\ g[a] = f[a] + f[b] /\ g[b] = 0 /\ \A i \in 1..n : i # a /\ i # b => g[i] = f[i]
    BY DEF Moves
  <1>1. f \in Seq(Int) /\ g \in Seq(Int)
    BY <1>0, SeqDef
  <1>2. Len(f) = n /\ Len(g) = n
    BY <1>0, <1>1, LenProperties
  <1>3. PICK s : IsSum(s, f, n) /\ Budget!SumOf(f) = s[n]
    BY <1>1, <1>2, SumsUp
  <1>4. PICK t : IsSum(t, g, n) /\ Budget!SumOf(g) = t[n]
    BY <1>1, <1>2, SumsUp
  <1> DEFINE Moved(k) == (IF a <= k THEN f[b] ELSE 0) - (IF b <= k THEN f[b] ELSE 0)
             S == {k \in Nat : k \in 0..n => t[k] = s[k] + Moved(k)}
  <1>5. 0 \in S
    BY <1>0, <1>3, <1>4 DEF IsSum
  <1>6. ASSUME NEW k \in Nat, k \in S
        PROVE  k + 1 \in S
    <2> SUFFICES ASSUME k + 1 \in 0..n PROVE t[k + 1] = s[k + 1] + Moved(k + 1)
      OBVIOUS
    <2>1. s[k + 1] = s[k] + f[k + 1] /\ t[k + 1] = t[k] + g[k + 1]
      BY <1>3, <1>4 DEF IsSum
    <2>2. k \in 0..n /\ k + 1 \in 1..n
      OBVIOUS
    <2>3. s[k] \in Int /\ t[k] \in Int /\ t[k] = s[k] + Moved(k)
      BY <1>3, <1>4, <1>6, <2>2 DEF IsSum
    <2>4. f[b] \in Int /\ f[a] \in Int /\ f[k + 1] \in Int /\ g[k + 1] \in Int /\ a \in Int /\ b \in Int
      BY <1>0, <2>2
    <2>5. CASE k + 1 = a
      <3>1. g[k + 1] = f[k + 1] + f[b]
        BY <1>0, <2>5
      <3>2. ~(a <= k) /\ a <= k + 1 /\ (b <= k <=> b <= k + 1)
        BY <1>0, <2>4, <2>5
      <3>3. Moved(k + 1) = Moved(k) + f[b] /\ Moved(k) \in Int
        BY <2>4, <3>2
      <3> HIDE DEF Moved
      <3> QED
        BY <2>1, <2>3, <2>4, <3>1, <3>3, Adds
    <2>6. CASE k + 1 = b
      <3>1. g[k + 1] = 0 /\ f[k + 1] = f[b]
        BY <1>0, <2>6
      <3>2. ~(b <= k) /\ b <= k + 1 /\ (a <= k <=> a <= k + 1)
        BY <1>0, <2>4, <2>6
      <3>3. Moved(k + 1) = Moved(k) - f[b] /\ Moved(k) \in Int
        BY <2>4, <3>2
      <3> HIDE DEF Moved
      <3> QED
        BY <2>1, <2>3, <2>4, <3>1, <3>3, Adds
    <2>7. CASE k + 1 # a /\ k + 1 # b
      <3>1. g[k + 1] = f[k + 1]
        BY <1>0, <2>2, <2>7
      <3>2. (a <= k <=> a <= k + 1) /\ (b <= k <=> b <= k + 1)
        BY <2>4, <2>7
      <3>3. Moved(k + 1) = Moved(k) /\ Moved(k) \in Int
        BY <2>4, <3>2
      <3> HIDE DEF Moved
      <3> QED
        BY <2>1, <2>3, <2>4, <3>1, <3>3, Adds
    <2> QED
      BY <2>5, <2>6, <2>7
  <1>7. n \in S
    <2> HIDE DEF S
    <2> QED
      BY <1>5, <1>6, Induction
  <1>8. t[n] = s[n] + Moved(n) /\ s[n] \in Int
    BY <1>3, <1>7 DEF IsSum
  <1>9. f[b] \in Int /\ a <= n /\ b <= n
    BY <1>0
  <1> QED
    BY <1>3, <1>4, <1>8, <1>9

(* A merge, when both are there, and when they are two.                    *)
LEMMA Merged ==
  ASSUME NEW n \in Nat, NEW g, IsGraph(g, n), NEW c, c[1] # c[2]
  PROVE  LET h == Resolution!MergeEntities(g, c)
         IN  /\ IsGraph(h, n)
             /\ Resolution!Names(h) = IF c[1] \in Resolution!Names(g) THEN Resolution!Names(g) \ {c[2]}
                                      ELSE Resolution!Names(g)
             /\ MentionsOf(h, n) = MentionsOf(g, n)
  <1> DEFINE h == Resolution!MergeEntities(g, c)
             kept == Resolution!PlaceOf(g, c[1])
             gone == Resolution!PlaceOf(g, c[2])
             Both == {c[1], c[2]} \subseteq Resolution!Names(g)
  <1>1. CASE ~Both
    <2>1. h = g
      BY <1>1 DEF Resolution!MergeEntities
    <2>2. Resolution!Names(g) = IF c[1] \in Resolution!Names(g) THEN Resolution!Names(g) \ {c[2]}
                                ELSE Resolution!Names(g)
      BY <1>1
    <2> HIDE DEF h
    <2> QED
      BY <2>1, <2>2 DEF h
  <1>2. CASE Both
    <2>1. /\ kept \in DOMAIN g /\ g[kept].name = c[1]
          /\ gone \in DOMAIN g /\ g[gone].name = c[2]
      <3>1. (\E i \in DOMAIN g : g[i].name = c[1]) /\ (\E i \in DOMAIN g : g[i].name = c[2])
        BY <1>2 DEF Resolution!Names
      <3> QED
        BY <3>1 DEF Resolution!PlaceOf
    <2>2. kept # gone
      BY <2>1
    <2>3. h = [i \in DOMAIN g \ {gone} |->
                 IF i = kept THEN [g[i] EXCEPT !.count = @ + g[gone].count] ELSE g[i]]
      BY <1>2 DEF Resolution!MergeEntities
    <2> HIDE DEF h, kept, gone
    <2>4. \A i \in DOMAIN g : g[i] \in Resolution!Entity /\ g[i].count \in Nat
      BY DEF IsGraph, Resolution!Entity
    <2>5. DOMAIN h = DOMAIN g \ {gone}
      BY <2>3
    <2>6. \A i \in DOMAIN h : h[i] \in Resolution!Entity /\ h[i].name = g[i].name
      <3> SUFFICES ASSUME NEW i \in DOMAIN h PROVE h[i] \in Resolution!Entity /\ h[i].name = g[i].name
        OBVIOUS
      <3>1. i \in DOMAIN g /\ g[gone].count \in Nat
        BY <2>1, <2>4, <2>5
      <3>2. h[i] = IF i = kept THEN [g[i] EXCEPT !.count = @ + g[gone].count] ELSE g[i]
        BY <2>3, <2>5
      <3>3. g[i] \in Resolution!Entity
        BY <2>4, <3>1
      <3> QED
        BY <3>1, <3>2, <3>3 DEF Resolution!Entity
    <2>7. h[kept].count = g[kept].count + g[gone].count
      BY <2>1, <2>2, <2>3, <2>4 DEF Resolution!Entity
    <2>8. \A i \in DOMAIN h : i # kept => h[i] = g[i]
      BY <2>3
    <2>9. IsGraph(h, n)
      <3>1. h \in [DOMAIN h -> Resolution!Entity]
        BY <2>3, <2>5, <2>6
      <3>2. \A i, j \in DOMAIN h : h[i].name = h[j].name => i = j
        BY <2>5, <2>6 DEF IsGraph
      <3> QED
        BY <2>5, <3>1, <3>2 DEF IsGraph
    <2>10. Resolution!Names(h) = Resolution!Names(g) \ {c[2]}
      <3>1. \A i \in DOMAIN g : g[i].name = c[2] <=> i = gone
        BY <2>1 DEF IsGraph
      <3> QED
        BY <2>5, <2>6, <3>1 DEF Resolution!Names
    <2>11. MentionsOf(h, n) = MentionsOf(g, n)
      <3> DEFINE f == [i \in 1..n |-> Count(g, i)]
                 e == [i \in 1..n |-> Count(h, i)]
      <3>1. kept \in 1..n /\ gone \in 1..n
        BY <2>1 DEF IsGraph
      <3>2. \A i \in 1..n : Count(g, i) \in Int /\ Count(h, i) \in Int
        <4>1. \A i \in DOMAIN h : h[i].count \in Nat
          BY <2>6 DEF Resolution!Entity
        <4> QED
          BY <2>4, <4>1 DEF Count
      <3>3. f \in [1..n -> Int] /\ e \in [1..n -> Int]
        BY <3>2
      <3>4. e[kept] = f[kept] + f[gone] /\ e[gone] = 0
        BY <2>1, <2>2, <2>5, <2>7, <3>1 DEF Count
      <3>5. \A i \in 1..n : i # kept /\ i # gone => e[i] = f[i]
        BY <2>5, <2>8 DEF Count
      <3> HIDE DEF f, e
      <3>6. Budget!SumOf(e) = Budget!SumOf(f)
        <4>1. Moves(f, e, n, kept, gone)
          BY <2>2, <3>1, <3>3, <3>4, <3>5 DEF Moves
        <4> QED
          BY <4>1, SumMoves
      <3> QED
        BY <3>6 DEF MentionsOf, f, e
    <2> QED
      BY <1>2, <2>9, <2>10, <2>11 DEF h
  <1> QED
    BY <1>1, <1>2

(* Proposals name two entities, and the one to stay is there.              *)
AreProposals(candidates, g, m) ==
  /\ DOMAIN candidates \subseteq 1..m
  /\ \A k \in DOMAIN candidates : /\ candidates[k][1] # candidates[k][2]
                                  /\ candidates[k][1] \in Resolution!Names(g)

(* The graphs on the way: none loses a mention, and what is gone of the    *)
(* first k proposals.                                                      *)
CarriedOut(candidates, g, n, k, h) ==
  /\ IsGraph(h, n)
  /\ MentionsOf(h, n) = MentionsOf(g, n)
  /\ Resolution!Names(h) \subseteq Resolution!Names(g)
  /\ (\A i, j \in DOMAIN candidates : candidates[i][1] # candidates[j][2]) =>
       /\ \A i \in DOMAIN candidates : candidates[i][1] \in Resolution!Names(h)
       /\ \A i \in DOMAIN candidates : i <= k => candidates[i][2] \notin Resolution!Names(h)

Step(candidates, k, h) ==
  IF k \in DOMAIN candidates THEN Resolution!MergeEntities(h, candidates[k]) ELSE h

LEMMA StepCarries ==
  ASSUME NEW n \in Nat, NEW m \in Nat, NEW g, NEW candidates, AreProposals(candidates, g, m),
         NEW k \in Nat, NEW h, CarriedOut(candidates, g, n, k, h)
  PROVE  CarriedOut(candidates, g, n, k + 1, Step(candidates, k + 1, h))
  <1>0. \A i \in DOMAIN candidates : i \in Nat
    BY DEF AreProposals
  <1>1. CASE k + 1 \notin DOMAIN candidates
    <2>1. \A i \in DOMAIN candidates : i <= k + 1 => i <= k
      BY <1>0, <1>1
    <2> QED
      BY <1>1, <2>1 DEF CarriedOut, Step
  <1>2. CASE k + 1 \in DOMAIN candidates
    <2> DEFINE c == candidates[k + 1]
               e == Resolution!MergeEntities(h, c)
    <2>1. Step(candidates, k + 1, h) = e
      BY <1>2 DEF Step
    <2>2. c[1] # c[2]
      BY <1>2 DEF AreProposals
    <2>3. /\ IsGraph(e, n)
          /\ Resolution!Names(e) = IF c[1] \in Resolution!Names(h) THEN Resolution!Names(h) \ {c[2]}
                                   ELSE Resolution!Names(h)
          /\ MentionsOf(e, n) = MentionsOf(h, n)
      <3> HIDE DEF c
      <3> QED
        BY <2>2, Merged DEF CarriedOut
    <2>4. ASSUME \A i, j \in DOMAIN candidates : candidates[i][1] # candidates[j][2]
          PROVE  /\ \A i \in DOMAIN candidates : candidates[i][1] \in Resolution!Names(e)
                 /\ \A i \in DOMAIN candidates : i <= k + 1 => candidates[i][2] \notin Resolution!Names(e)
      <3>1. /\ \A i \in DOMAIN candidates : candidates[i][1] \in Resolution!Names(h)
            /\ \A i \in DOMAIN candidates : i <= k => candidates[i][2] \notin Resolution!Names(h)
        BY <2>4 DEF CarriedOut
      <3>2. Resolution!Names(e) = Resolution!Names(h) \ {c[2]}
        BY <1>2, <2>3, <3>1
      <3>3. \A i \in DOMAIN candidates : i <= k + 1 => (i <= k \/ i = k + 1)
        BY <1>0
      <3> HIDE DEF e
      <3> QED
        BY <1>2, <2>4, <3>1, <3>2, <3>3
    <2> HIDE DEF c, e
    <2> QED
      BY <2>1, <2>3, <2>4 DEF CarriedOut
  <1> QED
    BY <1>1, <1>2

LEMMA ExecutionCarries ==
  ASSUME NEW n \in Nat, NEW m \in Nat, NEW g, IsGraph(g, n), NEW candidates, AreProposals(candidates, g, m)
  PROVE  CarriedOut(candidates, g, n, m, Resolution!Execute(g, candidates, m))
  <1> DEFINE After(f, k) == IF k = 0 THEN g
                            ELSE IF k \in DOMAIN candidates
                            THEN Resolution!MergeEntities(f[k - 1], candidates[k]) ELSE f[k - 1]
             L == CHOOSE f : f = [k \in 0..m |-> After(f, k)]
             D == UNION {[P -> Resolution!Entity] : P \in SUBSET (1..n)}
             Good == {h \in D : IsGraph(h, n)}
             step == [z \in Nat \X Good |-> Step(candidates, z[1] + 1, z[2])]
  <1>1. Resolution!Execute(g, candidates, m) = L[m]
    BY DEF Resolution!Execute
  <1>2. \A h : IsGraph(h, n) => h \in Good
    BY DEF IsGraph
  <1>3. \A h, k : h \in Good /\ k \in Nat => Step(candidates, k, h) \in Good
    <2> SUFFICES ASSUME NEW h \in Good, NEW k \in Nat PROVE Step(candidates, k, h) \in Good
      OBVIOUS
    <2>1. IsGraph(h, n)
      OBVIOUS
    <2>2. CASE k \in DOMAIN candidates
      <3>1. candidates[k][1] # candidates[k][2]
        BY <2>2 DEF AreProposals
      <3>2. IsGraph(Resolution!MergeEntities(h, candidates[k]), n)
        BY <2>1, <3>1, Merged
      <3> HIDE DEF Good
      <3> QED
        BY <1>2, <2>2, <3>2 DEF Step
    <2>3. CASE k \notin DOMAIN candidates
      BY <2>3 DEF Step
    <2> QED
      BY <2>2, <2>3
  <1>4. PICK F : IsIteration(F, Good, g, step)
    <2>1. g \in Good
      BY <1>2
    <2> HIDE DEF Good
    <2>2. step \in [Nat \X Good -> Good]
      BY <1>3
    <2> HIDE DEF step
    <2> QED
      BY <2>1, <2>2, Iterates
  <1>5. F \in [Nat -> Good] /\ F[0] = g
        /\ \A k \in Nat : F[k + 1] = Step(candidates, k + 1, F[k])
    <2>1. F \in [Nat -> Good] /\ F[0] = g /\ \A k \in Nat : F[k + 1] = step[<<k, F[k]>>]
      BY <1>4 DEF IsIteration
    <2>2. \A k \in Nat : F[k] \in Good
      BY <2>1
    <2>3. \A k \in Nat : step[<<k, F[k]>>] = Step(candidates, k + 1, F[k])
      <3> HIDE DEF Good
      <3> QED
        BY <2>2
    <2> HIDE DEF Good, step
    <2> QED
      BY <2>1, <2>3
  <1> HIDE DEF step, Good
  <1> DEFINE G == [k \in 0..m |-> F[k]]
  <1>6. \A k \in 0..m : G[k] = After(G, k)
    <2> SUFFICES ASSUME NEW k \in 0..m PROVE G[k] = After(G, k)
      OBVIOUS
    <2>1. CASE k = 0
      BY <1>5, <2>1
    <2>2. CASE k # 0
      <3>1. k - 1 \in Nat /\ k - 1 \in 0..m /\ (k - 1) + 1 = k
        BY <2>2
      <3>2. F[k] = Step(candidates, k, F[k - 1])
        <4>1. F[(k - 1) + 1] = Step(candidates, (k - 1) + 1, F[k - 1])
          BY <1>5, <3>1
        <4> QED
          BY <3>1, <4>1
      <3>3. G[k] = F[k] /\ G[k - 1] = F[k - 1]
        BY <3>1
      <3> HIDE DEF G
      <3> QED
        BY <2>2, <3>2, <3>3 DEF Step
    <2> QED
      BY <2>1, <2>2
  <1>7. L = [k \in 0..m |-> After(L, k)]
    <2> HIDE DEF After
    <2>1. G = [k \in 0..m |-> After(G, k)]
      BY <1>6
    <2> HIDE DEF G
    <2> QED
      BY <2>1
  <1> HIDE DEF L, G
  <1> DEFINE S == {k \in Nat : k \in 0..m => CarriedOut(candidates, g, n, k, L[k])}
  <1>8. 0 \in S
    <2>1. L[0] = g
      BY <1>7
    <2>2. \A i \in DOMAIN candidates : ~(i <= 0)
      BY DEF AreProposals
    <2>3. CarriedOut(candidates, g, n, 0, g)
      BY <2>2 DEF CarriedOut, AreProposals
    <2> QED
      BY <2>1, <2>3
  <1>9. ASSUME NEW k \in Nat, k \in S
        PROVE  k + 1 \in S
    <2> SUFFICES ASSUME k + 1 \in 0..m PROVE CarriedOut(candidates, g, n, k + 1, L[k + 1])
      OBVIOUS
    <2>1. L[k + 1] = After(L, k + 1)
      <3> HIDE DEF After
      <3> QED
        BY <1>7
    <2>2. L[k + 1] = Step(candidates, k + 1, L[k])
      <3>1. k + 1 # 0 /\ (k + 1) - 1 = k
        OBVIOUS
      <3> QED
        BY <2>1, <3>1 DEF Step
    <2>3. CarriedOut(candidates, g, n, k, L[k])
      BY <1>9
    <2> QED
      BY <2>2, <2>3, StepCarries
  <1>10. m \in S
    <2> HIDE DEF S
    <2> QED
      BY <1>8, <1>9, Induction
  <1> QED
    BY <1>1, <1>10

LEMMA AliasProposals ==
  ASSUME NEW g, NEW table, table \in Seq(STRING \X STRING)
  PROVE  AreProposals(Resolution!AliasCandidates(g, table), g, Len(table))
  <1>1. DOMAIN table = 1..Len(table)
    BY LenProperties
  <1> QED
    BY <1>1 DEF AreProposals, Resolution!AliasCandidates

(* What the comparisons have found: pairs of two names.                    *)
Pairs(g) == {p \in Resolution!Names(g) \X Resolution!Names(g) : p[1] # p[2]}

Found(g) == [found: Seq(Pairs(g)), merged: SUBSET Resolution!Names(g)]

LEMMA ComparesPairs ==
  ASSUME NEW n, NEW g, IsGraph(g, n), NEW similar, NEW s \in Found(g), NEW i \in DOMAIN g, NEW j
  PROVE  Resolution!Compare(g, similar, s, i, j) \in Found(g)
  <1> DEFINE p == Resolution!Pair(g[i], g[j])
             t == [found |-> Append(s.found, p), merged |-> s.merged \union {p[2]}]
  <1>1. CASE j > i /\ j \in DOMAIN g
    <2>1. g[i].name # g[j].name
      <3>1. i # j
        BY <1>1 DEF IsGraph
      <3> QED
        BY <1>1, <3>1 DEF IsGraph
    <2>2. p \in Pairs(g)
      BY <1>1, <2>1 DEF Resolution!Pair, Pairs, Resolution!Names
    <2>3. p[2] \in Resolution!Names(g)
      BY <2>2 DEF Pairs
    <2> HIDE DEF p
    <2>4. t \in Found(g)
      <3>1. s.found \in Seq(Pairs(g)) /\ s.merged \subseteq Resolution!Names(g)
        BY DEF Found
      <3>2. Append(s.found, p) \in Seq(Pairs(g))
        BY <2>2, <3>1, AppendProperties
      <3> QED
        BY <2>3, <3>1, <3>2 DEF Found
    <2>5. Resolution!Compare(g, similar, s, i, j) \in {s, t}
      BY DEF Resolution!Compare, p
    <2> HIDE DEF t
    <2> QED
      BY <2>4, <2>5
  <1>2. CASE ~(j > i /\ j \in DOMAIN g)
    BY <1>2 DEF Resolution!Compare
  <1> QED
    BY <1>1, <1>2

LEMMA RowsFindPairs ==
  ASSUME NEW n \in Nat, NEW g, IsGraph(g, n), NEW similar, NEW s \in Found(g), NEW i \in DOMAIN g
  PROVE  Resolution!Row(g, n, similar, s, i) \in Found(g)
  <1> DEFINE At(f, j) == IF j = 0 THEN s ELSE Resolution!Compare(g, similar, f[j - 1], i, j)
             L == CHOOSE f : f = [j \in 0..n |-> At(f, j)]
             step == [z \in Nat \X Found(g) |-> Resolution!Compare(g, similar, z[2], i, z[1] + 1)]
  <1>1. Resolution!Row(g, n, similar, s, i) = L[n]
    BY DEF Resolution!Row
  <1>2. \A j : \A t \in Found(g) : Resolution!Compare(g, similar, t, i, j) \in Found(g)
    BY ComparesPairs
  <1>3. PICK F : IsIteration(F, Found(g), s, step)
    <2>1. step \in [Nat \X Found(g) -> Found(g)]
      BY <1>2
    <2> HIDE DEF step
    <2> QED
      BY <2>1, Iterates
  <1>4. F \in [Nat -> Found(g)] /\ F[0] = s
        /\ \A j \in Nat : F[j + 1] = Resolution!Compare(g, similar, F[j], i, j + 1)
    <2>1. F \in [Nat -> Found(g)] /\ F[0] = s /\ \A j \in Nat : F[j + 1] = step[<<j, F[j]>>]
      BY <1>3 DEF IsIteration
    <2>2. \A j \in Nat : F[j] \in Found(g)
      BY <2>1
    <2>3. \A j \in Nat : step[<<j, F[j]>>] = Resolution!Compare(g, similar, F[j], i, j + 1)
      BY <2>2
    <2> HIDE DEF step
    <2> QED
      BY <2>1, <2>3
  <1> HIDE DEF step
  <1> DEFINE G == [j \in 0..n |-> F[j]]
  <1>5. \A j \in 0..n : G[j] = At(G, j)
    <2> SUFFICES ASSUME NEW j \in 0..n PROVE G[j] = At(G, j)
      OBVIOUS
    <2>1. CASE j = 0
      BY <1>4, <2>1
    <2>2. CASE j # 0
      <3>1. j - 1 \in Nat /\ j - 1 \in 0..n /\ (j - 1) + 1 = j
        BY <2>2
      <3>2. F[j] = Resolution!Compare(g, similar, F[j - 1], i, j)
        <4>1. F[(j - 1) + 1] = Resolution!Compare(g, similar, F[j - 1], i, (j - 1) + 1)
          BY <1>4, <3>1
        <4> QED
          BY <3>1, <4>1
      <3>3. G[j] = F[j] /\ G[j - 1] = F[j - 1]
        BY <3>1
      <3> HIDE DEF G
      <3> QED
        BY <2>2, <3>2, <3>3
    <2> QED
      BY <2>1, <2>2
  <1>6. L = [j \in 0..n |-> At(L, j)]
    <2> HIDE DEF At
    <2>1. G = [j \in 0..n |-> At(G, j)]
      BY <1>5
    <2> HIDE DEF G
    <2> QED
      BY <2>1
  <1> HIDE DEF L, G
  <1> DEFINE S == {j \in Nat : j \in 0..n => L[j] \in Found(g)}
  <1>7. 0 \in S
    BY <1>6
  <1>8. ASSUME NEW j \in Nat, j \in S
        PROVE  j + 1 \in S
    <2> SUFFICES ASSUME j + 1 \in 0..n PROVE L[j + 1] \in Found(g)
      OBVIOUS
    <2>1. L[j + 1] = At(L, j + 1)
      <3> HIDE DEF At
      <3> QED
        BY <1>6
    <2>2. L[j + 1] = Resolution!Compare(g, similar, L[j], i, j + 1)
      <3>1. j + 1 # 0 /\ (j + 1) - 1 = j
        OBVIOUS
      <3> QED
        BY <2>1, <3>1
    <2>3. L[j] \in Found(g)
      BY <1>8
    <2> QED
      BY <1>2, <2>2, <2>3
  <1>9. n \in S
    <2> HIDE DEF S
    <2> QED
      BY <1>7, <1>8, Induction
  <1> QED
    BY <1>1, <1>9

LEMMA EmbeddingProposals ==
  ASSUME NEW n \in Nat, NEW g, IsGraph(g, n), NEW similar
  PROVE  LET pairs == Resolution!EmbeddingCandidates(g, n, similar)
         IN  AreProposals(pairs, g, Len(pairs)) /\ Len(pairs) \in Nat
  <1> DEFINE none == [found |-> <<>>, merged |-> {}]
             Next1(t, i) == IF i \notin DOMAIN g \/ g[i].name \in t.merged THEN t
                            ELSE Resolution!Row(g, n, similar, t, i)
             At(f, i) == IF i = 0 THEN none ELSE Next1(f[i - 1], i)
             L == CHOOSE f : f = [i \in 0..n |-> At(f, i)]
             step == [z \in Nat \X Found(g) |-> Next1(z[2], z[1] + 1)]
  <1>1. Resolution!EmbeddingCandidates(g, n, similar) = L[n].found
    BY DEF Resolution!EmbeddingCandidates
  <1>2. \A i : \A t \in Found(g) : Next1(t, i) \in Found(g)
    BY RowsFindPairs
  <1>3. none \in Found(g)
    <2>1. <<>> \in Seq(Pairs(g))
      BY EmptySeq
    <2> QED
      BY <2>1 DEF Found
  <1> HIDE DEF Next1, none
  <1>4. PICK F : IsIteration(F, Found(g), none, step)
    <2>1. step \in [Nat \X Found(g) -> Found(g)]
      BY <1>2
    <2> HIDE DEF step
    <2> QED
      BY <1>3, <2>1, Iterates
  <1>5. F \in [Nat -> Found(g)] /\ F[0] = none
        /\ \A i \in Nat : F[i + 1] = Next1(F[i], i + 1)
    <2>1. F \in [Nat -> Found(g)] /\ F[0] = none /\ \A i \in Nat : F[i + 1] = step[<<i, F[i]>>]
      BY <1>4 DEF IsIteration
    <2>2. \A i \in Nat : F[i] \in Found(g)
      BY <2>1
    <2>3. \A i \in Nat : step[<<i, F[i]>>] = Next1(F[i], i + 1)
      BY <2>2
    <2> HIDE DEF step
    <2> QED
      BY <2>1, <2>3
  <1> HIDE DEF step
  <1> DEFINE G == [i \in 0..n |-> F[i]]
  <1>6. \A i \in 0..n : G[i] = At(G, i)
    <2> SUFFICES ASSUME NEW i \in 0..n PROVE G[i] = At(G, i)
      OBVIOUS
    <2>1. CASE i = 0
      BY <1>5, <2>1
    <2>2. CASE i # 0
      <3>1. i - 1 \in Nat /\ i - 1 \in 0..n /\ (i - 1) + 1 = i
        BY <2>2
      <3>2. F[i] = Next1(F[i - 1], i)
        <4>1. F[(i - 1) + 1] = Next1(F[i - 1], (i - 1) + 1)
          BY <1>5, <3>1
        <4> QED
          BY <3>1, <4>1
      <3>3. G[i] = F[i] /\ G[i - 1] = F[i - 1]
        BY <3>1
      <3> HIDE DEF G
      <3> QED
        BY <2>2, <3>2, <3>3
    <2> QED
      BY <2>1, <2>2
  <1>7. L = [i \in 0..n |-> At(L, i)]
    <2> HIDE DEF At
    <2>1. G = [i \in 0..n |-> At(G, i)]
      BY <1>6
    <2> HIDE DEF G
    <2> QED
      BY <2>1
  <1> HIDE DEF L, G
  <1> DEFINE S == {i \in Nat : i \in 0..n => L[i] \in Found(g)}
  <1>8. 0 \in S
    BY <1>3, <1>7
  <1>9. ASSUME NEW i \in Nat, i \in S
        PROVE  i + 1 \in S
    <2> SUFFICES ASSUME i + 1 \in 0..n PROVE L[i + 1] \in Found(g)
      OBVIOUS
    <2>1. L[i + 1] = At(L, i + 1)
      <3> HIDE DEF At
      <3> QED
        BY <1>7
    <2>2. L[i + 1] = Next1(L[i], i + 1)
      <3>1. i + 1 # 0 /\ (i + 1) - 1 = i
        OBVIOUS
      <3> QED
        BY <2>1, <3>1
    <2>3. L[i] \in Found(g)
      BY <1>9
    <2> QED
      BY <1>2, <2>2, <2>3
  <1>10. n \in S
    <2> HIDE DEF S
    <2> QED
      BY <1>8, <1>9, Induction
  <1> DEFINE pairs == L[n].found
  <1>11. pairs \in Seq(Pairs(g))
    BY <1>10 DEF Found
  <1> HIDE DEF pairs
  <1>12. Len(pairs) \in Nat /\ DOMAIN pairs = 1..Len(pairs)
    BY <1>11, LenProperties
  <1>13. \A k \in DOMAIN pairs : pairs[k] \in Pairs(g)
    BY <1>11, <1>12, ElementOfSeq
  <1> QED
    BY <1>1, <1>12, <1>13 DEF AreProposals, Pairs, pairs

(* What ProposalsCarriedOut says of one phase.                             *)
AllGone(candidates, h) ==
  LET cs == {candidates[k] : k \in DOMAIN candidates}
  IN  (\A c, d \in cs : c[1] # d[2]) =>
        \A c \in cs : c[1] \in Resolution!Names(h) /\ c[2] \notin Resolution!Names(h)

LEMMA CarriedAreGone ==
  ASSUME NEW candidates, NEW g, NEW n, NEW m, AreProposals(candidates, g, m),
         NEW h, CarriedOut(candidates, g, n, m, h)
  PROVE  AllGone(candidates, h)
  <1> SUFFICES ASSUME \A i, j \in DOMAIN candidates : candidates[i][1] # candidates[j][2]
               PROVE  \A i \in DOMAIN candidates : /\ candidates[i][1] \in Resolution!Names(h)
                                                   /\ candidates[i][2] \notin Resolution!Names(h)
    BY DEF AllGone
  <1>1. \A i \in DOMAIN candidates : i <= m
    BY DEF AreProposals
  <1> QED
    BY <1>1 DEF CarriedOut

(* ProposalsCarriedOut, for every listing, table of aliases and relation of*)
(* similarity: neither phase loses a mention, and each carries out all its *)
(* proposals, if none would remove what another is to keep.                *)
THEOREM ProposalsAreCarriedOut == ComputeSpec => []ProposalsCarriedOut
  <1>1. ComputesInv => ProposalsCarriedOut
    <2> SUFFICES ASSUME ComputesInv, Computed("resolve") PROVE ProposalsCarriedOut
      BY DEF ProposalsCarriedOut
    <2> DEFINE g == input.graph
               n == Len(g)
               m == Len(input.table)
               aliases == Resolution!AliasCandidates(g, input.table)
               between == Resolution!Execute(g, aliases, m)
               pairs == Resolution!EmbeddingCandidates(between, n, input.similar)
               after == Resolution!Execute(between, pairs, Len(pairs))
    <2>1. /\ input \in ResolutionInputs
          /\ output = <<Resolution!Resolve(input.graph, input.table, input.similar)>>
      BY DEF ComputesInv, IsComputed, Computed
    <2>2. output[1] = [aliases |-> aliases, between |-> between, pairs |-> pairs, graph |-> after]
      BY <2>1 DEF Resolution!Resolve
    <2>3. /\ g \in Seq(Resolution!Entity) /\ input.table \in Seq(STRING \X STRING)
          /\ IsInjective([k \in DOMAIN g |-> g[k].name])
      BY <2>1, ResolutionAssumption
    <2>4. n \in Nat /\ m \in Nat /\ DOMAIN g = 1..n
      BY <2>3, LenProperties
    <2>5. IsGraph(g, n)
      <3>1. g \in [1..n -> Resolution!Entity]
        BY <2>3, LenProperties
      <3>2. \A i, j \in DOMAIN g : g[i].name = g[j].name => i = j
        BY <2>3 DEF IsInjective
      <3> HIDE DEF g, n
      <3> QED
        BY <2>4, <3>1, <3>2 DEF IsGraph
    <2>6. AreProposals(aliases, g, m)
      BY <2>3, AliasProposals
    <2> HIDE DEF g, n, m, aliases
    <2>7. CarriedOut(aliases, g, n, m, between)
      BY <2>4, <2>5, <2>6, ExecutionCarries
    <2> HIDE DEF between
    <2>8. IsGraph(between, n) /\ MentionsOf(between, n) = MentionsOf(g, n)
      BY <2>7 DEF CarriedOut
    <2>9. AreProposals(pairs, between, Len(pairs)) /\ Len(pairs) \in Nat
      BY <2>4, <2>8, EmbeddingProposals
    <2> HIDE DEF pairs
    <2>10. CarriedOut(pairs, between, n, Len(pairs), after)
      BY <2>4, <2>8, <2>9, ExecutionCarries
    <2> HIDE DEF after
    <2>11. MentionsOf(after, n) = MentionsOf(g, n)
      BY <2>8, <2>10 DEF CarriedOut
    <2>12. /\ AllGone(aliases, between)
           /\ AllGone(pairs, after)
      BY <2>4, <2>6, <2>7, <2>9, <2>10, CarriedAreGone
    <2>13. \A h : MentionsOf(h, n) = Budget!SumOf([i \in DOMAIN input.graph |-> IF i \in DOMAIN h THEN h[i].count ELSE 0])
      BY <2>4 DEF MentionsOf, Count, g
    <2> QED
      <3>1. /\ output[1].aliases = aliases /\ output[1].between = between
            /\ output[1].pairs = pairs /\ output[1].graph = after
        BY <2>2
      <3>2. g = input.graph
        BY DEF g
      <3> QED
        BY <2>11, <2>12, <2>13, <3>1, <3>2 DEF ProposalsCarriedOut, AllGone
  <1> QED
    BY <1>1, Computes, PTL

-----------------------------------------------------------------------------
(* Hierarchies of communities.  Numbers below the stride, the bucket's -1  *)
(* among them, part a set.                                                 *)
IsParting(parts, S) ==
  /\ \A c \in DOMAIN parts : c \in Int /\ -1 <= c /\ c + 1 < Stride
  /\ UNION {parts[c] : c \in DOMAIN parts} = S
  /\ \A c, d \in DOMAIN parts : c # d => parts[c] \intersect parts[d] = {}

IsLeiden(leiden, E) ==
  /\ leiden \in [SUBSET E -> Seq(SUBSET E)]
  /\ \A S \in SUBSET E :
       /\ UNION {leiden[S][c] : c \in DOMAIN leiden[S]} = S
       /\ \A c, d \in DOMAIN leiden[S] : c # d => leiden[S][c] \intersect leiden[S][d] = {}
       /\ Len(leiden[S]) < Stride

LEMMA RunParts ==
  ASSUME NEW E, NEW leiden, IsLeiden(leiden, E), NEW S \in SUBSET E
  PROVE  /\ IsParting(Hierarchy!RunLeiden(leiden, S), S)
         /\ -1 \notin DOMAIN Hierarchy!RunLeiden(leiden, S)
  <1> DEFINE q == leiden[S]
             R == Hierarchy!RunLeiden(leiden, S)
  <1>1. q \in Seq(SUBSET E) /\ UNION {q[c] : c \in DOMAIN q} = S
        /\ (\A c, d \in DOMAIN q : c # d => q[c] \intersect q[d] = {}) /\ Len(q) < Stride
    BY DEF IsLeiden
  <1>2. Len(q) \in Nat /\ DOMAIN q = 1..Len(q)
    BY <1>1, LenProperties
  <1>3. /\ DOMAIN R = {d \in 0..(Len(q) - 1) : q[d + 1] # {}}
        /\ \A c \in DOMAIN R : R[c] = q[c + 1]
    BY DEF Hierarchy!RunLeiden
  <1> HIDE DEF q, R
  <1>4. \A c \in DOMAIN R : c \in Int /\ 0 <= c /\ c + 1 \in DOMAIN q
    BY <1>2, <1>3
  <1>5. \A c \in DOMAIN R : c \in Int /\ -1 <= c /\ c + 1 < Stride
    <2>1. Stride \in Nat
      BY HierarchyAssumption
    <2> QED
      BY <1>1, <1>2, <1>3, <2>1
  <1>6. UNION {R[c] : c \in DOMAIN R} = S
    <2>1. ASSUME NEW x \in S PROVE \E c \in DOMAIN R : x \in R[c]
      <3>1. PICK i \in DOMAIN q : x \in q[i]
        BY <1>1
      <3>2. i \in Nat /\ i - 1 \in 0..(Len(q) - 1) /\ (i - 1) + 1 = i
        BY <1>2
      <3>3. i - 1 \in DOMAIN R /\ R[i - 1] = q[i]
        BY <1>3, <3>1, <3>2
      <3> QED
        BY <3>1, <3>3
    <2>2. \A c \in DOMAIN R : R[c] \subseteq S
      BY <1>1, <1>3, <1>4
    <2> QED
      BY <2>1, <2>2
  <1>7. \A c, d \in DOMAIN R : c # d => R[c] \intersect R[d] = {}
    <2> SUFFICES ASSUME NEW c \in DOMAIN R, NEW d \in DOMAIN R, c # d PROVE R[c] \intersect R[d] = {}
      OBVIOUS
    <2>1. c + 1 # d + 1 /\ c + 1 \in DOMAIN q /\ d + 1 \in DOMAIN q
      BY <1>4
    <2> QED
      BY <1>1, <1>3, <2>1
  <1>8. -1 \notin DOMAIN R
    BY <1>4
  <1> QED
    BY <1>5, <1>6, <1>7, <1>8 DEF IsParting, R

LEMMA MinSizeParts ==
  ASSUME NEW R, NEW S, IsParting(R, S), -1 \notin DOMAIN R, NEW min
  PROVE  IsParting(Hierarchy!ApplyMinSize(R, min), S)
  <1> DEFINE small  == {c \in DOMAIN R : Hierarchy!Cardinality(R[c]) < min}
             bucket == IF small = {} THEN {} ELSE {-1}
             A == Hierarchy!ApplyMinSize(R, min)
  <1>1. A = [c \in (DOMAIN R \ small) \union bucket |->
               IF c = -1 THEN UNION {R[d] : d \in small} ELSE R[c]]
    BY DEF Hierarchy!ApplyMinSize
  <1> HIDE DEF A
  <1>2. small \subseteq DOMAIN R
    OBVIOUS
  <1>3. (small = {} /\ bucket = {}) \/ (small # {} /\ bucket = {-1})
    OBVIOUS
  <1> HIDE DEF small, bucket
  <1>4. DOMAIN A = (DOMAIN R \ small) \union bucket
    BY <1>1
  <1>5. \A c \in DOMAIN R \ small : A[c] = R[c]
    BY <1>1
  <1>6. small # {} => A[-1] = UNION {R[d] : d \in small}
    BY <1>1, <1>3
  <1>7. \A c \in DOMAIN A : c \in Int /\ -1 <= c /\ c + 1 < Stride
    <2>1. small # {} => 0 < Stride
      BY <1>2, HierarchyAssumption DEF IsParting
    <2>2. \A c \in DOMAIN R : c \in Int /\ -1 <= c /\ c + 1 < Stride
      BY DEF IsParting
    <2>3. -1 \in Int /\ -1 <= -1 /\ -1 + 1 = 0
      OBVIOUS
    <2> QED
      BY <1>3, <1>4, <2>1, <2>2, <2>3
  <1>8. UNION {A[c] : c \in DOMAIN A} = S
    <2>1. \A c \in DOMAIN A : A[c] \subseteq S
      BY <1>2, <1>3, <1>4, <1>5, <1>6 DEF IsParting
    <2>2. ASSUME NEW x \in S PROVE \E c \in DOMAIN A : x \in A[c]
      <3>1. PICK c \in DOMAIN R : x \in R[c]
        BY DEF IsParting
      <3>2. CASE c \in small
        BY <1>3, <1>4, <1>6, <3>1, <3>2
      <3>3. CASE c \notin small
        BY <1>4, <1>5, <3>1, <3>3
      <3> QED
        BY <3>2, <3>3
    <2> QED
      BY <2>1, <2>2
  <1>9. \A c, d \in DOMAIN A : c # d => A[c] \intersect A[d] = {}
    <2>1. \A c, d \in DOMAIN R : c # d => R[c] \intersect R[d] = {}
      BY DEF IsParting
    <2>2. \A c \in DOMAIN R \ small : small # {} => A[c] \intersect A[-1] = {}
      BY <1>2, <1>5, <1>6, <2>1
    <2>3. \A c, d \in DOMAIN R \ small : c # d => A[c] \intersect A[d] = {}
      BY <1>5, <2>1
    <2> SUFFICES ASSUME NEW c \in DOMAIN A, NEW d \in DOMAIN A, c # d PROVE A[c] \intersect A[d] = {}
      OBVIOUS
    <2>4. CASE c \in DOMAIN R \ small /\ d \in DOMAIN R \ small
      BY <2>3, <2>4
    <2>5. CASE c \in DOMAIN R \ small /\ d = -1 /\ small # {}
      BY <2>2, <2>5
    <2>6. CASE d \in DOMAIN R \ small /\ c = -1 /\ small # {}
      <3>1. A[d] \intersect A[-1] = {}
        BY <2>2, <2>6
      <3> QED
        BY <2>6, <3>1
    <2> QED
      BY <1>3, <1>4, <2>4, <2>5, <2>6
  <1> QED
    BY <1>7, <1>8, <1>9 DEF IsParting, A

LEMMA PartsOf ==
  ASSUME NEW E, NEW leiden, IsLeiden(leiden, E), NEW S \in SUBSET E, NEW min
  PROVE  IsParting(Hierarchy!Parts(leiden, min, S), S)
  BY RunParts, MinSizeParts DEF Hierarchy!Parts

(* The children of two parents have numbers that the stride keeps apart.   *)
LEMMA StrideApart ==
  ASSUME NEW p \in Int, NEW q \in Int, NEW c \in Int, NEW d \in Int, p < q,
         -1 <= c, c + 1 < Stride, -1 <= d, d + 1 < Stride
  PROVE  c + p * Stride # d + q * Stride
  <1> DEFINE S == {k \in Nat : k * Stride >= 0}
  <1>1. Stride \in Nat
    BY HierarchyAssumption
  <1>2. PICK s \in Nat : s = Stride
    BY <1>1
  <1>3. \A k \in Nat : k * s >= 0
    OBVIOUS
  <1>4. (q - p - 1) \in Nat /\ q = p + 1 + (q - p - 1)
    OBVIOUS
  <1>5. PICK k \in Nat : q = p + 1 + k
    BY <1>4
  <1>6. q * s = p * s + s + k * s
    BY <1>5
  <1>7. p * s \in Int /\ q * s \in Int /\ k * s \in Int /\ k * s >= 0
    BY <1>3
  <1>8. q * s >= p * s + s
    BY <1>6, <1>7
  <1>9. PICK P \in Int, Q \in Int : P = p * s /\ Q = q * s /\ Q >= P + s
    BY <1>7, <1>8
  <1>10. c + P # d + Q
    BY <1>2, <1>9
  <1> QED
    BY <1>2, <1>9, <1>10

LEMMA OneKey ==
  ASSUME NEW p \in Int, NEW q \in Int, NEW c \in Int, NEW d \in Int,
         -1 <= c, c + 1 < Stride, -1 <= d, d + 1 < Stride,
         c + p * Stride = d + q * Stride
  PROVE  p = q /\ c = d
  <1>1. ~(p < q) /\ ~(q < p)
    BY StrideApart
  <1>2. p = q
    BY <1>1
  <1>3. PICK s \in Nat : s = Stride
    BY HierarchyAssumption
  <1>4. c + p * s = d + p * s /\ p * s \in Int
    BY <1>2, <1>3
  <1>5. c = d
    BY <1>4
  <1> QED
    BY <1>2, <1>5

(* A level: its keys, the communities apart, and an order with no key      *)
(* before itself.                                                          *)
Levels(E) ==
  LET Keys == Int \X Int
  IN  [members : UNION {[K -> SUBSET E] : K \in SUBSET Keys},
       parent  : UNION {[K -> Keys] : K \in SUBSET Keys},
       before  : SUBSET (Keys \X Keys)]

IsLevel(lv, l, E) ==
  /\ lv \in Levels(E)
  /\ \A k \in DOMAIN lv.members : /\ k = <<l, k[2]>> /\ k[2] \in Int
                                  /\ lv.members[k] \subseteq E
                                  /\ <<k, k>> \notin lv.before
  /\ \A j, k \in DOMAIN lv.members : j # k => lv.members[j] \intersect lv.members[k] = {}

Refined(next, lv) ==
  /\ DOMAIN next.parent = DOMAIN next.members
  /\ \A k \in DOMAIN next.parent : next.parent[k] \in DOMAIN lv.members
  /\ \A p \in DOMAIN lv.members :
       LET C == {k \in DOMAIN next.parent : next.parent[k] = p}
       IN  C # {} => UNION {next.members[k] : k \in C} = lv.members[p]

LEMMA LevelOf ==
  ASSUME NEW E, NEW K \in SUBSET (Int \X Int), NEW M \in [K -> SUBSET E],
         NEW C \in SUBSET (Int \X Int), NEW Q \in [C -> Int \X Int],
         NEW B \in SUBSET ((Int \X Int) \X (Int \X Int))
  PROVE  [members |-> M, parent |-> Q, before |-> B] \in Levels(E)
  <1>1. M \in UNION {[J -> SUBSET E] : J \in SUBSET (Int \X Int)}
    OBVIOUS
  <1>2. Q \in UNION {[J -> Int \X Int] : J \in SUBSET (Int \X Int)}
    OBVIOUS
  <1> QED
    BY <1>1, <1>2 DEF Levels

LEMMA FirstIsLevel ==
  ASSUME NEW E, NEW leiden, IsLeiden(leiden, E), NEW min
  PROVE  /\ IsLevel(Hierarchy!FirstLevel(leiden, min, E), 0, E)
         /\ DOMAIN Hierarchy!FirstLevel(leiden, min, E).parent = {}
  <1> DEFINE parts == Hierarchy!Parts(leiden, min, E)
             keys  == {0} \X DOMAIN parts
             M == [k \in keys |-> parts[k[2]]]
             B == {x \in keys \X keys : Hierarchy!Sooner(x[1][2], x[2][2])}
             lv == Hierarchy!FirstLevel(leiden, min, E)
  <1>1. IsParting(parts, E)
    BY PartsOf
  <1>2. lv = [members |-> M, parent |-> <<>>, before |-> B]
    BY DEF Hierarchy!FirstLevel
  <1>3. lv.members = M /\ lv.parent = <<>> /\ lv.before = B
    <2> HIDE DEF M, B, lv
    <2> QED
      BY <1>2
  <1> HIDE DEF parts, lv
  <1>4. /\ \A c \in DOMAIN parts : c \in Int /\ parts[c] \subseteq E
        /\ \A c, d \in DOMAIN parts : c # d => parts[c] \intersect parts[d] = {}
    BY <1>1 DEF IsParting
  <1>5. \A k \in keys : k = <<0, k[2]>> /\ k[2] \in DOMAIN parts /\ k \in Int \X Int
    BY <1>4
  <1> HIDE DEF keys
  <1>6. M \in [keys -> SUBSET E] /\ keys \in SUBSET (Int \X Int)
    BY <1>4, <1>5
  <1>7. \A k \in keys : <<k, k>> \notin B
    <2>1. \A c \in DOMAIN parts : ~Hierarchy!Sooner(c, c)
      BY <1>4 DEF Hierarchy!Sooner
    <2> QED
      BY <1>5, <2>1
  <1>8. B \in SUBSET ((Int \X Int) \X (Int \X Int))
    BY <1>6
  <1>9. DOMAIN M = keys /\ \A k \in keys : M[k] = parts[k[2]]
    OBVIOUS
  <1>10. <<>> \in [{} -> Int \X Int] /\ {} \in SUBSET (Int \X Int)
    OBVIOUS
  <1> HIDE DEF M, B
  <1>11. lv \in Levels(E)
    BY <1>2, <1>6, <1>8, <1>10, LevelOf
  <1>12. \A j, k \in keys : j # k => M[j] \intersect M[k] = {}
    <2>1. \A j, k \in keys : j # k => j[2] # k[2]
      BY <1>5
    <2> QED
      BY <1>4, <1>5, <1>9, <2>1
  <1>13. IsLevel(lv, 0, E)
    BY <1>3, <1>4, <1>5, <1>7, <1>9, <1>11, <1>12 DEF IsLevel
  <1>14. DOMAIN lv.parent = {}
    BY <1>3, <1>10
  <1> QED
    BY <1>13, <1>14 DEF lv

LEMMA NextRefines ==
  ASSUME NEW E, NEW leiden, IsLeiden(leiden, E), NEW min, NEW l \in Nat, NEW lv, IsLevel(lv, l, E)
  PROVE  /\ IsLevel(Hierarchy!NextLevel(leiden, min, lv), l + 1, E)
         /\ Refined(Hierarchy!NextLevel(leiden, min, lv), lv)
  <1> DEFINE P(p) == Hierarchy!Parts(leiden, min, lv.members[p])
             large == {p \in DOMAIN lv.members :
                         /\ Hierarchy!Cardinality(lv.members[p]) >= 2 * min
                         /\ Hierarchy!Cardinality(DOMAIN P(p) \ {-1}) >= 2}
             splits == UNION {{p} \X DOMAIN P(p) : p \in large}
             Key2(s) == Hierarchy!SubKey(s[1], s[2])
             keys == {Key2(s) : s \in splits}
             Keyed(k) == {s \in splits : Key2(s) = k}
             Earlier(s, t) == <<s[1], t[1]>> \in lv.before
                              \/ (s[1] = t[1] /\ Hierarchy!Sooner(s[2], t[2]))
             First(k) == CHOOSE s \in Keyed(k) : \A t \in Keyed(k) : ~Earlier(t, s)
             Final(k) == CHOOSE s \in Keyed(k) : \A t \in Keyed(k) : ~Earlier(s, t)
             M == [k \in keys |-> P(Final(k)[1])[Final(k)[2]]]
             Q == [k \in keys |-> Final(k)[1]]
             B == {x \in keys \X keys : Earlier(First(x[1]), First(x[2]))}
             next == Hierarchy!NextLevel(leiden, min, lv)
  <1>1. next = [members |-> M, parent |-> Q, before |-> B]
    BY DEF Hierarchy!NextLevel, Hierarchy!Splits
  <1>2. next.members = M /\ next.parent = Q /\ next.before = B
    <2> HIDE DEF M, Q, B, next
    <2> QED
      BY <1>1
  <1> HIDE DEF next
  <1>3. \A p \in DOMAIN lv.members : IsParting(P(p), lv.members[p])
    <2> SUFFICES ASSUME NEW p \in DOMAIN lv.members PROVE IsParting(P(p), lv.members[p])
      OBVIOUS
    <2>1. lv.members[p] \subseteq E
      BY DEF IsLevel
    <2>2. lv.members[p] \in SUBSET E
      BY <2>1
    <2> QED
      BY <2>2, PartsOf
  <1>4. \A p \in DOMAIN lv.members : p = <<l, p[2]>> /\ p[1] = l /\ p[2] \in Int
    <2>1. \A p \in DOMAIN lv.members : p = <<l, p[2]>> /\ p[2] \in Int
      BY DEF IsLevel
    <2>2. \A p : p = <<l, p[2]>> => p[1] = l
      OBVIOUS
    <2> QED
      BY <2>1, <2>2
  <1>5. \A s \in splits : /\ s = <<s[1], s[2]>>
                          /\ s[1] \in DOMAIN lv.members
                          /\ s[2] \in DOMAIN P(s[1])
                          /\ \A c \in DOMAIN P(s[1]) : <<s[1], c>> \in splits
    <2> SUFFICES ASSUME NEW s \in splits
                 PROVE  /\ s = <<s[1], s[2]>>
                        /\ s[1] \in DOMAIN lv.members
                        /\ s[2] \in DOMAIN P(s[1])
                        /\ \A c \in DOMAIN P(s[1]) : <<s[1], c>> \in splits
      OBVIOUS
    <2>1. PICK p \in large : s \in {p} \X DOMAIN P(p)
      OBVIOUS
    <2>2. p \in DOMAIN lv.members
      OBVIOUS
    <2> HIDE DEF P, large
    <2>3. s = <<s[1], s[2]>> /\ s[1] = p /\ s[2] \in DOMAIN P(p)
      BY <2>1
    <2>4. \A c \in DOMAIN P(p) : <<p, c>> \in splits
      OBVIOUS
    <2> HIDE DEF splits
    <2> QED
      BY <2>2, <2>3, <2>4
  <1> HIDE DEF P, large, splits
  <1>6. \A s \in splits : /\ s[2] \in Int /\ -1 <= s[2] /\ s[2] + 1 < Stride
                          /\ s[1][1] = l /\ s[1][2] \in Int /\ s[1] = <<l, s[1][2]>>
                          /\ P(s[1])[s[2]] \subseteq lv.members[s[1]]
    <2> SUFFICES ASSUME NEW s \in splits
                 PROVE  /\ s[2] \in Int /\ -1 <= s[2] /\ s[2] + 1 < Stride
                        /\ s[1][1] = l /\ s[1][2] \in Int /\ s[1] = <<l, s[1][2]>>
                        /\ P(s[1])[s[2]] \subseteq lv.members[s[1]]
      OBVIOUS
    <2>1. IsParting(P(s[1]), lv.members[s[1]]) /\ s[2] \in DOMAIN P(s[1])
      BY <1>3, <1>5
    <2>2. s[2] \in Int /\ -1 <= s[2] /\ s[2] + 1 < Stride
      BY <2>1 DEF IsParting
    <2>3. P(s[1])[s[2]] \subseteq lv.members[s[1]]
      BY <2>1 DEF IsParting
    <2>4. s[1][1] = l /\ s[1][2] \in Int /\ s[1] = <<l, s[1][2]>>
      BY <1>4, <1>5
    <2> QED
      BY <2>2, <2>3, <2>4
  <1>7. \A s \in splits : Key2(s) = <<l + 1, s[2] + s[1][2] * Stride>> /\ s[2] + s[1][2] * Stride \in Int
    BY <1>6, HierarchyAssumption DEF Hierarchy!SubKey
  <1>8. \A s, t \in splits : Key2(s) = Key2(t) => s = t
    <2> SUFFICES ASSUME NEW s \in splits, NEW t \in splits, Key2(s) = Key2(t) PROVE s = t
      OBVIOUS
    <2>1. s[2] + s[1][2] * Stride = t[2] + t[1][2] * Stride
      BY <1>7
    <2>2. s[1][2] = t[1][2] /\ s[2] = t[2]
      BY <1>6, <2>1, OneKey
    <2>3. s[1] = t[1]
      BY <1>6, <2>2
    <2> QED
      BY <1>5, <2>2, <2>3
  <1> HIDE DEF Key2
  <1>9. \A s \in splits : ~Earlier(s, s)
    <2>1. \A s \in splits : <<s[1], s[1]>> \notin lv.before
      BY <1>5 DEF IsLevel
    <2>2. \A s \in splits : ~Hierarchy!Sooner(s[2], s[2])
      BY <1>6 DEF Hierarchy!Sooner
    <2> QED
      BY <2>1, <2>2
  <1> HIDE DEF Earlier
  <1>10. \A s \in splits : Keyed(Key2(s)) = {s}
    BY <1>8
  <1> HIDE DEF Keyed
  <1>11. \A s \in splits : First(Key2(s)) = s /\ Final(Key2(s)) = s
    BY <1>9, <1>10
  <1> HIDE DEF First, Final
  <1>12. \A k \in keys : \E s \in splits : k = Key2(s)
    OBVIOUS
  <1>13. \A s \in splits : Key2(s) \in keys
    OBVIOUS
  <1> HIDE DEF keys
  <1>14. \A s \in splits : /\ M[Key2(s)] = P(s[1])[s[2]]
                           /\ Q[Key2(s)] = s[1]
                           /\ <<Key2(s), Key2(s)>> \notin B
    BY <1>9, <1>11, <1>13
  <1>15. DOMAIN M = keys /\ DOMAIN Q = keys /\ B \subseteq keys \X keys
    OBVIOUS
  <1>16. keys \in SUBSET (Int \X Int)
    BY <1>7, <1>12
  <1>17. /\ \A k \in keys : M[k] \in SUBSET E
         /\ \A k \in keys : Q[k] \in DOMAIN lv.members
    <2>1. \A s \in splits : P(s[1])[s[2]] \in SUBSET E /\ s[1] \in DOMAIN lv.members
      BY <1>5, <1>6 DEF IsLevel
    <2> HIDE DEF M, Q
    <2> QED
      BY <1>12, <1>14, <2>1
  <1>18. M \in [keys -> SUBSET E] /\ Q \in [keys -> Int \X Int]
    <2>1. \A p \in DOMAIN lv.members : p \in Int \X Int
      BY <1>4
    <2>2. \A k \in keys : Q[k] \in Int \X Int
      <3> HIDE DEF Q
      <3> QED
        BY <1>17, <2>1
    <2>3. Q = [k \in keys |-> Q[k]] /\ M = [k \in keys |-> M[k]]
      OBVIOUS
    <2> HIDE DEF Q, M
    <2> QED
      BY <1>17, <2>2, <2>3
  <1> HIDE DEF M, Q, B
  <1>19. next \in Levels(E)
    <2>1. B \in SUBSET ((Int \X Int) \X (Int \X Int))
      BY <1>15, <1>16
    <2> QED
      BY <1>1, <1>16, <1>18, <2>1, LevelOf
  <1>20. \A k \in keys : k = <<l + 1, k[2]>> /\ k[2] \in Int /\ <<k, k>> \notin B
    BY <1>7, <1>12, <1>14
  <1>21. \A j, k \in keys : j # k => M[j] \intersect M[k] = {}
    <2> SUFFICES ASSUME NEW s \in splits, NEW t \in splits, s # t
                 PROVE  P(s[1])[s[2]] \intersect P(t[1])[t[2]] = {}
      BY <1>12, <1>14
    <2>1. CASE s[1] = t[1]
      <3>1. s[2] # t[2]
        BY <1>5, <2>1
      <3>2. IsParting(P(s[1]), lv.members[s[1]]) /\ s[2] \in DOMAIN P(s[1]) /\ t[2] \in DOMAIN P(s[1])
        BY <1>3, <1>5, <2>1
      <3> QED
        BY <2>1, <3>1, <3>2 DEF IsParting
    <2>2. CASE s[1] # t[1]
      <3>1. lv.members[s[1]] \intersect lv.members[t[1]] = {}
        BY <1>5, <2>2 DEF IsLevel
      <3> QED
        BY <1>6, <3>1
    <2> QED
      BY <2>1, <2>2
  <1>22. IsLevel(next, l + 1, E)
    BY <1>2, <1>15, <1>17, <1>19, <1>20, <1>21 DEF IsLevel
  <1>23. ASSUME NEW p \in DOMAIN lv.members, NEW k0 \in keys, Q[k0] = p
         PROVE  UNION {M[k] : k \in {j \in keys : Q[j] = p}} = lv.members[p]
    <2>1. PICK s \in splits : k0 = Key2(s)
      BY <1>12
    <2>2. s[1] = p
      BY <1>14, <1>23, <2>1
    <2>3. ASSUME NEW x \in lv.members[p] PROVE \E k \in keys : Q[k] = p /\ x \in M[k]
      <3>1. PICK c \in DOMAIN P(p) : x \in P(p)[c]
        BY <1>3 DEF IsParting
      <3>2. <<p, c>> \in splits
        BY <1>5, <2>2
      <3>3. <<p, c>>[1] = p /\ <<p, c>>[2] = c
        OBVIOUS
      <3>4. Key2(<<p, c>>) \in keys /\ Q[Key2(<<p, c>>)] = p /\ M[Key2(<<p, c>>)] = P(p)[c]
        BY <1>13, <1>14, <3>2, <3>3
      <3> QED
        BY <3>1, <3>4
    <2>4. ASSUME NEW k \in keys, Q[k] = p PROVE M[k] \subseteq lv.members[p]
      <3>1. PICK t \in splits : k = Key2(t)
        BY <1>12
      <3> QED
        BY <1>6, <1>14, <2>4, <3>1
    <2> QED
      BY <2>3, <2>4
  <1>24. Refined(next, lv)
    BY <1>2, <1>15, <1>17, <1>23 DEF Refined
  <1> QED
    BY <1>22, <1>24 DEF next

(* The levels one after another: each is one, and refines the one above.   *)
AreLevels(L, last, E) ==
  /\ \A l \in 0..last : IsLevel(L[l], l, E)
  /\ DOMAIN L[0].parent = {}
  /\ \A l \in 1..last : Refined(L[l], L[l - 1])

LevelsOf(leiden, min, E, last) ==
  CHOOSE f : f = [l \in 0..last |-> IF l = 0 THEN Hierarchy!FirstLevel(leiden, min, E)
                                    ELSE Hierarchy!NextLevel(leiden, min, f[l - 1])]

LEMMA LevelsRefine ==
  ASSUME NEW E, NEW leiden, IsLeiden(leiden, E), NEW min, NEW last \in Nat
  PROVE  AreLevels(LevelsOf(leiden, min, E, last), last, E)
  <1> DEFINE first == Hierarchy!FirstLevel(leiden, min, E)
             Below(lv) == Hierarchy!NextLevel(leiden, min, lv)
             After(f, l) == IF l = 0 THEN first ELSE Below(f[l - 1])
             L == CHOOSE f : f = [l \in 0..last |-> After(f, l)]
             Good == {lv \in Levels(E) : \E l \in Nat : IsLevel(lv, l, E)}
             step == [z \in Nat \X Good |-> Below(z[2])]
  <1>1. IsLevel(first, 0, E) /\ DOMAIN first.parent = {}
    BY FirstIsLevel
  <1>2. \A lv, l : l \in Nat /\ IsLevel(lv, l, E) => IsLevel(Below(lv), l + 1, E) /\ Refined(Below(lv), lv)
    BY NextRefines
  <1> HIDE DEF first, Below
  <1>3. \A lv, l : l \in Nat /\ IsLevel(lv, l, E) => lv \in Good
    BY DEF IsLevel
  <1>4. first \in Good
    BY <1>1, <1>3
  <1>5. \A lv \in Good : Below(lv) \in Good
    <2> SUFFICES ASSUME NEW lv \in Good PROVE Below(lv) \in Good
      OBVIOUS
    <2>1. PICK l \in Nat : IsLevel(lv, l, E)
      OBVIOUS
    <2>2. l + 1 \in Nat /\ IsLevel(Below(lv), l + 1, E)
      BY <1>2, <2>1
    <2> HIDE DEF Good
    <2> QED
      BY <1>3, <2>2
  <1> HIDE DEF Good
  <1>6. PICK F : IsIteration(F, Good, first, step)
    <2>1. step \in [Nat \X Good -> Good]
      BY <1>5
    <2> HIDE DEF step
    <2> QED
      BY <1>4, <2>1, Iterates
  <1>7. F \in [Nat -> Good] /\ F[0] = first /\ \A l \in Nat : F[l + 1] = Below(F[l])
    <2>1. F \in [Nat -> Good] /\ F[0] = first /\ \A l \in Nat : F[l + 1] = step[<<l, F[l]>>]
      BY <1>6 DEF IsIteration
    <2>2. \A l \in Nat : step[<<l, F[l]>>] = Below(F[l])
      BY <2>1
    <2> HIDE DEF step
    <2> QED
      BY <2>1, <2>2
  <1> HIDE DEF step
  <1> DEFINE G == [l \in 0..last |-> F[l]]
  <1>8. \A l \in 0..last : G[l] = After(G, l)
    <2> SUFFICES ASSUME NEW l \in 0..last PROVE G[l] = After(G, l)
      OBVIOUS
    <2>1. CASE l = 0
      BY <1>7, <2>1
    <2>2. CASE l # 0
      <3>1. l - 1 \in Nat /\ l - 1 \in 0..last /\ (l - 1) + 1 = l
        BY <2>2
      <3>2. F[(l - 1) + 1] = Below(F[l - 1])
        BY <1>7, <3>1
      <3>3. G[l] = F[l] /\ G[l - 1] = F[l - 1]
        BY <3>1
      <3> HIDE DEF G
      <3> QED
        BY <2>2, <3>1, <3>2, <3>3
    <2> QED
      BY <2>1, <2>2
  <1>9. L = [l \in 0..last |-> After(L, l)]
    <2> HIDE DEF After
    <2>1. G = [l \in 0..last |-> After(G, l)]
      BY <1>8
    <2> HIDE DEF G
    <2> QED
      BY <2>1
  <1> HIDE DEF L, G
  <1>10. L[0] = first
    BY <1>9
  <1>11. ASSUME NEW l \in Nat, l + 1 \in 0..last PROVE L[l + 1] = Below(L[l])
    <2>1. L[l + 1] = After(L, l + 1)
      <3> HIDE DEF After
      <3> QED
        BY <1>9, <1>11
    <2>2. l + 1 # 0 /\ (l + 1) - 1 = l
      OBVIOUS
    <2> QED
      BY <2>1, <2>2
  <1> DEFINE S == {l \in Nat : l \in 0..last => IsLevel(L[l], l, E)}
  <1>12. 0 \in S
    BY <1>1, <1>10
  <1>13. ASSUME NEW l \in Nat, l \in S PROVE l + 1 \in S
    <2> SUFFICES ASSUME l + 1 \in 0..last PROVE IsLevel(L[l + 1], l + 1, E)
      OBVIOUS
    <2>1. l \in 0..last
      OBVIOUS
    <2>2. IsLevel(L[l], l, E)
      BY <1>13, <2>1
    <2> QED
      BY <1>2, <1>11, <2>2
  <1>14. \A l \in 0..last : IsLevel(L[l], l, E)
    <2>1. Nat \subseteq S
      <3> HIDE DEF S
      <3> QED
        BY <1>12, <1>13, Induction
    <2> QED
      BY <2>1
  <1>15. ASSUME NEW l \in 1..last PROVE Refined(L[l], L[l - 1])
    <2>1. l - 1 \in Nat /\ l - 1 \in 0..last /\ (l - 1) + 1 = l /\ l \in 0..last
      OBVIOUS
    <2>2. L[(l - 1) + 1] = Below(L[l - 1])
      BY <1>11, <2>1
    <2>3. IsLevel(L[l - 1], l - 1, E)
      BY <1>14, <2>1
    <2>4. Refined(Below(L[l - 1]), L[l - 1])
      BY <1>2, <2>1, <2>3
    <2> QED
      BY <2>1, <2>2, <2>4
  <1>16. AreLevels(L, last, E)
    BY <1>1, <1>10, <1>14, <1>15 DEF AreLevels
  <1> QED
    BY <1>16 DEF LevelsOf, L, first, Below

(* A hierarchy is its levels: of two keys, each is of the level it names.  *)
Together(L, last) ==
  [members |-> [k \in UNION {DOMAIN L[l].members : l \in 0..last} |-> L[k[1]].members[k]],
   parent  |-> [k \in UNION {DOMAIN L[l].parent : l \in 0..last} |-> L[k[1]].parent[k]]]

IsRefining(h) ==
  /\ \A x \in DOMAIN h.parent : h.parent[x][1] = x[1] - 1 /\ h.parent[x] \in DOMAIN h.members
  /\ \A k \in DOMAIN h.members :
       LET C == {x \in DOMAIN h.parent : h.parent[x] = k}
       IN  C # {} => UNION {h.members[x] : x \in C} = h.members[k]
  /\ \A x, y \in DOMAIN h.members :
       x # y /\ x[1] = y[1] => h.members[x] \intersect h.members[y] = {}

LEMMA LevelsTogether ==
  ASSUME NEW E, NEW last \in Nat, NEW L, AreLevels(L, last, E)
  PROVE  IsRefining(Together(L, last))
  <1> DEFINE K == UNION {DOMAIN L[l].members : l \in 0..last}
             C == UNION {DOMAIN L[l].parent : l \in 0..last}
             M == [k \in K |-> L[k[1]].members[k]]
             Q == [k \in C |-> L[k[1]].parent[k]]
             h == Together(L, last)
  <1>1. h.members = M /\ h.parent = Q
    <2>1. h = [members |-> M, parent |-> Q]
      BY DEF Together
    <2> HIDE DEF M, Q, h
    <2> QED
      BY <2>1
  <1>2. \A l \in 0..last : \A k \in DOMAIN L[l].members : k[1] = l
    <2>1. \A l \in 0..last : \A k \in DOMAIN L[l].members : k = <<l, k[2]>>
      BY DEF AreLevels, IsLevel
    <2>2. \A l, k : k = <<l, k[2]>> => k[1] = l
      OBVIOUS
    <2> QED
      BY <2>1, <2>2
  <1>3. \A l \in 0..last : \A k \in DOMAIN L[l].members : k \in DOMAIN M /\ M[k] = L[l].members[k]
    BY <1>2
  <1>4. \A k \in DOMAIN M : \E l \in 0..last : k \in DOMAIN L[l].members
    OBVIOUS
  <1>5. \A l \in 0..last : \A k \in DOMAIN L[l].parent :
          l \in 1..last /\ k \in DOMAIN L[l].members /\ L[l].parent[k] \in DOMAIN L[l - 1].members
    <2> SUFFICES ASSUME NEW l \in 0..last, NEW k \in DOMAIN L[l].parent
                 PROVE  l \in 1..last /\ k \in DOMAIN L[l].members
                        /\ L[l].parent[k] \in DOMAIN L[l - 1].members
      OBVIOUS
    <2>1. l # 0
      BY DEF AreLevels
    <2>2. l \in 1..last
      BY <2>1
    <2>3. Refined(L[l], L[l - 1])
      BY <2>2 DEF AreLevels
    <2> QED
      BY <2>2, <2>3 DEF Refined
  <1>6. \A l \in 0..last : \A k \in DOMAIN L[l].parent : k \in DOMAIN Q /\ Q[k] = L[l].parent[k]
    <2> SUFFICES ASSUME NEW l \in 0..last, NEW k \in DOMAIN L[l].parent
                 PROVE  k \in DOMAIN Q /\ Q[k] = L[l].parent[k]
      OBVIOUS
    <2>1. k[1] = l
      BY <1>2, <1>5
    <2> QED
      BY <2>1
  <1>7. \A k \in DOMAIN Q : \E l \in 0..last : k \in DOMAIN L[l].parent
    OBVIOUS
  <1> HIDE DEF K, C, M, Q, h
  <1>8. ASSUME NEW x \in DOMAIN Q
        PROVE  /\ x[1] \in 1..last /\ x \in DOMAIN L[x[1]].parent
               /\ Q[x] \in DOMAIN L[x[1] - 1].members
               /\ Q[x][1] = x[1] - 1 /\ Q[x] \in DOMAIN M
    <2>1. PICK l \in 0..last : x \in DOMAIN L[l].parent
      BY <1>7
    <2>2. l \in 1..last /\ x[1] = l /\ Q[x] = L[l].parent[x] /\ Q[x] \in DOMAIN L[l - 1].members
      BY <1>2, <1>5, <1>6, <2>1
    <2>3. l - 1 \in 0..last
      BY <2>2
    <2> QED
      BY <1>2, <1>3, <2>1, <2>2, <2>3
  <1>9. ASSUME NEW k \in DOMAIN M, NEW x0 \in DOMAIN Q, Q[x0] = k
        PROVE  UNION {M[x] : x \in {y \in DOMAIN Q : Q[y] = k}} = M[k]
    <2> DEFINE m == x0[1]
    <2>1. m \in 1..last /\ x0 \in DOMAIN L[m].parent /\ k \in DOMAIN L[m - 1].members /\ k[1] = m - 1
      BY <1>8, <1>9
    <2>2. m \in 0..last /\ m - 1 \in 0..last
      BY <2>1
    <2>3. ASSUME NEW y PROVE y \in DOMAIN Q /\ Q[y] = k <=> y \in DOMAIN L[m].parent /\ L[m].parent[y] = k
      <3>1. ASSUME y \in DOMAIN Q, Q[y] = k PROVE y \in DOMAIN L[m].parent /\ L[m].parent[y] = k
        <4>1. y[1] \in 1..last /\ y \in DOMAIN L[y[1]].parent /\ k[1] = y[1] - 1
          BY <1>8, <3>1
        <4>2. y[1] = m
          <5>1. \A i, j \in 1..last : i - 1 = j - 1 => i = j
            OBVIOUS
          <5> QED
            BY <2>1, <4>1, <5>1
        <4> QED
          BY <1>6, <2>2, <3>1, <4>1, <4>2
      <3>2. ASSUME y \in DOMAIN L[m].parent, L[m].parent[y] = k PROVE y \in DOMAIN Q /\ Q[y] = k
        BY <1>6, <2>2, <3>2
      <3> QED
        BY <3>1, <3>2
    <2>4. \A y \in DOMAIN L[m].parent : M[y] = L[m].members[y]
      BY <1>3, <1>5, <2>2
    <2>5. M[k] = L[m - 1].members[k]
      BY <1>3, <2>1, <2>2
    <2>6. Refined(L[m], L[m - 1])
      BY <2>1 DEF AreLevels
    <2> HIDE DEF m
    <2> DEFINE Cm == {y \in DOMAIN L[m].parent : L[m].parent[y] = k}
    <2>7. x0 \in Cm
      BY <1>9, <2>3
    <2>8. UNION {L[m].members[y] : y \in Cm} = L[m - 1].members[k]
      BY <2>1, <2>6, <2>7 DEF Refined
    <2>9. {y \in DOMAIN Q : Q[y] = k} = Cm
      BY <2>3
    <2>10. \A y \in Cm : M[y] = L[m].members[y]
      BY <2>4
    <2> HIDE DEF Cm
    <2>11. {M[y] : y \in Cm} = {L[m].members[y] : y \in Cm}
      BY <2>10
    <2> QED
      BY <2>5, <2>8, <2>9, <2>11
  <1>10. ASSUME NEW x \in DOMAIN M, NEW y \in DOMAIN M, x # y, x[1] = y[1]
         PROVE  M[x] \intersect M[y] = {}
    <2>1. PICK l \in 0..last : x \in DOMAIN L[l].members
      BY <1>4
    <2>2. PICK m \in 0..last : y \in DOMAIN L[m].members
      BY <1>4
    <2>3. l = m
      BY <1>2, <1>10, <2>1, <2>2
    <2>4. M[x] = L[l].members[x] /\ M[y] = L[l].members[y]
      BY <1>3, <2>1, <2>2, <2>3
    <2>5. L[l].members[x] \intersect L[l].members[y] = {}
      BY <1>10, <2>1, <2>2, <2>3 DEF AreLevels, IsLevel
    <2> QED
      BY <2>4, <2>5
  <1> QED
    <2>1. \A k \in DOMAIN M :
            LET D == {x \in DOMAIN Q : Q[x] = k}
            IN  D # {} => UNION {M[x] : x \in D} = M[k]
      BY <1>9
    <2>2. /\ \A x \in DOMAIN Q : Q[x][1] = x[1] - 1 /\ Q[x] \in DOMAIN M
          /\ \A x, y \in DOMAIN M : x # y /\ x[1] = y[1] => M[x] \intersect M[y] = {}
      BY <1>8, <1>10
    <2> QED
      BY <1>1, <2>1, <2>2 DEF IsRefining, h

(* The children of a community partition it, at every level, in any graph, *)
(* for any table of what Leiden finds in it, number of levels and minimum  *)
(* size: the invariant HierarchyRefines of the detector.                   *)
THEOREM HierarchyIsRefined == ComputeSpec => []HierarchyRefines
  <1>1. ComputesInv => HierarchyRefines
    <2> SUFFICES ASSUME ComputesInv, Computed("hierarchy"),
                        \A k \in DOMAIN input.leiden : Len(input.leiden[k]) < Stride
                 PROVE  HierarchyRefines
      BY DEF HierarchyRefines
    <2>1. /\ input \in HierarchyInputs
          /\ output[1] = Hierarchy!DetectHierarchical(input.leiden, input.entities, input.minSize,
                                                      input.maxLevels)
      BY DEF ComputesInv, IsComputed, Computed
    <2>2. IsLeiden(input.leiden, input.entities)
      <3>1. /\ input.leiden \in [SUBSET input.entities -> Seq(SUBSET input.entities)]
            /\ \A S \in SUBSET input.entities :
                 /\ UNION {input.leiden[S][c] : c \in DOMAIN input.leiden[S]} = S
                 /\ \A c, d \in DOMAIN input.leiden[S] :
                      c # d => input.leiden[S][c] \intersect input.leiden[S][d] = {}
        BY <2>1, HierarchyAssumption
      <3>2. \A S \in SUBSET input.entities : Len(input.leiden[S]) < Stride
        BY <3>1
      <3> QED
        BY <3>1, <3>2 DEF IsLeiden
    <2> DEFINE n == input.maxLevels
               last == IF n <= 1 THEN 0 ELSE n - 1
               L == LevelsOf(input.leiden, input.minSize, input.entities, last)
    <2>3. Hierarchy!DetectHierarchical(input.leiden, input.entities, input.minSize, n) = Together(L, last)
      BY DEF Hierarchy!DetectHierarchical, LevelsOf, Together
    <2>4. last \in Nat
      <3>1. n \in Nat
        BY <2>1, HierarchyAssumption
      <3> HIDE DEF n
      <3> QED
        BY <3>1
    <2> HIDE DEF last
    <2>5. AreLevels(L, last, input.entities)
      BY <2>2, <2>4, LevelsRefine
    <2> HIDE DEF L
    <2>6. output[1] = Together(L, last)
      BY <2>1, <2>3
    <2>7. IsRefining(output[1])
      BY <2>4, <2>5, <2>6, LevelsTogether
    <2> QED
      BY <2>7 DEF HierarchyRefines, IsRefining
  <1> QED
    BY <1>1, Computes, PTL

=============================================================================
