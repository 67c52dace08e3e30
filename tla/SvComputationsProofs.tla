------------------------- MODULE SvComputationsProofs -------------------------
(***************************************************************************)
(* That the edges of the SystemVerilog passes are what their modules do:   *)
(* the dataflow edges of every process, and the transitions of every state *)
(* machine.                                                                *)
(***************************************************************************)
EXTENDS ComputationsProofs

(* The dataflow of a statement.  What decides on the signals of a set: the *)
(* assignments to them, and the branches that these are in.                *)
Env == [Signal -> BOOLEAN]

IsState(now) == now.env \in Env /\ now.taken \subseteq Nat \X Nat /\ now \in [env: Env, taken: SUBSET (Nat \X Nat)]

Sensitive(s, S) == {k \in Dataflow!Assigns(s) : \E j \in DOMAIN s[k].targets : s[k].targets[j].base \in S}

Ways(s, S) == UNION {s[k].under : k \in Sensitive(s, S)}

Confined(s, S) ==
  \A k \in Sensitive(s, S) : s[k].rhs \subseteq S /\ \A x \in s[k].under : s[x[1]].test \subseteq S

(* Two states in which the signals of the set do and will agree.           *)
Alike(s, S, a, b) ==
  /\ \A z \in S : a.env[z] = b.env[z]
  /\ \A x \in Ways(s, S) : x \in a.taken <=> x \in b.taken

LEMMA SameParity ==
  ASSUME NEW e, NEW f, NEW S, \A x \in S : e[x] = f[x]
  PROVE  Dataflow!Parity(e, S) = Dataflow!Parity(f, S)
  <1>1. {x \in S : e[x]} = {x \in S : f[x]}
    OBVIOUS
  <1> QED
    BY <1>1 DEF Dataflow!Parity

LEMMA Assigned ==
  ASSUME NEW e \in Env, NEW a
  PROVE  /\ Dataflow!Assign(e, a) \in Env
         /\ \A z \in Signal : Dataflow!Assign(e, a)[z] = IF \E j \in DOMAIN a.targets : a.targets[j].base = z
                                                         THEN Dataflow!Parity(e, a.rhs) ELSE e[z]
  <1> DEFINE A == Dataflow!Assign(e, a)
             Hit(z) == \E j \in DOMAIN a.targets : a.targets[j].base = z
  <1>1. \A z : (\E t \in Dataflow!ToSet(a.targets) : t.base = z) <=> Hit(z)
    BY DEF Dataflow!ToSet
  <1>2. DOMAIN e = Signal /\ \A z \in Signal : e[z] \in BOOLEAN
    BY DEF Env
  <1>3. A = [z \in Signal |-> IF Hit(z) THEN Dataflow!Parity(e, a.rhs) ELSE e[z]]
    <2> HIDE DEF Hit
    <2> QED
      BY <1>1, <1>2 DEF Dataflow!Assign
  <1>4. Dataflow!Parity(e, a.rhs) \in BOOLEAN
    BY DEF Dataflow!Parity
  <1> HIDE DEF A, Hit
  <1>5. A \in Env /\ \A z \in Signal : A[z] = IF Hit(z) THEN Dataflow!Parity(e, a.rhs) ELSE e[z]
    BY <1>2, <1>3, <1>4 DEF Env
  <1> QED
    BY <1>5 DEF A, Hit

LEMMA Stepped ==
  ASSUME NEW s, NEW i \in Nat, NEW now, IsState(now)
  PROVE  LET then == Dataflow!Step(s, i, now)
             c == IF Dataflow!Parity(now.env, s[i].test) THEN 1 ELSE 0
         IN  /\ IsState(then)
             /\ ~(s[i].under \subseteq now.taken) => then = now
             /\ s[i].under \subseteq now.taken /\ s[i].kind = "assign" =>
                  then.env = Dataflow!Assign(now.env, s[i]) /\ then.taken = now.taken
             /\ s[i].under \subseteq now.taken /\ s[i].kind # "assign" =>
                  then.env = now.env /\ then.taken = now.taken \union {<<i, c>>}
  <1> DEFINE then == Dataflow!Step(s, i, now)
             c == IF Dataflow!Parity(now.env, s[i].test) THEN 1 ELSE 0
             e == Dataflow!Assign(now.env, s[i])
  <1>1. CASE ~(s[i].under \subseteq now.taken)
    BY <1>1 DEF Dataflow!Step
  <1>2. CASE s[i].under \subseteq now.taken /\ s[i].kind = "assign"
    <2>1. then = [env |-> e, taken |-> now.taken]
      BY <1>2 DEF Dataflow!Step
    <2>2. e \in Env
      BY Assigned DEF IsState
    <2> HIDE DEF then, e
    <2>3. then.env = e /\ then.taken = now.taken /\ IsState(then)
      BY <2>1, <2>2 DEF IsState
    <2> QED
      BY <1>2, <2>3 DEF then, e
  <1>3. CASE s[i].under \subseteq now.taken /\ s[i].kind # "assign"
    <2>1. then = [env |-> now.env, taken |-> now.taken \union {<<i, c>>}]
      BY <1>3 DEF Dataflow!Step
    <2>2. c \in Nat
      OBVIOUS
    <2> HIDE DEF then, c
    <2>3. then.env = now.env /\ then.taken = now.taken \union {<<i, c>>} /\ IsState(then)
      BY <2>1, <2>2 DEF IsState
    <2> QED
      BY <1>3, <2>3 DEF then, c
  <1> QED
    BY <1>1, <1>2, <1>3

LEMMA StaysAlike ==
  ASSUME NEW s, Dataflow!IsStatement(s), NEW S \in SUBSET Signal, Confined(s, S), NEW i \in DOMAIN s,
         NEW a, IsState(a), NEW b, IsState(b), Alike(s, S, a, b)
  PROVE  Alike(s, S, Dataflow!Step(s, i, a), Dataflow!Step(s, i, b))
  <1> DEFINE u == Dataflow!Step(s, i, a)
             v == Dataflow!Step(s, i, b)
             W == Ways(s, S)
             c == IF Dataflow!Parity(a.env, s[i].test) THEN 1 ELSE 0
             d == IF Dataflow!Parity(b.env, s[i].test) THEN 1 ELSE 0
  <1>0. i \in Nat
    BY LenProperties DEF Dataflow!IsStatement
  <1>1. /\ ~(s[i].under \subseteq a.taken) => u = a
        /\ s[i].under \subseteq a.taken /\ s[i].kind = "assign" =>
             u.env = Dataflow!Assign(a.env, s[i]) /\ u.taken = a.taken
        /\ s[i].under \subseteq a.taken /\ s[i].kind # "assign" =>
             u.env = a.env /\ u.taken = a.taken \union {<<i, c>>}
    BY <1>0, Stepped
  <1>2. /\ ~(s[i].under \subseteq b.taken) => v = b
        /\ s[i].under \subseteq b.taken /\ s[i].kind = "assign" =>
             v.env = Dataflow!Assign(b.env, s[i]) /\ v.taken = b.taken
        /\ s[i].under \subseteq b.taken /\ s[i].kind # "assign" =>
             v.env = b.env /\ v.taken = b.taken \union {<<i, d>>}
    BY <1>0, Stepped
  <1> SUFFICES Alike(s, S, u, v)
    OBVIOUS
  <1> HIDE DEF u, v
  <1>3. /\ \A z \in S : a.env[z] = b.env[z]
        /\ \A x \in W : x \in a.taken <=> x \in b.taken
    BY DEF Alike
  <1>4. a.env \in Env /\ b.env \in Env
    BY DEF IsState
  <1>5. CASE s[i].kind = "assign"
    <2> DEFINE Hit(z) == \E j \in DOMAIN s[i].targets : s[i].targets[j].base = z
    <2>1. i \in Dataflow!Assigns(s)
      BY <1>5 DEF Dataflow!Assigns
    <2>2. u.taken = a.taken /\ v.taken = b.taken
      BY <1>1, <1>2, <1>5
    <2>3. /\ \A z \in S : Dataflow!Assign(a.env, s[i])[z] = IF Hit(z) THEN Dataflow!Parity(a.env, s[i].rhs) ELSE a.env[z]
          /\ \A z \in S : Dataflow!Assign(b.env, s[i])[z] = IF Hit(z) THEN Dataflow!Parity(b.env, s[i].rhs) ELSE b.env[z]
      <3>1. \A z \in Signal : Dataflow!Assign(a.env, s[i])[z] = IF Hit(z) THEN Dataflow!Parity(a.env, s[i].rhs) ELSE a.env[z]
        BY <1>4, Assigned
      <3>2. \A z \in Signal : Dataflow!Assign(b.env, s[i])[z] = IF Hit(z) THEN Dataflow!Parity(b.env, s[i].rhs) ELSE b.env[z]
        BY <1>4, Assigned
      <3> HIDE DEF Hit
      <3> QED
        BY <3>1, <3>2
    <2>4. CASE i \in Sensitive(s, S)
      <3>1. s[i].under \subseteq W
        BY <2>4 DEF Ways
      <3>2. s[i].under \subseteq a.taken <=> s[i].under \subseteq b.taken
        BY <1>3, <3>1
      <3>3. Dataflow!Parity(a.env, s[i].rhs) = Dataflow!Parity(b.env, s[i].rhs)
        <4>1. s[i].rhs \subseteq S
          BY <2>4 DEF Confined
        <4> QED
          BY <1>3, <4>1, SameParity
      <3> HIDE DEF Hit, W
      <3>4. \A z \in S : u.env[z] = v.env[z]
        BY <1>1, <1>2, <1>3, <1>5, <2>3, <3>2, <3>3
      <3> QED
        BY <1>3, <2>2, <3>4 DEF Alike, W
    <2>5. CASE i \notin Sensitive(s, S)
      <3>1. \A z \in S : ~Hit(z)
        BY <2>1, <2>5 DEF Sensitive
      <3> HIDE DEF Hit, W
      <3>2. \A z \in S : u.env[z] = a.env[z] /\ v.env[z] = b.env[z]
        BY <1>1, <1>2, <1>5, <2>3, <3>1
      <3> QED
        BY <1>3, <2>2, <3>2 DEF Alike, W
    <2> QED
      BY <2>4, <2>5
  <1>6. CASE s[i].kind # "assign"
    <2>1. u.env = a.env /\ v.env = b.env
      BY <1>1, <1>2, <1>6
    <2>2. ASSUME NEW x \in W PROVE x \in u.taken <=> x \in v.taken
      <3>1. PICK k \in Sensitive(s, S) : x \in s[k].under
        BY DEF Ways
      <3>2. CASE x[1] # i
        <4>1. x # <<i, c>> /\ x # <<i, d>>
          BY <3>2
        <4> HIDE DEF c, d, W
        <4> QED
          BY <1>1, <1>2, <1>3, <1>6, <4>1
      <3>3. CASE x[1] = i
        <4>1. k \in DOMAIN s
          BY DEF Sensitive, Dataflow!Assigns
        <4>2. s[i].under \subseteq s[k].under
          BY <3>1, <3>3, <4>1 DEF Dataflow!IsStatement
        <4>3. s[k].under \subseteq W
          BY DEF Ways
        <4>4. s[i].under \subseteq a.taken <=> s[i].under \subseteq b.taken
          BY <1>3, <4>2, <4>3
        <4>5. s[i].test \subseteq S
          BY <3>1, <3>3 DEF Confined
        <4>6. Dataflow!Parity(a.env, s[i].test) = Dataflow!Parity(b.env, s[i].test)
          BY <1>3, <4>5, SameParity
        <4>7. c = d
          BY <4>6
        <4> HIDE DEF c, d, W
        <4> QED
          BY <1>1, <1>2, <1>3, <1>6, <4>4, <4>7
      <3> QED
        BY <3>2, <3>3
    <2> HIDE DEF W
    <2> QED
      BY <1>3, <2>1, <2>2 DEF Alike, W
  <1> QED
    BY <1>5, <1>6

(* What a statement executes to is reached step by step.                   *)
AreSteps(A, s, e) ==
  /\ \A i \in 0..Len(s) : IsState(A[i])
  /\ A[0] = [env |-> e, taken |-> {}]
  /\ \A i \in 1..Len(s) : A[i] = Dataflow!Step(s, i, A[i - 1])
  /\ Dataflow!Execute(s, e) = A[Len(s)].env

LEMMA ExecutesInSteps ==
  ASSUME NEW s, Len(s) \in Nat, NEW e \in Env
  PROVE  \E A : AreSteps(A, s, e)
  <1> DEFINE n == Len(s)
             first == [env |-> e, taken |-> {}]
             State == [env: Env, taken: SUBSET (Nat \X Nat)]
             After(f, i) == IF i = 0 THEN first ELSE Dataflow!Step(s, i, f[i - 1])
             L == CHOOSE f : f = [i \in 0..n |-> After(f, i)]
             step == [z \in Nat \X State |-> Dataflow!Step(s, z[1] + 1, z[2])]
  <1>1. \A now \in State : IsState(now)
    BY DEF IsState
  <1>2. \A now \in State, i \in Nat : Dataflow!Step(s, i, now) \in State
    <2> SUFFICES ASSUME NEW now \in State, NEW i \in Nat PROVE Dataflow!Step(s, i, now) \in State
      OBVIOUS
    <2>1. IsState(Dataflow!Step(s, i, now))
      BY <1>1, Stepped
    <2> QED
      BY <2>1 DEF IsState
  <1>3. first \in State
    OBVIOUS
  <1>4. Dataflow!Execute(s, e) = L[n].env
    BY DEF Dataflow!Execute
  <1> HIDE DEF State, first
  <1>5. PICK F : IsIteration(F, State, first, step)
    <2>1. step \in [Nat \X State -> State]
      BY <1>2
    <2> HIDE DEF step
    <2> QED
      BY <1>3, <2>1, Iterates
  <1>6. F \in [Nat -> State] /\ F[0] = first /\ \A i \in Nat : F[i + 1] = Dataflow!Step(s, i + 1, F[i])
    <2>1. F \in [Nat -> State] /\ F[0] = first /\ \A i \in Nat : F[i + 1] = step[<<i, F[i]>>]
      BY <1>5 DEF IsIteration
    <2>2. \A i \in Nat : step[<<i, F[i]>>] = Dataflow!Step(s, i + 1, F[i])
      BY <2>1
    <2> HIDE DEF step
    <2> QED
      BY <2>1, <2>2
  <1> HIDE DEF step
  <1>7. \A i \in 1..n : F[i] = Dataflow!Step(s, i, F[i - 1])
    <2> SUFFICES ASSUME NEW i \in 1..n PROVE F[i] = Dataflow!Step(s, i, F[i - 1])
      OBVIOUS
    <2>1. i - 1 \in Nat /\ (i - 1) + 1 = i
      OBVIOUS
    <2>2. F[(i - 1) + 1] = Dataflow!Step(s, (i - 1) + 1, F[i - 1])
      BY <1>6, <2>1
    <2> QED
      BY <2>1, <2>2
  <1> DEFINE G == [i \in 0..n |-> F[i]]
  <1>8. \A i \in 0..n : G[i] = After(G, i)
    <2> SUFFICES ASSUME NEW i \in 0..n PROVE G[i] = After(G, i)
      OBVIOUS
    <2>1. CASE i = 0
      BY <1>6, <2>1
    <2>2. CASE i # 0
      <3>1. i \in 1..n /\ i - 1 \in 0..n
        BY <2>2
      <3>2. G[i] = F[i] /\ G[i - 1] = F[i - 1]
        BY <3>1
      <3> HIDE DEF G
      <3> QED
        BY <1>7, <2>2, <3>1, <3>2
    <2> QED
      BY <2>1, <2>2
  <1>9. L = [i \in 0..n |-> After(L, i)]
    <2> HIDE DEF After
    <2>1. G = [i \in 0..n |-> After(G, i)]
      BY <1>8
    <2> HIDE DEF G
    <2> QED
      BY <2>1
  <1> HIDE DEF L, G
  <1>10. L[0] = first
    BY <1>9
  <1>11. \A i \in 1..n : L[i] = Dataflow!Step(s, i, L[i - 1])
    <2> SUFFICES ASSUME NEW i \in 1..n PROVE L[i] = Dataflow!Step(s, i, L[i - 1])
      OBVIOUS
    <2>1. i \in 0..n /\ i # 0
      OBVIOUS
    <2>2. L[i] = After(L, i)
      <3> HIDE DEF After
      <3> QED
        BY <1>9, <2>1
    <2> QED
      BY <2>1, <2>2
  <1> DEFINE Q == {i \in Nat : i \in 0..n => L[i] \in State}
  <1>12. 0 \in Q
    BY <1>3, <1>10
  <1>13. ASSUME NEW i \in Nat, i \in Q PROVE i + 1 \in Q
    <2> SUFFICES ASSUME i + 1 \in 0..n PROVE L[i + 1] \in State
      OBVIOUS
    <2>1. i \in 0..n /\ i + 1 \in 1..n /\ (i + 1) - 1 = i
      OBVIOUS
    <2>2. L[i + 1] = Dataflow!Step(s, i + 1, L[i])
      BY <1>11, <2>1
    <2> QED
      BY <1>2, <1>13, <2>1, <2>2
  <1>14. \A i \in 0..n : L[i] \in State
    <2>1. Nat \subseteq Q
      <3> HIDE DEF Q
      <3> QED
        BY <1>12, <1>13, Induction
    <2> QED
      BY <2>1
  <1>15. AreSteps(L, s, e)
    BY <1>1, <1>4, <1>10, <1>11, <1>14 DEF AreSteps, first
  <1> QED
    BY <1>15

(* Signals that nothing outside of them decides on.                        *)
LEMMA Insulated ==
  ASSUME NEW s, Dataflow!IsStatement(s), NEW S \in SUBSET Signal, Confined(s, S),
         NEW e \in Env, NEW y \in Signal \ S, NEW x \in S
  PROVE  ~Dataflow!Influences(s, y, x, e)
  <1> DEFINE f == [e EXCEPT ![y] = ~@]
             n == Len(s)
  <1>1. n \in Nat /\ DOMAIN s = 1..n
    BY LenProperties DEF Dataflow!IsStatement
  <1>2. f \in Env /\ \A z \in S : e[z] = f[z]
    BY DEF Env
  <1>3. ~Dataflow!Influences(s, y, x, e) <=> Dataflow!Execute(s, e)[x] = Dataflow!Execute(s, f)[x]
    BY DEF Dataflow!Influences
  <1> HIDE DEF f
  <1>4. PICK A : AreSteps(A, s, e)
    BY <1>1, ExecutesInSteps
  <1>5. PICK B : AreSteps(B, s, f)
    BY <1>1, <1>2, ExecutesInSteps
  <1> DEFINE Q == {i \in Nat : i \in 0..n => Alike(s, S, A[i], B[i])}
  <1>6. 0 \in Q
    <2>1. A[0] = [env |-> e, taken |-> {}] /\ B[0] = [env |-> f, taken |-> {}]
      BY <1>4, <1>5 DEF AreSteps
    <2>2. A[0].env = e /\ B[0].env = f /\ A[0].taken = {} /\ B[0].taken = {}
      BY <2>1
    <2>3. Alike(s, S, A[0], B[0])
      BY <1>2, <2>2 DEF Alike
    <2> QED
      BY <2>3
  <1>7. ASSUME NEW i \in Nat, i \in Q PROVE i + 1 \in Q
    <2> SUFFICES ASSUME i + 1 \in 0..n PROVE Alike(s, S, A[i + 1], B[i + 1])
      OBVIOUS
    <2>1. i \in 0..n /\ i + 1 \in 1..n /\ (i + 1) - 1 = i
      OBVIOUS
    <2>2. /\ A[i + 1] = Dataflow!Step(s, i + 1, A[i]) /\ IsState(A[i])
          /\ B[i + 1] = Dataflow!Step(s, i + 1, B[i]) /\ IsState(B[i])
      BY <1>4, <1>5, <2>1 DEF AreSteps
    <2>3. i + 1 \in DOMAIN s /\ Alike(s, S, A[i], B[i])
      BY <1>1, <1>7, <2>1
    <2> HIDE DEF n
    <2> QED
      BY <2>2, <2>3, StaysAlike
  <1>8. Alike(s, S, A[n], B[n])
    <2>1. Nat \subseteq Q
      <3> HIDE DEF Q
      <3> QED
        BY <1>6, <1>7, Induction
    <2>2. n \in 0..n
      BY <1>1
    <2> QED
      BY <1>1, <2>1, <2>2
  <1>9. Dataflow!Execute(s, e) = A[n].env /\ Dataflow!Execute(s, f) = B[n].env
    BY <1>4, <1>5 DEF AreSteps
  <1> QED
    BY <1>3, <1>8, <1>9 DEF Alike

Uncased(s) == {i \in Dataflow!Assigns(s) : ~Dataflow!InCase(s, i)}

Entered(s) == {x \in Dataflow!Branches(s) : s[x[1]].kind = "if" /\ ~Dataflow!InCase(s, x[1])}

Direct(s, i) == Dataflow!LhsNames(s[i]) \X s[i].rhs

Decided(s, x) == Dataflow!LhsInBranch(s, x) \X s[x[1]].test

LEMMA ReadsAre ==
  ASSUME NEW s
  PROVE  /\ \A r \in Dataflow!ReadsOf(s) : (\E i \in Uncased(s) : r \in Direct(s, i))
                                          \/ (\E x \in Entered(s) : r \in Decided(s, x))
         /\ \A i \in Uncased(s) : Direct(s, i) \subseteq Dataflow!ReadsOf(s)
         /\ \A x \in Entered(s) : Decided(s, x) \subseteq Dataflow!ReadsOf(s)
  <1> DEFINE A == UNION {Direct(s, i) : i \in Uncased(s)}
             B == UNION {Decided(s, x) : x \in Entered(s)}
  <1>1. Dataflow!ReadsOf(s) = A \union B
    BY Zenon DEF Dataflow!ReadsOf, Uncased, Entered, Direct, Decided
  <1>2. /\ \A r \in A : \E i \in Uncased(s) : r \in Direct(s, i)
        /\ \A i \in Uncased(s) : Direct(s, i) \subseteq A
    OBVIOUS
  <1>3. /\ \A r \in B : \E x \in Entered(s) : r \in Decided(s, x)
        /\ \A x \in Entered(s) : Decided(s, x) \subseteq B
    OBVIOUS
  <1> HIDE DEF A, B
  <1> QED
    BY <1>1, <1>2, <1>3

(* A set closed under reads is such a one, where there is no case.         *)
LEMMA ClosedIsConfined ==
  ASSUME NEW s, Dataflow!IsStatement(s), ~Dataflow!HasCase(s), NEW S,
         \A r \in Dataflow!Reads(s) : r[1] \in S => r[2] \in S
  PROVE  Confined(s, S)
  <1> SUFFICES ASSUME NEW k \in Sensitive(s, S)
               PROVE  s[k].rhs \subseteq S /\ \A x \in s[k].under : s[x[1]].test \subseteq S
    BY DEF Confined
  <1>1. k \in Dataflow!Assigns(s) /\ k \in DOMAIN s
    BY DEF Sensitive, Dataflow!Assigns
  <1>2. PICK j \in DOMAIN s[k].targets : s[k].targets[j].base \in S
    BY DEF Sensitive
  <1> DEFINE base == s[k].targets[j].base
  <1>3. base \in Dataflow!LhsNames(s[k])
    BY DEF Dataflow!LhsNames, Dataflow!ToSet
  <1>4. \A x \in s[k].under : x[1] \in DOMAIN s /\ x[1] \in Nat /\ s[x[1]].kind # "assign"
    BY <1>1, LenProperties DEF Dataflow!IsStatement
  <1>5. \A i \in DOMAIN s : s[i].kind # "case"
    BY DEF Dataflow!HasCase
  <1>6. \A i \in DOMAIN s : s[i].kind # "assign" => s[i].kind = "if"
    <2>1. \A i \in DOMAIN s : s[i] \in Dataflow!Part
      BY ElementOfSeq, LenProperties DEF Dataflow!IsStatement
    <2>2. \A p \in Dataflow!Part : p.kind \in {"assign", "if", "case"}
      BY DEF Dataflow!Part
    <2> QED
      BY <1>5, <2>1, <2>2
  <1>7. \A i \in DOMAIN s : ~Dataflow!InCase(s, i)
    BY <1>5, LenProperties DEF Dataflow!InCase, Dataflow!IsStatement
  <1> HIDE DEF base
  <1>8. \A y : <<base, y>> \in Dataflow!ReadsOf(s) => y \in S
    <2> SUFFICES ASSUME NEW y, <<base, y>> \in Dataflow!ReadsOf(s), y # base PROVE y \in S
      BY <1>2 DEF base
    <2>1. <<base, y>>[1] = base /\ <<base, y>>[2] = y
      OBVIOUS
    <2>2. <<base, y>> \in Dataflow!Reads(s)
      BY <2>1 DEF Dataflow!Reads
    <2> QED
      BY <1>2, <2>1, <2>2 DEF base
  <1>9. s[k].rhs \subseteq S
    <2>1. \A y \in s[k].rhs : <<base, y>> \in Dataflow!ReadsOf(s)
      <3>1. k \in Uncased(s)
        BY <1>1, <1>7 DEF Uncased
      <3>2. \A y \in s[k].rhs : <<base, y>> \in Direct(s, k)
        BY <1>3 DEF Direct
      <3> QED
        BY <3>1, <3>2, ReadsAre
    <2> QED
      BY <1>8, <2>1
  <1>10. ASSUME NEW x \in s[k].under PROVE s[x[1]].test \subseteq S
    <2>1. x \in Dataflow!Branches(s) /\ s[x[1]].kind = "if" /\ ~Dataflow!InCase(s, x[1])
      BY <1>1, <1>4, <1>6, <1>7 DEF Dataflow!Branches
    <2>2. base \in Dataflow!LhsInBranch(s, x)
      BY <1>1, <1>3, <1>4, <1>5 DEF Dataflow!LhsInBranch
    <2>3. \A y \in s[x[1]].test : <<base, y>> \in Dataflow!ReadsOf(s)
      <3>1. x \in Entered(s)
        BY <2>1 DEF Entered
      <3>2. \A y \in s[x[1]].test : <<base, y>> \in Decided(s, x)
        BY <2>2 DEF Decided
      <3> QED
        BY <3>1, <3>2, ReadsAre
    <2> QED
      BY <1>8, <2>3
  <1> QED
    BY <1>9, <1>10

(* What no assignment has as its target, or no part reads, is a signal     *)
(* that nothing, or that nothing by it, is decided on.                     *)
LEMMA InfluencesDrive ==
  ASSUME NEW s, Dataflow!IsStatement(s), \A a \in Dataflow!Assignments(s) : Len(a.targets) = 1,
         NEW x \in Signal, NEW y \in Signal, x # y, NEW e \in Env, Dataflow!Influences(s, y, x, e)
  PROVE  <<y, x>> \in Dataflow!DrivesSignal(s)
  <1> DEFINE identifiers == Dataflow!Predicates(s) \union UNION {Dataflow!Operands(a) : a \in Dataflow!Assignments(s)}
             targets     == UNION {Dataflow!TargetOf(a) : a \in Dataflow!Assignments(s)}
  <1>1. \A i \in Dataflow!Assigns(s) :
          /\ s[i] \in Dataflow!Assignments(s) /\ i \in DOMAIN s
          /\ Dataflow!TargetOf(s[i]) = {s[i].targets[1].base}
          /\ Dataflow!Operands(s[i]) = s[i].rhs
          /\ DOMAIN s[i].targets = {1}
          /\ s[i].rhs \subseteq Signal
    <2> SUFFICES ASSUME NEW i \in Dataflow!Assigns(s)
                 PROVE  /\ s[i] \in Dataflow!Assignments(s) /\ i \in DOMAIN s
                        /\ Dataflow!TargetOf(s[i]) = {s[i].targets[1].base}
                        /\ Dataflow!Operands(s[i]) = s[i].rhs
                        /\ DOMAIN s[i].targets = {1}
                        /\ s[i].rhs \subseteq Signal
      OBVIOUS
    <2>1. s[i] \in Dataflow!Assignments(s) /\ i \in DOMAIN s /\ s[i].kind = "assign"
      BY DEF Dataflow!Assignments, Dataflow!Assigns
    <2>2. Len(s[i].targets) = 1
      BY <2>1
    <2>3. s[i] \in Dataflow!Part
      BY <2>1, ElementOfSeq, LenProperties DEF Dataflow!IsStatement
    <2>4. s[i].targets \in Seq(Dataflow!Target) /\ s[i].rhs \subseteq Signal
      BY <2>1, <2>3 DEF Dataflow!Part
    <2>5. DOMAIN s[i].targets = 1..1
      BY <2>2, <2>4, LenProperties
    <2>6. 1..1 = {1}
      OBVIOUS
    <2> QED
      BY <2>1, <2>2, <2>4, <2>5, <2>6 DEF Dataflow!TargetOf, Dataflow!Operands
  <1>2. \A i \in DOMAIN s : \A z \in s[i].under : z[1] \in DOMAIN s /\ s[z[1]].kind # "assign"
    BY LenProperties DEF Dataflow!IsStatement
  <1>3. \A i \in DOMAIN s : s[i].kind # "assign" => s[i].test \subseteq Signal /\ s[i].test \subseteq identifiers
    <2> SUFFICES ASSUME NEW i \in DOMAIN s, s[i].kind # "assign"
                 PROVE  s[i].test \subseteq Signal /\ s[i].test \subseteq identifiers
      OBVIOUS
    <2>1. s[i] \in Dataflow!Part
      BY ElementOfSeq, LenProperties DEF Dataflow!IsStatement
    <2>2. s[i].test \subseteq Signal
      BY <2>1 DEF Dataflow!Part
    <2>3. i \in DOMAIN s \ Dataflow!Assigns(s)
      BY DEF Dataflow!Assigns
    <2>4. s[i].test \subseteq Dataflow!Predicates(s)
      BY <2>3 DEF Dataflow!Predicates
    <2> QED
      BY <2>2, <2>4
  <1>4. \A i \in Dataflow!Assigns(s) : s[i].rhs \subseteq identifiers /\ s[i].targets[1].base \in targets
    BY <1>1
  <1>5. Dataflow!DrivesSignal(s) = {d \in identifiers \X targets : d[1] # d[2]}
    BY DEF Dataflow!DrivesSignal
  <1> HIDE DEF identifiers, targets
  <1>6. x \in targets
    <2> SUFFICES ASSUME x \notin targets PROVE FALSE
      OBVIOUS
    <2>1. Sensitive(s, {x}) = {}
      BY <1>1, <1>4 DEF Sensitive
    <2>2. Confined(s, {x})
      BY <2>1 DEF Confined
    <2> QED
      BY <2>2, Insulated
  <1>7. y \in identifiers
    <2> SUFFICES ASSUME y \notin identifiers PROVE FALSE
      OBVIOUS
    <2> DEFINE S == Signal \ {y}
    <2>1. \A i \in Dataflow!Assigns(s) : s[i].rhs \subseteq S
      BY <1>1, <1>4
    <2>2. \A i \in DOMAIN s : s[i].kind # "assign" => s[i].test \subseteq S
      BY <1>3
    <2>3. Confined(s, S)
      <3> HIDE DEF S
      <3> QED
        BY <1>1, <1>2, <2>1, <2>2 DEF Confined, Sensitive
    <2> QED
      BY <2>3, Insulated
  <1>8. <<y, x>>[1] = y /\ <<y, x>>[2] = x
    OBVIOUS
  <1> QED
    BY <1>5, <1>6, <1>7, <1>8

LEMMA ReadsDrive ==
  ASSUME NEW s, Dataflow!IsStatement(s), \A a \in Dataflow!Assignments(s) : Len(a.targets) = 1,
         NEW r \in Dataflow!Reads(s),
         NEW a \in Dataflow!Assignments(s), NEW j \in DOMAIN a.targets, a.targets[j].base = r[1]
  PROVE  <<r[2], r[1]>> \in Dataflow!DrivesSignal(s)
  <1> DEFINE identifiers == Dataflow!Predicates(s) \union UNION {Dataflow!Operands(b) : b \in Dataflow!Assignments(s)}
             targets     == UNION {Dataflow!TargetOf(b) : b \in Dataflow!Assignments(s)}
  <1>1. r[1] # r[2] /\ r \in Dataflow!ReadsOf(s)
    BY DEF Dataflow!Reads
  <1>2. r[1] \in targets
    <2>1. PICK i \in DOMAIN s : s[i] = a /\ s[i].kind = "assign"
      BY DEF Dataflow!Assignments, Dataflow!Assigns
    <2>2. s[i] \in Dataflow!Part
      BY ElementOfSeq, LenProperties DEF Dataflow!IsStatement
    <2>3. a.targets \in Seq(Dataflow!Target)
      BY <2>1, <2>2 DEF Dataflow!Part
    <2>4. Len(a.targets) = 1
      OBVIOUS
    <2>5. j = 1
      BY <2>3, <2>4, LenProperties
    <2> QED
      BY <2>4, <2>5 DEF Dataflow!TargetOf
  <1>3. r[2] \in identifiers
    <2>1. ASSUME NEW i \in Uncased(s), r \in Direct(s, i) PROVE r[2] \in identifiers
      <3>1. s[i] \in Dataflow!Assignments(s)
        BY DEF Uncased, Dataflow!Assignments
      <3>2. Dataflow!Operands(s[i]) = s[i].rhs
        BY <3>1 DEF Dataflow!Operands
      <3>3. r[2] \in s[i].rhs
        BY <2>1 DEF Direct
      <3> QED
        BY <3>1, <3>2, <3>3
    <2>2. ASSUME NEW x \in Entered(s), r \in Decided(s, x) PROVE r[2] \in identifiers
      <3>1. s[x[1]].kind = "if" /\ x \in Dataflow!Branches(s)
        BY DEF Entered
      <3>2. PICK i \in DOMAIN s : x \in s[i].under
        BY <3>1 DEF Dataflow!Branches
      <3>3. x[1] \in DOMAIN s
        BY <3>2, LenProperties DEF Dataflow!IsStatement
      <3>4. x[1] \in DOMAIN s \ Dataflow!Assigns(s)
        BY <3>1, <3>3 DEF Dataflow!Assigns
      <3>5. r[2] \in s[x[1]].test
        BY <2>2 DEF Decided
      <3>6. r[2] \in Dataflow!Predicates(s)
        BY <3>4, <3>5 DEF Dataflow!Predicates
      <3> QED
        BY <3>6
    <2> HIDE DEF identifiers
    <2> QED
      BY <1>1, <2>1, <2>2, ReadsAre
  <1> HIDE DEF identifiers, targets
  <1>4. <<r[2], r[1]>>[1] = r[2] /\ <<r[2], r[1]>>[2] = r[1]
    OBVIOUS
  <1> QED
    BY <1>1, <1>2, <1>3, <1>4 DEF Dataflow!DrivesSignal, identifiers, targets

(* No dataflow is lost, in a statement of any length and nesting: the      *)
(* invariant DataflowCovered of the two extractors.                        *)
THEOREM DataflowIsCovered == ComputeSpec => []DataflowCovered
  <1>1. ComputesInv => DataflowCovered
    <2> SUFFICES ASSUME ComputesInv, Computed("dataflow") PROVE DataflowCovered
      BY DEF DataflowCovered
    <2>1. /\ input \in StatementInputs
          /\ output[1] = [reads |-> Dataflow!Reads(input), drives |-> Dataflow!DrivesSignal(input)]
      BY DEF ComputesInv, IsComputed, Computed
    <2> DEFINE s == input
    <2>2. Dataflow!IsStatement(s)
      BY <2>1, StatementAssumption
    <2>3. output[1].reads = Dataflow!Reads(s) /\ output[1].drives = Dataflow!DrivesSignal(s)
      BY <2>1
    <2> HIDE DEF s
    <2> DEFINE assigns == Dataflow!Assignments(s)
               Single == \A a \in assigns : Len(a.targets) = 1
               Bases == {t.base : t \in UNION {ToSet(a.targets) : a \in assigns}}
               Influences(y, x) == \E env \in [Signal -> BOOLEAN] : Dataflow!Influences(s, y, x, env)
    <2>4. ASSUME ~Dataflow!HasCase(s), NEW S \in SUBSET Signal,
                 \A r \in Dataflow!Reads(s) : r[1] \in S => r[2] \in S,
                 NEW x \in S, NEW y \in Signal \ S
          PROVE  ~Influences(y, x)
      <3>1. Confined(s, S)
        BY <2>2, <2>4, ClosedIsConfined
      <3> QED
        BY <2>2, <3>1, Insulated DEF Env
    <2>5. ASSUME Single, NEW x \in Signal, NEW y \in Signal, x # y, Influences(y, x)
          PROVE  <<y, x>> \in Dataflow!DrivesSignal(s)
      <3>1. PICK e \in Env : Dataflow!Influences(s, y, x, e)
        BY <2>5 DEF Env
      <3> QED
        BY <2>2, <2>5, <3>1, InfluencesDrive
    <2>6. ASSUME Single, NEW r \in Dataflow!Reads(s), r[1] \in Bases
          PROVE  <<r[2], r[1]>> \in Dataflow!DrivesSignal(s)
      <3>1. PICK a \in assigns : \E t \in ToSet(a.targets) : r[1] = t.base
        BY <2>6
      <3>2. PICK j \in DOMAIN a.targets : a.targets[j].base = r[1]
        BY <3>1 DEF ToSet
      <3> QED
        BY <2>2, <2>6, <3>2, ReadsDrive
    <2> QED
      BY <2>3, <2>4, <2>5, <2>6 DEF DataflowCovered, s
  <1> QED
    BY <1>1, Computes, PTL

-----------------------------------------------------------------------------
(* The transitions of a state machine.  A part of a statement, and the     *)
(* branches that it is under.                                              *)
LEMMA PartIs ==
  ASSUME NEW d, NEW s, Fsm!IsStatement(d, s), NEW i \in DOMAIN s
  PROVE  /\ i \in Nat /\ i >= 1 /\ s[i] \in Fsm!Part(d)
         /\ s[i].kind \in {"assign", "begin", "if", "case"} /\ s[i].under \subseteq Nat \X Nat
         /\ s[i].kind = "assign" => s[i].var \in Fsm!VarNames(d)
         /\ s[i].kind = "if" => s[i].test \in Fsm!Test(d)
  <1>1. s \in Seq(Fsm!Part(d))
    BY DEF Fsm!IsStatement
  <1>2. i \in 1..Len(s) /\ Len(s) \in Nat
    BY <1>1, LenProperties
  <1>3. s[i] \in Fsm!Part(d)
    BY <1>1, <1>2, ElementOfSeq
  <1> QED
    BY <1>2, <1>3 DEF Fsm!Part, Fsm!Branch

LEMMA CaseIs ==
  ASSUME NEW d, NEW s, Fsm!IsStatement(d, s), NEW i \in DOMAIN s, s[i].kind = "case"
  PROVE  /\ s[i].selector \in Fsm!VarNames(d) \union {NoName}
         /\ s[i].labels \in Seq(SUBSET Fsm!States(d))
         /\ s[i].selector # NoName =>
              \A j \in DOMAIN s[i].labels : s[i].labels[j] \subseteq d.members[d.type[s[i].selector]]
  <1>1. s[i] \in Fsm!Part(d)
    BY PartIs
  <1> QED
    BY <1>1 DEF Fsm!Part

LEMMA Nested ==
  ASSUME NEW d, NEW s, Fsm!IsStatement(d, s), NEW i \in DOMAIN s, NEW x \in s[i].under
  PROVE  /\ x \in Nat \X Nat /\ x[1] \in DOMAIN s /\ x[1] \in Nat /\ x[2] \in Nat /\ x[1] < i
         /\ x = <<x[1], x[2]>>
         /\ s[x[1]].kind \in {"begin", "if", "case"}
         /\ s[x[1]].kind = "if" => x[2] \in {0, 1}
         /\ s[x[1]].kind = "case" => x[2] \in 0..Len(s[x[1]].labels)
         /\ \A y \in s[i].under : y[1] < x[1] => y \in s[x[1]].under
         /\ \A y \in s[x[1]].under : y \in s[i].under /\ y[1] < x[1]
         /\ \A y \in s[i].under : x[1] = y[1] => x = y
  <1>1. s \in Seq(Fsm!Part(d))
    BY DEF Fsm!IsStatement
  <1>2. DOMAIN s = 1..Len(s) /\ Len(s) \in Nat
    BY <1>1, LenProperties
  <1>3. x \in Nat \X Nat
    BY PartIs
  <1>4. /\ x[1] \in 1..(i - 1)
        /\ CASE s[x[1]].kind = "begin"  -> x[2] = 1
             [] s[x[1]].kind = "if"     -> x[2] \in {0, 1}
             [] s[x[1]].kind = "case"   -> x[2] \in 0..Len(s[x[1]].labels)
             [] s[x[1]].kind = "assign" -> FALSE
        /\ s[x[1]].under = {y \in s[i].under : y[1] < x[1]}
        /\ \A y \in s[i].under : x[1] = y[1] => x = y
    BY DEF Fsm!IsStatement
  <1>5. x[1] \in DOMAIN s /\ x[1] \in Nat /\ x[1] < i
    BY <1>2, <1>4
  <1>6. s[x[1]].kind \in {"assign", "begin", "if", "case"}
    BY <1>5, PartIs
  <1>7. /\ s[x[1]].kind \in {"begin", "if", "case"}
        /\ s[x[1]].kind = "if" => x[2] \in {0, 1}
        /\ s[x[1]].kind = "case" => x[2] \in 0..Len(s[x[1]].labels)
    BY <1>4, <1>6
  <1>8. x = <<x[1], x[2]>> /\ x[2] \in Nat
    BY <1>3
  <1>9. /\ \A y \in s[i].under : y[1] < x[1] => y \in s[x[1]].under
        /\ \A y \in s[x[1]].under : y \in s[i].under /\ y[1] < x[1]
    BY <1>4
  <1> QED
    BY <1>3, <1>4, <1>5, <1>7, <1>8, <1>9

(* Of the branches that a part is in and that have something, one is the   *)
(* innermost, and one the outermost.                                       *)
LEMMA InnermostExists ==
  ASSUME NEW d, NEW s, Fsm!IsStatement(d, s), NEW i \in DOMAIN s, NEW X, X \subseteq s[i].under, X # {}
  PROVE  /\ \E x \in X : \A y \in X : y[1] <= x[1]
         /\ \E x \in X : \A y \in X : x[1] <= y[1]
  <1>1. \A x \in X : x[1] \in Nat /\ x[1] < i
    BY Nested
  <1>2. i \in Nat
    BY PartIs
  <1> DEFINE T == {x[1] : x \in X}
             U == {i - x[1] : x \in X}
  <1>3. T \subseteq Nat /\ T # {} /\ U \subseteq Nat /\ U # {}
    BY <1>1, <1>2
  <1>4. (\E m \in T : \A n \in T : m <= n) /\ (\E m \in U : \A n \in U : m <= n)
    <2> HIDE DEF T, U
    <2> QED
      BY <1>3, LeastExists
  <1>5. PICK x \in X : \A y \in X : i - x[1] <= i - y[1]
    BY <1>4
  <1>6. \A y \in X : y[1] <= x[1]
    BY <1>1, <1>2, <1>5
  <1> QED
    BY <1>4, <1>6

LEMMA EnvIs ==
  ASSUME NEW d, NEW env \in Fsm!Envs(d)
  PROVE  /\ env \in [Fsm!VarNames(d) -> Fsm!States(d)]
         /\ \A v \in Fsm!VarNames(d) : env[v] \in d.members[d.type[v]]
         /\ \A v, w \in Fsm!VarNames(d) : d.type[v] = d.type[w] => env[v] = env[w]
  BY DEF Fsm!Envs

(* The same values, but a machine in another of its states.                *)
InState(d, env, enum, state) ==
  [v \in Fsm!VarNames(d) |-> IF d.type[v] = enum THEN state ELSE env[v]]

LEMMA InStateIsEnv ==
  ASSUME NEW d, NEW env \in Fsm!Envs(d), NEW enum, NEW state \in Fsm!States(d), state \in d.members[enum]
  PROVE  InState(d, env, enum, state) \in Fsm!Envs(d)
  <1> DEFINE now == InState(d, env, enum, state)
  <1>1. now \in [Fsm!VarNames(d) -> Fsm!States(d)]
    BY EnvIs DEF InState
  <1>2. \A v \in Fsm!VarNames(d) : now[v] = IF d.type[v] = enum THEN state ELSE env[v]
    BY DEF InState
  <1>3. \A v, w \in Fsm!VarNames(d) :
          now[v] \in d.members[d.type[v]] /\ (d.type[v] = d.type[w] => now[v] = now[w])
    <2> HIDE DEF now
    <2> QED
      BY <1>2, EnvIs
  <1> QED
    BY <1>1, <1>3 DEF Fsm!Envs

LEMMA StateVarsAre ==
  ASSUME NEW d, NEW v \in Fsm!StateVars(d)
  PROVE  v \in Fsm!VarNames(d) /\ \A w \in Fsm!VarNames(d) : d.type[w] = d.type[v] => w \in Fsm!StateVars(d)
  BY DEF Fsm!StateVars

LEMMA AssignmentsAre ==
  ASSUME NEW d, NEW s, NEW x, NEW k \in Fsm!StateAssignments(d, s, x)
  PROVE  /\ k \in DOMAIN s /\ s[k].kind = "assign" /\ s[k].var \in Fsm!StateVars(d) /\ s[k].value # NoName
         /\ x \in s[k].under /\ \A y \in s[k].under : y[1] > x[1] => s[y[1]].kind # "case"
  BY DEF Fsm!StateAssignments

(* An item of a case over a variable, with the state as a label.           *)
IsItem(d, s, x, enum, state) ==
  /\ s[x[1]].kind = "case" /\ x[2] # 0
  /\ s[x[1]].selector \in Fsm!VarNames(d) /\ d.type[s[x[1]].selector] = enum
  /\ state \in s[x[1]].labels[x[2]]

LEMMA ItemIs ==
  ASSUME NEW d, NEW s, Fsm!IsDesign(d), Fsm!IsStatement(d, s), NEW i \in DOMAIN s, NEW x \in s[i].under,
         NEW enum, NEW state, IsItem(d, s, x, enum, state)
  PROVE  /\ x[1] \in DOMAIN s /\ x[2] \in DOMAIN s[x[1]].labels
         /\ state \in Fsm!States(d) /\ state \in d.members[enum]
         /\ <<enum, state>> \in Fsm!TestsOf(d, s[x[1]])
  <1>1. /\ x[1] \in DOMAIN s /\ s[x[1]].kind = "case" /\ x[2] \in 0..Len(s[x[1]].labels) /\ x[2] # 0
    BY Nested DEF IsItem
  <1>2. /\ s[x[1]].labels \in Seq(SUBSET Fsm!States(d)) /\ s[x[1]].selector # NoName
        /\ \A j \in DOMAIN s[x[1]].labels : s[x[1]].labels[j] \subseteq d.members[d.type[s[x[1]].selector]]
    BY <1>1, CaseIs DEF IsItem, Fsm!IsDesign
  <1>3. x[2] \in DOMAIN s[x[1]].labels
    BY <1>1, <1>2, LenProperties
  <1>4. s[x[1]].labels[x[2]] \in SUBSET Fsm!States(d)
    BY <1>2, <1>3, ElementOfSeq, LenProperties
  <1>5. state \in UNION Fsm!ToSet(s[x[1]].labels)
    BY <1>3 DEF IsItem, Fsm!ToSet
  <1>6. Fsm!TestsOf(d, s[x[1]]) = {enum} \X (UNION Fsm!ToSet(s[x[1]].labels))
    BY <1>1, <1>2 DEF Fsm!TestsOf, IsItem
  <1> QED
    BY <1>1, <1>2, <1>3, <1>4, <1>5, <1>6 DEF IsItem

(* In a state that is a label of an item, where the item can be reached,   *)
(* it is taken, and what is around it, and the conditionals within it are  *)
(* as before.                                                              *)
LEMMA ItemIsTaken ==
  ASSUME NEW d, NEW s, Fsm!IsDesign(d), Fsm!IsStatement(d, s), Fsm!TestedOnce(d, s),
         NEW k \in DOMAIN s, NEW x \in s[k].under, \A y \in s[k].under : y[1] > x[1] => s[y[1]].kind # "case",
         NEW enum, NEW state, IsItem(d, s, x, enum, state),
         NEW env \in Fsm!Envs(d), Fsm!Reached(s, k, env)
  PROVE  Fsm!Reached(s, k, InState(d, env, enum, state))
  <1> DEFINE now == InState(d, env, enum, state)
  <1>1. \A v \in Fsm!VarNames(d) : now[v] = IF d.type[v] = enum THEN state ELSE env[v]
    BY DEF InState
  <1> HIDE DEF now
  <1>2. /\ x[1] \in DOMAIN s /\ x[2] \in DOMAIN s[x[1]].labels /\ <<enum, state>> \in Fsm!TestsOf(d, s[x[1]])
    BY ItemIs
  <1> SUFFICES ASSUME NEW y \in s[k].under PROVE Fsm!Takes(s[y[1]], y[2], now)
    BY DEF Fsm!Reached, now
  <1>3. /\ y[1] \in DOMAIN s /\ y[1] \in Nat /\ x[1] \in Nat /\ y[2] \in Nat
        /\ s[y[1]].kind \in {"begin", "if", "case"}
        /\ s[y[1]].kind = "if" => y[2] \in {0, 1}
        /\ s[y[1]].kind = "case" => y[2] \in 0..Len(s[y[1]].labels)
    BY Nested
  <1>4. Fsm!Takes(s[y[1]], y[2], env)
    BY DEF Fsm!Reached
  <1>5. CASE y[1] = x[1]
    <2>1. y = x
      BY <1>5, Nested
    <2>2. now[s[x[1]].selector] = state
      BY <1>1 DEF IsItem
    <2>3. \A j \in DOMAIN s[x[1]].labels : j # x[2] => state \notin s[x[1]].labels[j]
      BY <1>2 DEF IsItem, Fsm!TestedOnce
    <2>4. s[x[1]].labels \in Seq(SUBSET Fsm!States(d)) /\ x[2] # 0 /\ s[x[1]].kind = "case"
      BY <1>2, CaseIs DEF IsItem
    <2>5. \A j \in DOMAIN s[x[1]].labels : j < x[2] \/ x[2] = 0 => j # x[2]
      BY <1>2, <2>4, LenProperties
    <2> QED
      BY <2>1, <2>2, <2>3, <2>4, <2>5 DEF Fsm!Takes, IsItem
  <1>6. CASE y[1] > x[1]
    <2>1. x \in s[y[1]].under /\ s[y[1]].kind # "case"
      BY <1>3, <1>6, Nested
    <2>2. CASE s[y[1]].kind = "begin"
      BY <2>2 DEF Fsm!Takes
    <2>3. CASE s[y[1]].kind = "if" /\ s[y[1]].test.literal # NoName
      <3>1. s[y[1]].test.var \in Fsm!VarNames(d)
        BY <1>3, <2>3, PartIs DEF Fsm!Test
      <3>2. <<d.type[s[y[1]].test.var], s[y[1]].test.literal>> \in Fsm!TestsOf(d, s[y[1]])
        BY <2>3 DEF Fsm!TestsOf
      <3>3. d.type[s[y[1]].test.var] # enum
        BY <1>2, <1>3, <2>1, <3>2 DEF Fsm!TestedOnce, IsItem
      <3> QED
        BY <1>1, <1>4, <2>3, <3>1, <3>3 DEF Fsm!Takes
    <2>4. CASE s[y[1]].kind = "if" /\ s[y[1]].test.literal = NoName
      BY <2>4 DEF Fsm!Takes
    <2> QED
      BY <1>3, <2>1, <2>2, <2>3, <2>4
  <1>7. CASE y[1] < x[1]
    <2>1. y \in s[x[1]].under
      BY <1>3, <1>7, Nested
    <2>2. \A t \in Fsm!TestsOf(d, s[y[1]]) : IF y[2] = 0 THEN t # <<enum, state>> ELSE t[1] # enum
      <3>1. \A t \in Fsm!TestsOf(d, s[y[1]]), u \in Fsm!TestsOf(d, s[x[1]]) :
              IF y[2] = 0 THEN t # u ELSE t[1] # u[1]
        BY <1>2, <2>1 DEF Fsm!TestedOnce
      <3> QED
        BY <1>2, <3>1
    <2>3. CASE s[y[1]].kind = "begin"
      BY <2>3 DEF Fsm!Takes
    <2>4. CASE s[y[1]].kind = "if" /\ s[y[1]].test.literal # NoName
      <3> DEFINE v == s[y[1]].test.var
      <3>1. v \in Fsm!VarNames(d)
        BY <1>3, <2>4, PartIs DEF Fsm!Test
      <3>2. <<d.type[v], s[y[1]].test.literal>> \in Fsm!TestsOf(d, s[y[1]])
        BY <2>4 DEF Fsm!TestsOf
      <3>3. CASE d.type[v] # enum
        BY <1>1, <1>4, <2>4, <3>1, <3>3 DEF Fsm!Takes
      <3>4. CASE d.type[v] = enum
        <4>1. y[2] = 0 /\ s[y[1]].test.literal # state
          BY <2>2, <3>2, <3>4
        <4>2. now[v] = state
          BY <1>1, <3>1, <3>4
        <4> QED
          BY <2>4, <4>1, <4>2 DEF Fsm!Takes
      <3> QED
        BY <3>3, <3>4
    <2>5. CASE s[y[1]].kind = "if" /\ s[y[1]].test.literal = NoName
      BY <2>5 DEF Fsm!Takes
    <2>6. CASE s[y[1]].kind = "case" /\ s[y[1]].selector = NoName
      BY <2>6 DEF Fsm!Takes
    <2>7. CASE s[y[1]].kind = "case" /\ s[y[1]].selector # NoName
      <3> DEFINE v == s[y[1]].selector
      <3>1. v \in Fsm!VarNames(d) /\ s[y[1]].labels \in Seq(SUBSET Fsm!States(d))
        BY <1>3, <2>7, CaseIs
      <3>2. \A j \in DOMAIN s[y[1]].labels : \A l \in s[y[1]].labels[j] : <<d.type[v], l>> \in Fsm!TestsOf(d, s[y[1]])
        <4>1. \A j \in DOMAIN s[y[1]].labels : s[y[1]].labels[j] \in Fsm!ToSet(s[y[1]].labels)
          BY DEF Fsm!ToSet
        <4>2. Fsm!TestsOf(d, s[y[1]]) = {d.type[v]} \X (UNION Fsm!ToSet(s[y[1]].labels))
          BY <2>7 DEF Fsm!TestsOf
        <4> QED
          BY <4>1, <4>2
      <3>3. CASE d.type[v] # enum
        <4>1. now[v] = env[v]
          BY <1>1, <3>1, <3>3
        <4> QED
          BY <1>4, <2>7, <4>1 DEF Fsm!Takes
      <3>4. CASE d.type[v] = enum
        <4>1. now[v] = state
          BY <1>1, <3>1, <3>4
        <4>2. ASSUME y[2] # 0 PROVE FALSE
          <5>1. y[2] \in DOMAIN s[y[1]].labels
            BY <1>3, <2>7, <3>1, <4>2, LenProperties
          <5>2. env[v] \in s[y[1]].labels[y[2]]
            BY <1>4, <2>7, <4>2 DEF Fsm!Takes
          <5> QED
            BY <2>2, <3>2, <3>4, <4>2, <5>1, <5>2
        <4>3. \A j \in DOMAIN s[y[1]].labels : state \notin s[y[1]].labels[j]
          BY <2>2, <3>2, <3>4, <4>2
        <4> QED
          BY <2>7, <4>1, <4>2, <4>3 DEF Fsm!Takes
      <3> QED
        BY <3>3, <3>4
    <2> QED
      BY <1>3, <2>3, <2>4, <2>5, <2>6, <2>7
  <1> QED
    BY <1>3, <1>5, <1>6, <1>7

(* An arm of a ladder: a branch of a conditional.                          *)
LEMMA ArmIs ==
  ASSUME NEW d, NEW s, Fsm!IsStatement(d, s), NEW i \in DOMAIN s, NEW x \in s[i].under, x \in Fsm!Arms(s)
  PROVE  /\ x[1] \in DOMAIN s /\ s[x[1]].kind = "if" /\ x[2] \in {0, 1}
         /\ s[x[1]].test \in Fsm!Test(d)
  <1>1. PICK l \in Fsm!Ladders(s) : x[1] \in Fsm!Rungs(s, l)
    BY DEF Fsm!Arms
  <1>2. x[1] \in DOMAIN s /\ s[x[1]].kind = "if"
    BY <1>1 DEF Fsm!Rungs
  <1> QED
    BY <1>2, Nested, PartIs

LEMMA TestIs ==
  ASSUME NEW d, NEW t \in Fsm!Test(d), t.literal # NoName
  PROVE  t.var \in Fsm!VarNames(d) /\ t.literal \in d.members[d.type[t.var]]
  BY DEF Fsm!Test

(* What the edge of an arm comes from.                                     *)
From(d, s, x, enum) ==
  IF x[2] = 1 /\ s[x[1]].test.literal # NoName /\ d.type[s[x[1]].test.var] = enum
  THEN s[x[1]].test.literal ELSE Fsm!FsmVar(d, enum)

LEMMA ArmEdgesAre ==
  ASSUME NEW d, NEW s, NEW x
  PROVE  Fsm!ArmEdges(d, s, x) =
           {[src |-> From(d, s, x, d.type[s[k].var]), dst |-> s[k].value] : k \in Fsm!StateAssignments(d, s, x)}
  BY Zenon DEF Fsm!ArmEdges, From

(* In the then of a test of the machine, its state is the literal.         *)
LEMMA FromIsState ==
  ASSUME NEW d, NEW s, Fsm!IsStatement(d, s), NEW x \in Fsm!Arms(s), NEW k \in Fsm!StateAssignments(d, s, x),
         NEW env \in Fsm!Envs(d), Fsm!Reached(s, k, env)
  PROVE  From(d, s, x, d.type[s[k].var]) \in {env[s[k].var], Fsm!FsmVar(d, d.type[s[k].var])}
  <1>1. k \in DOMAIN s /\ x \in s[k].under /\ s[k].var \in Fsm!VarNames(d)
    BY AssignmentsAre, StateVarsAre
  <1>2. s[x[1]].kind = "if" /\ s[x[1]].test \in Fsm!Test(d)
    BY <1>1, ArmIs
  <1> SUFFICES ASSUME x[2] = 1, s[x[1]].test.literal # NoName,
                      d.type[s[x[1]].test.var] = d.type[s[k].var]
               PROVE  s[x[1]].test.literal = env[s[k].var]
    BY DEF From
  <1>3. s[x[1]].test.var \in Fsm!VarNames(d)
    BY <1>2, TestIs
  <1>4. Fsm!Takes(s[x[1]], x[2], env)
    BY <1>1 DEF Fsm!Reached
  <1>5. env[s[x[1]].test.var] = s[x[1]].test.literal
    BY <1>2, <1>4 DEF Fsm!Takes
  <1> QED
    BY <1>1, <1>3, <1>5, EnvIs

(* The variable that names a machine is a variable.                        *)
LEMMA FsmVarIsVar ==
  ASSUME NEW d, Fsm!IsDesign(d), NEW v \in Fsm!VarNames(d)
  PROVE  Fsm!FsmVar(d, d.type[v]) \in Fsm!VarNames(d)
  <1> DEFINE Among(S) == {i \in DOMAIN d.vars : d.type[d.vars[i]] = d.type[v] /\ d.vars[i] \in S}
             First(S) == d.vars[CHOOSE i \in Among(S) : \A j \in Among(S) : i <= j]
  <1>1. d.vars \in Seq(Fsm!VarNames(d)) /\ DOMAIN d.vars = 1..Len(d.vars) /\ Len(d.vars) \in Nat
    BY LenProperties DEF Fsm!IsDesign
  <1>2. ASSUME NEW S, Among(S) # {} PROVE First(S) \in Fsm!VarNames(d)
    <2> DEFINE T == Among(S)
    <2>1. T \subseteq Nat /\ T # {} /\ T \subseteq DOMAIN d.vars
      BY <1>1, <1>2
    <2> HIDE DEF T
    <2>2. \E i \in T : \A j \in T : i <= j
      BY <2>1, LeastExists
    <2>3. (CHOOSE i \in T : \A j \in T : i <= j) \in DOMAIN d.vars
      BY <2>1, <2>2
    <2>4. d.vars[CHOOSE i \in T : \A j \in T : i <= j] \in Fsm!VarNames(d)
      BY <1>1, <2>3, ElementOfSeq
    <2> QED
      BY <2>4 DEF T
  <1>3. Among(Fsm!VarNames(d)) # {}
    <2>1. PICK i \in DOMAIN d.vars : d.vars[i] = v
      BY DEF Fsm!IsDesign
    <2> QED
      BY <2>1
  <1>4. Fsm!FsmVar(d, d.type[v]) =
          CASE Among(Fsm!NbaTargets(d)) # {}    -> First(Fsm!NbaTargets(d))
            [] Among(Fsm!CaseSelectors(d)) # {} -> First(Fsm!CaseSelectors(d))
            [] OTHER                            -> First(Fsm!VarNames(d))
    BY SMT DEF Fsm!FsmVar
  <1> HIDE DEF Among, First
  <1> QED
    BY <1>2, <1>3, <1>4

(* The edges of a process, of its items and its arms.                      *)
LEMMA ProcessEdgesAre ==
  ASSUME NEW d, NEW p, NEW edge
  PROVE  edge \in Fsm!ProcessEdges(d, p) <=>
           \/ \E x \in Fsm!Items(d, p.stmt) : edge \in Fsm!ItemEdges(d, p.stmt, x)
           \/ p.kind \in Fsm!Combinational /\ \E x \in Fsm!Arms(p.stmt) : edge \in Fsm!ArmEdges(d, p.stmt, x)
  <1> DEFINE A == UNION {Fsm!ItemEdges(d, p.stmt, x) : x \in Fsm!Items(d, p.stmt)}
             B == UNION {Fsm!ArmEdges(d, p.stmt, x) : x \in Fsm!Arms(p.stmt)}
             C == IF p.kind \in Fsm!Combinational THEN B ELSE {}
  <1>1. edge \in A <=> \E x \in Fsm!Items(d, p.stmt) : edge \in Fsm!ItemEdges(d, p.stmt, x)
    OBVIOUS
  <1>2. edge \in B <=> \E x \in Fsm!Arms(p.stmt) : edge \in Fsm!ArmEdges(d, p.stmt, x)
    OBVIOUS
  <1>3. Fsm!ProcessEdges(d, p) = A \union C
    BY Zenon DEF Fsm!ProcessEdges
  <1>4. edge \in C <=> p.kind \in Fsm!Combinational /\ edge \in B
    <2> HIDE DEF B
    <2> QED
      OBVIOUS
  <1> HIDE DEF A, B, C
  <1> QED
    BY <1>1, <1>2, <1>3, <1>4

LEMMA TransitionsAre ==
  ASSUME NEW d, NEW edge
  PROVE  edge \in Fsm!Transitions(d) <=> \E p \in Fsm!ToSet(d.procs) : edge \in Fsm!ProcessEdges(d, p)
  BY DEF Fsm!Transitions

(* An edge from a state is one that the process can take in it.            *)
LEMMA EdgesAreTaken ==
  ASSUME NEW d, NEW p, Fsm!IsDesign(d), Fsm!IsStatement(d, p.stmt),
         Fsm!TestedOnce(d, p.stmt), Fsm!NoneDead(d, p.stmt),
         NEW edge \in Fsm!ProcessEdges(d, p), edge.src \in Fsm!States(d)
  PROVE  \E env \in Fsm!Envs(d) : \E k \in DOMAIN p.stmt :
           /\ p.stmt[k].kind = "assign" /\ Fsm!Reached(p.stmt, k, env)
           /\ p.stmt[k].value = edge.dst /\ env[p.stmt[k].var] = edge.src
  <1> DEFINE s == p.stmt
  <1>1. ASSUME NEW x \in Fsm!Items(d, s), edge \in Fsm!ItemEdges(d, s, x)
        PROVE  \E env \in Fsm!Envs(d) : \E k \in DOMAIN s :
                 /\ s[k].kind = "assign" /\ Fsm!Reached(s, k, env)
                 /\ s[k].value = edge.dst /\ env[s[k].var] = edge.src
    <2>1. PICK k \in Fsm!StateAssignments(d, s, x) :
            /\ d.type[s[k].var] = d.type[s[x[1]].selector]
            /\ edge.src \in s[x[1]].labels[x[2]] /\ edge.dst = s[k].value
      BY <1>1 DEF Fsm!ItemEdges
    <2>2. /\ k \in DOMAIN s /\ s[k].kind = "assign" /\ s[k].var \in Fsm!VarNames(d)
          /\ x \in s[k].under /\ \A y \in s[k].under : y[1] > x[1] => s[y[1]].kind # "case"
      BY AssignmentsAre, StateVarsAre
    <2>3. IsItem(d, s, x, d.type[s[k].var], edge.src)
      BY <1>1, <2>1, StateVarsAre DEF Fsm!Items, IsItem
    <2>4. edge.src \in d.members[d.type[s[k].var]]
      BY <2>2, <2>3, ItemIs
    <2>5. PICK env \in Fsm!Envs(d) : Fsm!Reached(s, k, env)
      BY <2>2 DEF Fsm!NoneDead
    <2> DEFINE now == InState(d, env, d.type[s[k].var], edge.src)
    <2>6. now \in Fsm!Envs(d)
      BY <2>4, InStateIsEnv
    <2>7. Fsm!Reached(s, k, now)
      BY <2>2, <2>3, <2>5, ItemIsTaken
    <2>8. now[s[k].var] = edge.src
      BY <2>2 DEF InState
    <2> HIDE DEF now
    <2> QED
      BY <2>1, <2>2, <2>6, <2>7, <2>8
  <1>2. ASSUME NEW x \in Fsm!Arms(s), edge \in Fsm!ArmEdges(d, s, x)
        PROVE  \E env \in Fsm!Envs(d) : \E k \in DOMAIN s :
                 /\ s[k].kind = "assign" /\ Fsm!Reached(s, k, env)
                 /\ s[k].value = edge.dst /\ env[s[k].var] = edge.src
    <2>1. PICK k \in Fsm!StateAssignments(d, s, x) :
            edge.src = From(d, s, x, d.type[s[k].var]) /\ edge.dst = s[k].value
      BY <1>2, ArmEdgesAre
    <2>2. k \in DOMAIN s /\ s[k].kind = "assign" /\ s[k].var \in Fsm!VarNames(d)
      BY AssignmentsAre, StateVarsAre
    <2>3. PICK env \in Fsm!Envs(d) : Fsm!Reached(s, k, env)
      BY <2>2 DEF Fsm!NoneDead
    <2>4. edge.src \in {env[s[k].var], Fsm!FsmVar(d, d.type[s[k].var])}
      BY <2>1, <2>3, FromIsState
    <2>5. edge.src # Fsm!FsmVar(d, d.type[s[k].var])
      BY <2>2, FsmVarIsVar DEF Fsm!IsDesign
    <2> QED
      BY <2>1, <2>2, <2>3, <2>4, <2>5
  <1> HIDE DEF s
  <1> QED
    BY <1>1, <1>2, ProcessEdgesAre DEF s

(* The branches from the outermost to one of those that a part is in.      *)
LEMMA Around ==
  ASSUME NEW d, NEW s, Fsm!IsStatement(d, s), NEW i \in DOMAIN s, NEW x \in s[i].under
  PROVE  \A y \in s[i].under : y[1] <= x[1] <=> y \in s[x[1]].under \union {x}
  <1>1. x[1] \in Nat
    BY Nested
  <1> SUFFICES ASSUME NEW y \in s[i].under PROVE y[1] <= x[1] <=> y \in s[x[1]].under \union {x}
    OBVIOUS
  <1>2. y[1] \in Nat
    BY Nested
  <1>3. /\ y[1] < x[1] => y \in s[x[1]].under
        /\ x[1] = y[1] => x = y
        /\ y \in s[x[1]].under => y[1] < x[1]
    BY Nested
  <1> QED
    BY <1>1, <1>2, <1>3

(* What is in the else of a conditional, where that is a conditional, is   *)
(* in a branch of it.                                                      *)
LEMMA ElseIfIsEntered ==
  ASSUME NEW d, NEW s, Fsm!IsStatement(d, s), NEW k \in DOMAIN s, s[k].kind = "assign",
         NEW x \in s[k].under, s[x[1]].kind = "if", x[2] = 0, Fsm!ElseIf(s, x[1])
  PROVE  \E y \in s[k].under : /\ y[1] > x[1] /\ s[y[1]].kind = "if"
                               /\ s[y[1]].under = s[x[1]].under \union {x}
  <1>1. PICK j \in DOMAIN s : s[j].kind = "if" /\ s[j].under = s[x[1]].under \union {<<x[1], 0>>}
    BY DEF Fsm!ElseIf
  <1>2. x = <<x[1], 0>> /\ x[1] \in DOMAIN s /\ x[1] \in Nat
    BY Nested
  <1>3. s[j].under = s[x[1]].under \union {x} /\ x \in s[j].under
    BY <1>1, <1>2
  <1>4. Fsm!InArm(s, j)
    BY <1>3 DEF Fsm!InArm
  <1>5. \A m \in DOMAIN s : s[m].under = s[j].under => m = j
    BY <1>4 DEF Fsm!IsStatement
  <1>6. \A y \in s[k].under : y[1] \in Nat /\ y[1] \in DOMAIN s
    BY Nested
  <1>7. \A y \in s[j].under : y \in s[k].under /\ y[1] <= x[1]
    <2>1. \A y \in s[x[1]].under : y \in s[k].under /\ y[1] < x[1]
      BY Nested
    <2> QED
      BY <1>2, <1>3, <1>6, <2>1
  <1>8. \A y \in s[k].under : y[1] <= x[1] => y \in s[j].under
    BY <1>3, Around
  <1> DEFINE Z == {y \in s[k].under : y[1] > x[1]}
  <1>9. Z # {}
    <2> SUFFICES ASSUME Z = {} PROVE FALSE
      OBVIOUS
    <2>1. \A y \in s[k].under : y[1] <= x[1]
      BY <1>2, <1>6
    <2>2. s[k].under = s[j].under
      BY <1>7, <1>8, <2>1
    <2> QED
      BY <1>1, <1>5, <2>2
  <1>10. PICK y \in Z : \A z \in Z : y[1] <= z[1]
    BY <1>9, InnermostExists
  <1>11. s[y[1]].under = s[j].under
    <2>1. \A z \in s[y[1]].under : z \in s[k].under /\ z[1] < y[1]
      BY <1>10, Nested
    <2>2. \A z \in s[k].under : z[1] < y[1] => z \in s[y[1]].under
      BY <1>10, Nested
    <2>3. \A z \in s[k].under : z[1] < y[1] => z[1] <= x[1]
      BY <1>2, <1>6, <1>10
    <2>4. \A z \in s[k].under : z[1] <= x[1] => z[1] < y[1]
      BY <1>2, <1>6, <1>10
    <2> QED
      BY <1>7, <1>8, <2>1, <2>2, <2>3, <2>4
  <1> QED
    BY <1>1, <1>3, <1>5, <1>6, <1>10, <1>11

(* An assignment in a conditional, and in no case, is in an arm of a       *)
(* ladder: of the outermost of the conditionals, the last of its rungs.    *)
LEMMA ArmExists ==
  ASSUME NEW d, NEW s, Fsm!IsStatement(d, s), NEW k \in DOMAIN s, s[k].kind = "assign",
         \A y \in s[k].under : s[y[1]].kind # "case", \E y \in s[k].under : s[y[1]].kind = "if"
  PROVE  \E x \in s[k].under : x \in Fsm!Arms(s)
  <1> DEFINE I == {y \in s[k].under : s[y[1]].kind = "if"}
  <1>1. I \subseteq s[k].under /\ I # {}
    OBVIOUS
  <1>2. PICK o \in I : \A y \in I : o[1] <= y[1]
    <2> HIDE DEF I
    <2> QED
      BY <1>1, InnermostExists
  <1> DEFINE i == o[1]
  <1>3. i \in DOMAIN s /\ i \in Nat /\ s[i].kind = "if"
    BY <1>2, Nested
  <1>4. \A z \in s[i].under : z \in s[k].under /\ z[1] < i /\ z[1] \in Nat
    BY <1>2, Nested
  <1>5. i \in Fsm!Ladders(s)
    <2>1. \A z \in s[i].under : s[z[1]].kind \notin {"if", "case"}
      BY <1>2, <1>3, <1>4
    <2> QED
      BY <1>3, <2>1 DEF Fsm!Ladders, Fsm!InArm
  <1>6. i \in Fsm!Rungs(s, i)
    BY <1>3, <1>4 DEF Fsm!Rungs
  <1> DEFINE R == {y \in s[k].under : y[1] \in Fsm!Rungs(s, i)}
  <1>7. o \in R
    BY <1>2, <1>6
  <1>8. R \subseteq s[k].under
    OBVIOUS
  <1>9. PICK x \in R : \A y \in R : y[1] <= x[1]
    <2> HIDE DEF R
    <2> QED
      BY <1>7, <1>8, InnermostExists
  <1>10. /\ s[x[1]].kind = "if" /\ (x[1] = i \/ <<i, 0>> \in s[x[1]].under)
        /\ \A y \in s[x[1]].under : y[1] >= i => s[y[1]].kind = "if" /\ y[2] = 0
    BY <1>9 DEF Fsm!Rungs
  <1>11. ASSUME x[2] = 0, Fsm!ElseIf(s, x[1]) PROVE FALSE
    <2>1. PICK y \in s[k].under : /\ y[1] > x[1] /\ s[y[1]].kind = "if"
                                  /\ s[y[1]].under = s[x[1]].under \union {x}
      BY <1>9, <1>10, <1>11, ElseIfIsEntered
    <2>2. x = <<x[1], 0>> /\ x[1] \in Nat
      BY <1>9, <1>11, Nested
    <2>3. y[1] \in DOMAIN s /\ y[1] \in Nat
      BY Nested
    <2>4. <<i, 0>> \in s[y[1]].under
      BY <1>10, <2>1, <2>2
    <2>5. \A z \in s[y[1]].under : z[1] >= i => s[z[1]].kind = "if" /\ z[2] = 0
      BY <1>10, <1>11, <2>1
    <2>6. y[1] \in Fsm!Rungs(s, i)
      BY <2>1, <2>3, <2>4, <2>5 DEF Fsm!Rungs
    <2> QED
      BY <1>9, <2>1, <2>2, <2>3, <2>6
  <1>12. x \in Fsm!Branches(s)
    BY <1>9 DEF Fsm!Branches
  <1> QED
    BY <1>5, <1>9, <1>11, <1>12 DEF Fsm!Arms

(* What decides on an assignment being followed, it has an edge.           *)
LEMMA FollowedHasEdge ==
  ASSUME NEW d, NEW p, Fsm!IsDesign(d), Fsm!IsStatement(d, p.stmt), NEW env \in Fsm!Envs(d),
         NEW k \in DOMAIN p.stmt, p.stmt[k].kind = "assign", Fsm!Reached(p.stmt, k, env),
         p.stmt[k].var \in Fsm!StateVars(d), p.stmt[k].value # NoName, Fsm!Followed(d, p, k)
  PROVE  \E edge \in Fsm!ProcessEdges(d, p) :
           /\ edge.dst = p.stmt[k].value
           /\ edge.src \in {env[p.stmt[k].var], Fsm!FsmVar(d, d.type[p.stmt[k].var])}
  <1> DEFINE s == p.stmt
             inCases == {x \in s[k].under : s[x[1]].kind = "case"}
  <1>1. \/ p.kind \in Fsm!Combinational /\ inCases = {} /\ \E x \in s[k].under : s[x[1]].kind = "if"
        \/ \E x \in inCases : /\ \A y \in inCases : y[1] <= x[1]
                              /\ x[2] # 0 /\ s[x[1]].selector # NoName
                              /\ d.type[s[x[1]].selector] = d.type[s[k].var]
    BY DEF Fsm!Followed
  <1>2. CASE p.kind \in Fsm!Combinational /\ inCases = {} /\ \E x \in s[k].under : s[x[1]].kind = "if"
    <2>1. \A y \in s[k].under : s[y[1]].kind # "case"
      BY <1>2
    <2>2. PICK x \in s[k].under : x \in Fsm!Arms(s)
      BY <1>2, <2>1, ArmExists
    <2>3. k \in Fsm!StateAssignments(d, s, x)
      BY <2>1, <2>2 DEF Fsm!StateAssignments
    <2> DEFINE edge == [src |-> From(d, s, x, d.type[s[k].var]), dst |-> s[k].value]
    <2>4. edge \in Fsm!ArmEdges(d, s, x)
      BY <2>3, ArmEdgesAre
    <2>5. edge.src \in {env[s[k].var], Fsm!FsmVar(d, d.type[s[k].var])}
      BY <2>2, <2>3, FromIsState
    <2>6. edge.dst = s[k].value
      OBVIOUS
    <2> HIDE DEF edge
    <2>7. edge \in Fsm!ProcessEdges(d, p)
      BY <1>2, <2>2, <2>4, ProcessEdgesAre
    <2> QED
      BY <2>5, <2>6, <2>7
  <1>3. ASSUME NEW x \in inCases, \A y \in inCases : y[1] <= x[1],
               x[2] # 0, s[x[1]].selector # NoName, d.type[s[x[1]].selector] = d.type[s[k].var]
        PROVE  \E edge \in Fsm!ProcessEdges(d, p) :
                 edge.dst = s[k].value /\ edge.src \in {env[s[k].var], Fsm!FsmVar(d, d.type[s[k].var])}
    <2>1. x \in s[k].under /\ s[x[1]].kind = "case" /\ x[1] \in DOMAIN s /\ x[1] \in Nat
      BY Nested
    <2>2. s[x[1]].selector \in Fsm!VarNames(d) /\ s[k].var \in Fsm!VarNames(d)
      <3>1. s[x[1]].selector \in Fsm!VarNames(d) \union {NoName}
        BY <2>1, CaseIs
      <3>2. s[k].var \in Fsm!VarNames(d)
        BY StateVarsAre
      <3> QED
        BY <1>3, <3>1, <3>2
    <2>3. x \in Fsm!Items(d, s)
      <3>1. s[x[1]].selector \in Fsm!StateVars(d)
        BY <1>3, <2>2, StateVarsAre
      <3>2. x \in Fsm!Branches(s)
        BY <2>1 DEF Fsm!Branches
      <3> QED
        BY <1>3, <2>1, <3>1, <3>2 DEF Fsm!Items
    <2>4. k \in Fsm!StateAssignments(d, s, x)
      <3>1. \A y \in s[k].under : y[1] \in Nat
        BY Nested
      <3>2. \A y \in s[k].under : y[1] > x[1] => s[y[1]].kind # "case"
        BY <1>3, <2>1, <3>1
      <3> QED
        BY <2>1, <3>2 DEF Fsm!StateAssignments
    <2>5. env[s[x[1]].selector] \in s[x[1]].labels[x[2]]
      BY <1>3, <2>1 DEF Fsm!Reached, Fsm!Takes
    <2>6. env[s[x[1]].selector] = env[s[k].var]
      BY <1>3, <2>2, EnvIs
    <2> DEFINE edge == [src |-> env[s[k].var], dst |-> s[k].value]
    <2>7. edge \in Fsm!ItemEdges(d, s, x)
      BY <1>3, <2>4, <2>5, <2>6 DEF Fsm!ItemEdges
    <2>8. edge.src = env[s[k].var] /\ edge.dst = s[k].value
      OBVIOUS
    <2> HIDE DEF edge
    <2>9. edge \in Fsm!ProcessEdges(d, p)
      BY <2>3, <2>7, ProcessEdgesAre
    <2> QED
      BY <2>8, <2>9
  <1> QED
    BY <1>1, <1>2, <1>3

(* The edges of the machines are those of the processes, in a design of any*)
(* number of machines, processes and statements, of any nesting: the       *)
(* invariant TransitionsFaithful of _emit_fsm_edges.                       *)
THEOREM TransitionsAreFaithful == ComputeSpec => []TransitionsFaithful
  <1>1. ComputesInv => TransitionsFaithful
    <2> SUFFICES ASSUME ComputesInv, Computed("machine") PROVE TransitionsFaithful
      BY DEF TransitionsFaithful
    <2>1. input \in DesignInputs /\ output[1] = Fsm!Transitions(input)
      BY DEF ComputesInv, IsComputed, Computed
    <2>2. Fsm!IsDesign(input)
      BY <2>1, DesignAssumption
    <2> DEFINE d == input
               procs == ToSet(d.procs)
               Envs == Fsm!Envs(d)
    <2>3. procs = Fsm!ToSet(d.procs)
      BY DEF ToSet, Fsm!ToSet
    <2>4. \A p \in procs : Fsm!IsStatement(d, p.stmt)
      BY <2>2 DEF ToSet, Fsm!IsDesign
    <2>5. ASSUME \A p \in procs : Fsm!TestedOnce(d, p.stmt) /\ Fsm!NoneDead(d, p.stmt),
                 NEW edge \in Fsm!Transitions(d), edge.src \in Fsm!States(d)
          PROVE  \E p \in procs, env \in Envs :
                   \E k \in {k \in DOMAIN p.stmt : p.stmt[k].kind = "assign" /\ Fsm!Reached(p.stmt, k, env)} :
                     p.stmt[k].value = edge.dst /\ env[p.stmt[k].var] = edge.src
      <3>1. PICK p \in procs : edge \in Fsm!ProcessEdges(d, p)
        BY <2>3, TransitionsAre
      <3> HIDE DEF d, procs
      <3>2. PICK env \in Envs : \E k \in DOMAIN p.stmt :
              /\ p.stmt[k].kind = "assign" /\ Fsm!Reached(p.stmt, k, env)
              /\ p.stmt[k].value = edge.dst /\ env[p.stmt[k].var] = edge.src
        BY <2>2, <2>4, <2>5, <3>1, EdgesAreTaken DEF d
      <3> QED
        BY <3>2
    <2>6. ASSUME NEW p \in procs, NEW env \in Envs, NEW k \in DOMAIN p.stmt,
                 p.stmt[k].kind = "assign", Fsm!Reached(p.stmt, k, env),
                 p.stmt[k].var \in Fsm!StateVars(d), p.stmt[k].value # NoName, Fsm!Followed(d, p, k)
          PROVE  \E edge \in Fsm!Transitions(d) :
                   /\ edge.dst = p.stmt[k].value
                   /\ edge.src \in {env[p.stmt[k].var], Fsm!FsmVar(d, d.type[p.stmt[k].var])}
      <3>1. PICK edge \in Fsm!ProcessEdges(d, p) :
              /\ edge.dst = p.stmt[k].value
              /\ edge.src \in {env[p.stmt[k].var], Fsm!FsmVar(d, d.type[p.stmt[k].var])}
        BY <2>2, <2>4, <2>6, FollowedHasEdge
      <3> QED
        BY <2>3, <3>1, TransitionsAre
    <2> HIDE DEF d, procs, Envs
    <2> QED
      BY <2>1, <2>5, <2>6 DEF TransitionsFaithful, d, procs, Envs
  <1> QED
    BY <1>1, Computes, PTL

=============================================================================
