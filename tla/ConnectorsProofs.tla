-------------------------- MODULE ConnectorsProofs --------------------------
(***************************************************************************)
(* What holds of any run of connectors, in any order and cut short         *)
(* anywhere, for any files and texts.                                      *)
(***************************************************************************)
EXTENDS Connectors, FiniteSetTheorems, TLAPS

(* The roles that decorators give, which alone may replace another.        *)
DecoratorRoles == {"property", "dataclass", "fixture"}

(* An edge that is there, or is about to be, has its reason.               *)
Justified(e) ==
  /\ e[1] \in MarkdownCode /\ e[2] \in Rows
  /\ CorpusOfRow(e[1]) = CorpusOfRow(e[2])
  /\ e[3] = Decl(e[2]).name
  /\ e[3] \in Decl(e[1]).tokens

LinksInv ==
  /\ \A e \in links : Justified(e)
  /\ phase = "idle" => links = {} /\ tags = {}

(* A pass that is not the decorators' writes one role, to rows without one.*)
FreshInv ==
  \/ \A t \in tags : t[2] \in DecoratorRoles
  \/ /\ \A t \in tags : t[1] \notin DOMAIN role
     /\ \A t, u \in tags : t[2] = u[2]

(* A run was asked for a plan.                                             *)
AskedInv == phase # "idle" => asked \in Plans

IInv == TypeOK /\ ReferencesJustified /\ LinksInv /\ FreshInv /\ AskedInv

(* No step takes a role from a row that stays, or replaces it by one that  *)
(* is inferred: the precedence of the connectors' documentation, whatever  *)
(* order they are run in.                                                  *)
StructureNeverOverwrites ==
  [][\A r \in DOMAIN role :
       \/ stored'[r[1]] # stored[r[1]]
       \/ /\ r \in DOMAIN role'
          /\ role'[r] = role[r] \/ role'[r] \in DecoratorRoles]_connectVars

-----------------------------------------------------------------------------
(* Lemmas about what a pass is going to write.                             *)

LEMMA RoleOfRow ==
  ASSUME TypeOK, NEW r
  PROVE  Role(r) = Nothing => r \notin DOMAIN role
  BY NothingAssumption DEF TypeOK, Role, Get

LEMMA DecoratorTagsKnown ==
  ASSUME NEW alias
  PROVE  DecoratorTags(alias) \subseteq Tagged \X DecoratorRoles
  <1> SUFFICES ASSUME NEW t \in DecoratorTags(alias)
               PROVE  t \in Tagged \X DecoratorRoles
    OBVIOUS
  <1>1. PICK q \in Tagged \X Promotions : t = <<q[1], q[2][3]>>
    BY DEF DecoratorTags, Tagged
  <1>2. q[1] \in Tagged /\ q[2] \in Promotions
    OBVIOUS
  <1>3. q[2][3] \in DecoratorRoles
    BY <1>2 DEF Promotions, DecoratorRoles
  <1> QED
    BY <1>1, <1>2, <1>3

LEMMA PropertyTagsFresh ==
  ASSUME TypeOK, NEW alias
  PROVE  PropertyTags(alias)
           \subseteq (Tagged \ DOMAIN role) \X {"property-descriptor"}
  BY RoleOfRow DEF PropertyTags, Untagged, Tagged, OfKind

LEMMA MethodTagsFresh ==
  ASSUME TypeOK, NEW method, NEW tag, NEW chase, NEW home
  PROVE  MethodTags(method, tag, chase, home)
           \subseteq (Tagged \ DOMAIN role) \X {tag}
  BY RoleOfRow DEF MethodTags, Untagged, Tagged, Classes, OfKind

LEMMA MetaclassTagsFresh ==
  ASSUME TypeOK, NEW home
  PROVE  MetaclassTags(home)
           \subseteq (Tagged \ DOMAIN role) \X {"init-subclass-hook"}
  BY RoleOfRow DEF MetaclassTags, Untagged, Tagged, Classes, OfKind

LEMMA TagsFresh ==
  ASSUME TypeOK, NEW pass, NEW home, NEW alias
  PROVE  /\ TagsOf(pass, home, alias) \subseteq Tagged \X Roles
         /\ \/ /\ pass = "py-decorator-semantics"
               /\ \A t \in TagsOf(pass, home, alias) : t[2] \in DecoratorRoles
            \/ /\ \A t \in TagsOf(pass, home, alias) : t[1] \notin DOMAIN role
               /\ \A t, u \in TagsOf(pass, home, alias) : t[2] = u[2]
  <1>1. CASE pass = "py-decorator-semantics"
    <2>1. TagsOf(pass, home, alias) = DecoratorTags(alias)
      BY <1>1 DEF TagsOf
    <2> QED
      BY <1>1, <2>1, DecoratorTagsKnown DEF DecoratorRoles, Roles
  <1>2. CASE pass = "py-property-descriptor"
    <2>1. TagsOf(pass, home, alias) = PropertyTags(alias)
      BY <1>2 DEF TagsOf
    <2> QED
      BY <2>1, PropertyTagsFresh DEF Roles
  <1>3. CASE pass = "py-descriptor-semantics"
    <2>1. TagsOf(pass, home, alias) = MethodTags("__get__", "descriptor", TRUE, home)
      BY <1>3 DEF TagsOf
    <2>2. MethodTags("__get__", "descriptor", TRUE, home)
            \subseteq (Tagged \ DOMAIN role) \X {"descriptor"}
      BY MethodTagsFresh, Zenon
    <2>3. TagsOf(pass, home, alias)
            \subseteq (Tagged \ DOMAIN role) \X {"descriptor"}
      BY <2>1, <2>2, Zenon
    <2> QED
      BY <2>3 DEF Roles
  <1>4. CASE pass = "py-set-name-semantics"
    <2>1. TagsOf(pass, home, alias) = MethodTags("__set_name__", "set-name-hook", FALSE, home)
      BY <1>4 DEF TagsOf
    <2>2. MethodTags("__set_name__", "set-name-hook", FALSE, home)
            \subseteq (Tagged \ DOMAIN role) \X {"set-name-hook"}
      BY MethodTagsFresh, Zenon
    <2>3. TagsOf(pass, home, alias)
            \subseteq (Tagged \ DOMAIN role) \X {"set-name-hook"}
      BY <2>1, <2>2, Zenon
    <2> QED
      BY <2>3 DEF Roles
  <1>5. CASE pass = "py-init-subclass-semantics"
    <2>1. TagsOf(pass, home, alias)
            = MethodTags("__init_subclass__", "init-subclass-hook", TRUE, home)
      BY <1>5 DEF TagsOf
    <2>2. MethodTags("__init_subclass__", "init-subclass-hook", TRUE, home)
            \subseteq (Tagged \ DOMAIN role) \X {"init-subclass-hook"}
      BY MethodTagsFresh, Zenon
    <2>3. TagsOf(pass, home, alias)
            \subseteq (Tagged \ DOMAIN role) \X {"init-subclass-hook"}
      BY <2>1, <2>2, Zenon
    <2> QED
      BY <2>3 DEF Roles
  <1>6. CASE pass = "metaclass"
    <2>1. TagsOf(pass, home, alias) = MetaclassTags(home)
      BY <1>6 DEF TagsOf
    <2> QED
      BY <2>1, MetaclassTagsFresh DEF Roles
  <1>7. CASE pass = "py-class-getitem-semantics"
    <2>1. TagsOf(pass, home, alias)
            = MethodTags("__class_getitem__", "class-getitem-hook", TRUE, home)
      BY <1>7 DEF TagsOf
    <2>2. MethodTags("__class_getitem__", "class-getitem-hook", TRUE, home)
            \subseteq (Tagged \ DOMAIN role) \X {"class-getitem-hook"}
      BY MethodTagsFresh, Zenon
    <2>3. TagsOf(pass, home, alias)
            \subseteq (Tagged \ DOMAIN role) \X {"class-getitem-hook"}
      BY <2>1, <2>2, Zenon
    <2> QED
      BY <2>3 DEF Roles
  <1>8. CASE pass \notin {"py-decorator-semantics", "py-property-descriptor",
                          "py-descriptor-semantics", "py-set-name-semantics",
                          "py-init-subclass-semantics", "metaclass",
                          "py-class-getitem-semantics"}
    <2>1. TagsOf(pass, home, alias) = {}
      BY <1>8 DEF TagsOf
    <2> QED
      BY <2>1
  <1> QED
    BY <1>1, <1>2, <1>3, <1>4, <1>5, <1>6, <1>7, <1>8

LEMMA ReferenceLinksJustified ==
  ASSUME NEW source
  PROVE  \A e \in ReferenceLinks(source) : Justified(e)
  BY DEF ReferenceLinks, Justified, OfKind

LEMMA LinksJustified ==
  ASSUME NEW pass
  PROVE  \A e \in LinksOf(pass) : Justified(e)
  <1>1. LinksOf(pass) \in {ReferenceLinks("py"), ReferenceLinks("sv"), {}}
    BY DEF LinksOf
  <1> QED
    BY <1>1, ReferenceLinksJustified

-----------------------------------------------------------------------------
(* The invariant holds at first, and every step keeps it.                  *)

LEMMA InitInv == ConnectInit => IInv
  BY DEF ConnectInit, IInv, TypeOK, ReferencesJustified, LinksInv, FreshInv, AskedInv, EmptyMap

(* Steps that leave the store alone leave alone what is said of its rows.  *)
LEMMA RowsUnchanged ==
  ASSUME UNCHANGED stored
  PROVE  /\ Tagged' = Tagged
         /\ \A e : Justified(e)' <=> Justified(e)
  BY DEF Tagged, OfKind, Rows, RowsOf, Decl, Justified, MarkdownCode, CorpusOfRow

LEMMA ExtractInv ==
  ASSUME IInv, NEW f \in File, NEW text, Extract(f, text)
  PROVE  IInv'
  <1> USE DEF IInv
  <1>1. stored' = [stored EXCEPT ![f] = text] /\ text \in TextsOf[f] \union {<<>>}
    BY DEF Extract
  <1>2. phase = "idle" /\ UNCHANGED run /\ tags = {} /\ links = {}
    BY DEF Extract, LinksInv
  <1>3. ASSUME NEW r \in Rows \ RowsOf(f)
        PROVE  r \in Rows' /\ Decl(r)' = Decl(r)
    <2>1. PICK g \in File : r \in RowsOf(g)
      BY <1>3 DEF Rows
    <2>2. g # f /\ r[1] = g
      BY <1>3, <2>1 DEF RowsOf
    <2>3. stored'[g] = stored[g]
      BY <1>1, <2>2 DEF TypeOK
    <2> QED
      BY <2>1, <2>2, <2>3 DEF Rows, RowsOf, Decl
  <1>4. ASSUME NEW kinds, NEW r \in OfKind(kinds) \ RowsOf(f)
        PROVE  r \in OfKind(kinds)'
    BY <1>3, <1>4 DEF OfKind
  <1>5. /\ role' = Restrict(role, DOMAIN role \ RowsOf(f))
        /\ refs' = {e \in refs : e[1] \notin RowsOf(f) /\ e[2] \notin RowsOf(f)}
    BY DEF Extract, RolesWithout, LinksWithout
  <1>6. /\ DOMAIN role' = DOMAIN role \ RowsOf(f)
        /\ \A r \in DOMAIN role' : role'[r] = role[r]
    BY <1>5 DEF Restrict
  <1>7. TypeOK'
    <2>1. DOMAIN stored' = File /\ \A g \in File : stored'[g] \in TextsOf[g] \union {<<>>}
      BY <1>1 DEF TypeOK
    <2>2. DOMAIN role' \subseteq Tagged'
      BY <1>4, <1>6 DEF TypeOK, Tagged
    <2>3. old' \subseteq DOMAIN role'
      BY <1>6 DEF Extract, MayDependOn, TypeOK
    <2>4. settled' = <<>>
      BY <1>2 DEF Extract
    <2> QED
      BY <1>2, <1>6, <2>1, <2>2, <2>3, <2>4 DEF TypeOK, run
  <1>8. ReferencesJustified'
    <2> SUFFICES ASSUME NEW e \in refs'
                 PROVE  Justified(e)'
      BY DEF ReferencesJustified, Justified
    <2>1. e \in refs /\ e[1] \notin RowsOf(f) /\ e[2] \notin RowsOf(f)
      BY <1>5
    <2>2. Justified(e)
      BY <2>1 DEF ReferencesJustified, Justified
    <2>3. e[1] \in MarkdownCode' /\ e[1] \in Rows
      BY <1>4, <2>1, <2>2 DEF Justified, MarkdownCode, OfKind
    <2>4. Decl(e[1])' = Decl(e[1]) /\ Decl(e[2])' = Decl(e[2]) /\ e[2] \in Rows'
      BY <1>3, <2>1, <2>2, <2>3 DEF Justified
    <2> QED
      BY <2>2, <2>3, <2>4 DEF Justified, CorpusOfRow
  <1>9. LinksInv' /\ FreshInv' /\ AskedInv'
    BY <1>2 DEF Extract, run, LinksInv, FreshInv, AskedInv
  <1> QED
    BY <1>7, <1>8, <1>9

LEMMA BeginInv ==
  ASSUME IInv, NEW plan \in Plans, Begin(plan)
  PROVE  IInv'
  <1> USE DEF IInv, Begin, graph, bounds
  <1>1. Tagged' = Tagged /\ \A e : Justified(e)' <=> Justified(e)
    BY RowsUnchanged
  <1>3. TypeOK'
    BY <1>1 DEF TypeOK, AskedInv
  <1>4. ReferencesJustified'
    BY <1>1 DEF ReferencesJustified, Justified
  <1>5. LinksInv' /\ FreshInv' /\ AskedInv'
    BY <1>1 DEF LinksInv, FreshInv, AskedInv, TypeOK
  <1> QED
    BY <1>3, <1>4, <1>5

LEMMA SynthesizeInv ==
  ASSUME IInv, Synthesize
  PROVE  IInv'
  <1> USE DEF IInv, Synthesize, graph, history, bounds
  <1>1. Tagged' = Tagged /\ \A e : Justified(e)' <=> Justified(e)
    BY RowsUnchanged
  <1>2. PassesOf(Head(todo)) # <<>>
    BY DEF PassesOf
  <1>3. TypeOK'
    BY <1>1, <1>2 DEF TypeOK
  <1>4. ReferencesJustified'
    BY <1>1 DEF ReferencesJustified, Justified
  <1>5. LinksInv' /\ FreshInv' /\ AskedInv'
    BY <1>1 DEF LinksInv, FreshInv, AskedInv
  <1> QED
    BY <1>3, <1>4, <1>5

LEMMA ReadInv ==
  ASSUME IInv, Read
  PROVE  IInv'
  <1> USE DEF IInv, Read, graph, history, bounds
  <1>1. Tagged' = Tagged /\ \A e : Justified(e)' <=> Justified(e)
    BY RowsUnchanged
  <1>2. PICK home, alias : tags' = TagsOf(Head(passes), home, alias)
    OBVIOUS
  <1>3. tags' \subseteq Tagged \X Roles /\ FreshInv'
    BY <1>2, TagsFresh DEF FreshInv
  <1>4. TypeOK'
    BY <1>1, <1>3 DEF TypeOK
  <1>5. ReferencesJustified'
    BY <1>1 DEF ReferencesJustified, Justified
  <1>6. LinksInv'
    BY <1>1, LinksJustified DEF LinksInv
  <1>7. AskedInv'
    BY DEF AskedInv
  <1> QED
    BY <1>3, <1>4, <1>5, <1>6, <1>7

LEMMA WriteRoleInv ==
  ASSUME IInv, NEW t \in tags, WriteRole(t)
  PROVE  IInv'
  <1> USE DEF IInv, WriteRole, history, bounds
  <1>1. Tagged' = Tagged /\ \A e : Justified(e)' <=> Justified(e)
    BY RowsUnchanged
  <1>2. t \in Tagged \X Roles
    BY DEF TypeOK
  <1>3. /\ DOMAIN role' = DOMAIN role \union {t[1]}
        /\ \A r \in DOMAIN role' : role'[r] = IF r = t[1] THEN t[2] ELSE role[r]
    BY DEF Put
  <1>4. TypeOK'
    BY <1>1, <1>2, <1>3 DEF TypeOK
  <1>5. FreshInv'
    <2>1. CASE \A u \in tags : u[2] \in DecoratorRoles
      BY <2>1 DEF FreshInv
    <2>2. CASE /\ \A u \in tags : u[1] \notin DOMAIN role
               /\ \A u, v \in tags : u[2] = v[2]
      <3>1. ASSUME NEW u \in tags \ {t}
            PROVE  u[1] # t[1]
        BY <1>2, <2>2, <3>1 DEF TypeOK
      <3> QED
        BY <1>3, <2>2, <3>1 DEF FreshInv
    <2> QED
      BY <2>1, <2>2 DEF FreshInv
  <1>6. ReferencesJustified'
    BY <1>1 DEF ReferencesJustified, Justified
  <1>7. LinksInv' /\ AskedInv'
    BY <1>1 DEF LinksInv, AskedInv, TypeOK
  <1> QED
    BY <1>4, <1>5, <1>6, <1>7

LEMMA WriteLinkInv ==
  ASSUME IInv, NEW e \in links, WriteLink(e)
  PROVE  IInv'
  <1> USE DEF IInv, WriteLink, history, bounds
  <1>1. Tagged' = Tagged /\ \A x : Justified(x)' <=> Justified(x)
    BY RowsUnchanged
  <1>2. TypeOK'
    BY <1>1 DEF TypeOK
  <1>3. ReferencesJustified'
    BY <1>1 DEF ReferencesJustified, LinksInv, Justified
  <1>4. LinksInv' /\ FreshInv' /\ AskedInv'
    BY <1>1 DEF LinksInv, FreshInv, AskedInv, TypeOK
  <1> QED
    BY <1>2, <1>3, <1>4

LEMMA EndOfPassInv ==
  ASSUME IInv, EndOfPass
  PROVE  IInv'
  <1> USE DEF IInv, EndOfPass, graph, history, bounds
  <1>1. Tagged' = Tagged /\ \A e : Justified(e)' <=> Justified(e)
    BY RowsUnchanged
  <1>2. TypeOK'
    BY <1>1 DEF TypeOK
  <1>3. ReferencesJustified'
    BY <1>1 DEF ReferencesJustified, Justified
  <1>4. AskedInv'
    BY DEF AskedInv, TypeOK
  <1>5. LinksInv' /\ FreshInv'
    BY <1>1 DEF LinksInv, FreshInv, TypeOK
  <1> QED
    BY <1>2, <1>3, <1>4, <1>5

(* However a run ends, nothing of it is left to be written.                *)
LEMMA EndOfRunInv ==
  ASSUME IInv, Return \/ Refuse \/ Interrupt
  PROVE  IInv'
  <1> USE DEF IInv, EndRun, graph
  <1>1. EndRun /\ UNCHANGED <<graph, old>> /\ phase # "idle"
    BY DEF Return, Refuse, Interrupt
  <1>2. Tagged' = Tagged /\ \A e : Justified(e)' <=> Justified(e)
    BY <1>1, RowsUnchanged
  <1>3. settled' \in {asked, <<>>}
    BY DEF Return, Refuse, Interrupt
  <1>4. settled' \in Plans \union {<<>>}
    BY <1>1, <1>3 DEF AskedInv
  <1>5. TypeOK'
    BY <1>1, <1>2, <1>4 DEF TypeOK
  <1>6. ReferencesJustified'
    BY <1>1, <1>2 DEF ReferencesJustified, Justified
  <1>7. LinksInv' /\ FreshInv' /\ AskedInv'
    BY <1>1, <1>4 DEF LinksInv, FreshInv, AskedInv
  <1> QED
    BY <1>5, <1>6, <1>7

LEMMA StutterInv == IInv /\ UNCHANGED connectVars => IInv'
  <1> SUFFICES ASSUME IInv, UNCHANGED connectVars PROVE IInv'
    OBVIOUS
  <1> USE DEF IInv, connectVars, graph, run, history, bounds
  <1>1. Tagged' = Tagged /\ \A e : Justified(e)' <=> Justified(e)
    BY RowsUnchanged
  <1>2. TypeOK'
    BY <1>1 DEF TypeOK
  <1>3. ReferencesJustified'
    BY <1>1 DEF ReferencesJustified, Justified
  <1>4. LinksInv' /\ FreshInv' /\ AskedInv'
    BY <1>1 DEF LinksInv, FreshInv, AskedInv
  <1> QED
    BY <1>2, <1>3, <1>4

LEMMA NextInv == IInv /\ [ConnectNext]_connectVars => IInv'
  BY ExtractInv, BeginInv, SynthesizeInv, ReadInv, WriteRoleInv, WriteLinkInv,
     EndOfPassInv, EndOfRunInv, StutterInv DEF ConnectNext

-----------------------------------------------------------------------------
(* The inductive invariant.                                                *)
THEOREM Invariance == ConnectSpec => []IInv
  BY InitInv, NextInv, PTL DEF ConnectSpec

(* Roles belong to functions and classes that are there, and the run is    *)
(* where its variables say it is.                                          *)
THEOREM TypeCorrect == ConnectSpec => []TypeOK
  BY Invariance, PTL DEF IInv

(* Every reference edge is for a name that its two ends have now, and stays*)
(* within a corpus, through any extracts and interrupted runs.             *)
THEOREM ReferencesStayJustified == ConnectSpec => []ReferencesJustified
  BY Invariance, PTL DEF IInv

LEMMA KeepsRoles ==
  IInv /\ [ConnectNext]_connectVars =>
    \A r \in DOMAIN role :
      \/ stored'[r[1]] # stored[r[1]]
      \/ /\ r \in DOMAIN role'
         /\ role'[r] = role[r] \/ role'[r] \in DecoratorRoles
  <1> SUFFICES ASSUME IInv, [ConnectNext]_connectVars, NEW r \in DOMAIN role,
                      stored'[r[1]] = stored[r[1]]
               PROVE  /\ r \in DOMAIN role'
                      /\ role'[r] = role[r] \/ role'[r] \in DecoratorRoles
    OBVIOUS
  <1>1. ASSUME NEW f \in File, NEW text, Extract(f, text)
        PROVE  r \in DOMAIN role' /\ role'[r] = role[r]
    <2>1. stored'[f] # stored[f]
      BY <1>1 DEF Extract, IInv, TypeOK
    <2>2. r \notin RowsOf(f)
      BY <2>1 DEF RowsOf
    <2> QED
      BY <1>1, <2>2 DEF Extract, RolesWithout, Restrict
  <1>2. ASSUME NEW t \in tags, WriteRole(t)
        PROVE  /\ r \in DOMAIN role'
               /\ role'[r] = role[r] \/ role'[r] \in DecoratorRoles
    BY <1>2 DEF WriteRole, Put, IInv, FreshInv
  <1>3. CASE UNCHANGED role
    BY <1>3
  <1>4. \/ \E f \in File, text \in UNION {TextsOf[g] \union {<<>>} : g \in File} : Extract(f, text)
        \/ \E t \in tags : WriteRole(t)
        \/ UNCHANGED role
    BY DEF ConnectNext, connectVars, graph, Begin, Synthesize, Read, WriteLink, EndOfPass,
           Return, Refuse, Interrupt
  <1> QED
    BY <1>1, <1>2, <1>3, <1>4

(* Explicit beats inferred, for connectors run in any order: a role that a *)
(* class or function has is only ever replaced by one its decorators give. *)
THEOREM PrecedenceIsKept == ConnectSpec => StructureNeverOverwrites
  BY Invariance, KeepsRoles, PTL DEF ConnectSpec, StructureNeverOverwrites

-----------------------------------------------------------------------------
(* Completeness of the references: what each connector that is done with   *)
(* was to write is there.                                                  *)

Written(c) == LinksOf(c) \subseteq refs

ProgressInv ==
  /\ phase # "idle" =>
       /\ asked \in Seq(Connector) /\ todo \in Seq(Connector)
       /\ \A i \in DOMAIN asked :
            Written(asked[i]) \/ \E j \in DOMAIN todo : todo[j] = asked[i]
  /\ phase \in {"read", "write"} =>
       passes = <<Head(todo)>> \/ LinksOf(Head(todo)) = {}
  /\ phase = "write" => LinksOf(Head(todo)) \subseteq refs \union links
  /\ \A i \in DOMAIN settled : Written(settled[i])

LEMMA LinksUnchanged ==
  ASSUME UNCHANGED stored
  PROVE  \A c : LinksOf(c)' = LinksOf(c)
  BY DEF LinksOf, ReferenceLinks, MarkdownCode, OfKind, Rows, RowsOf, Decl, CorpusOfRow

(* Every step that leaves the rows, and what the run has got to, alone.    *)
LEMMA SameProgress ==
  ASSUME ProgressInv, UNCHANGED <<stored, phase, todo, passes, asked, settled, links>>,
         refs \subseteq refs'
  PROVE  ProgressInv'
  BY LinksUnchanged DEF ProgressInv, Written

LEMMA ReadProgress ==
  ASSUME IInv, ProgressInv, Read
  PROVE  ProgressInv'
  <1> USE DEF Read, graph, history
  <1>1. \A c : LinksOf(c)' = LinksOf(c)
    BY LinksUnchanged
  <1>2. LinksOf(Head(todo))' \subseteq links'
    BY <1>1 DEF ProgressInv
  <1> QED
    BY <1>1, <1>2 DEF ProgressInv, Written

LEMMA SynthesizeProgress ==
  ASSUME IInv, ProgressInv, Synthesize
  PROVE  ProgressInv'
  <1> USE DEF Synthesize, graph, history
  <1>1. \A c : LinksOf(c)' = LinksOf(c)
    BY LinksUnchanged
  <1>2. passes' = <<Head(todo)>> \/ LinksOf(Head(todo)) = {}
    BY DEF PassesOf, LinksOf
  <1> QED
    BY <1>1, <1>2 DEF ProgressInv, Written

LEMMA EndOfPassProgress ==
  ASSUME IInv, ProgressInv, EndOfPass
  PROVE  ProgressInv'
  <1> USE DEF EndOfPass, graph, history
  <1>1. \A c : LinksOf(c)' = LinksOf(c)
    BY LinksUnchanged
  <1>2. todo \in Seq(Connector) /\ todo # <<>> /\ Written(Head(todo))
    BY DEF IInv, TypeOK, ProgressInv, Written
  <1>3. CASE Tail(passes) # <<>>
    <2>1. ASSUME NEW x PROVE Tail(<<x>>) = <<>>
      OBVIOUS
    <2>2. passes # <<Head(todo)>>
      BY <1>3, <2>1, Zenon
    <2>3. LinksOf(Head(todo)) = {}
      BY <2>2 DEF ProgressInv
    <2> QED
      BY <1>1, <1>3, <2>3 DEF ProgressInv, Written
  <1>4. CASE Tail(passes) = <<>>
    <2>1. todo' = Tail(todo) /\ phase' = "next" /\ todo' \in Seq(Connector)
      BY <1>2, <1>4
    <2>2. ASSUME NEW j \in DOMAIN todo
          PROVE  todo[j] = Head(todo) \/ \E k \in DOMAIN todo' : todo'[k] = todo[j]
      <3>1. CASE j = 1
        BY <1>2, <3>1
      <3>2. CASE j # 1
        <4>1. j - 1 \in DOMAIN Tail(todo) /\ Tail(todo)[j - 1] = todo[j]
          BY <1>2, <3>2
        <4> QED
          BY <2>1, <4>1
      <3> QED
        BY <3>1, <3>2
    <2>3. ASSUME NEW i \in DOMAIN asked
          PROVE  Written(asked[i]) \/ \E k \in DOMAIN todo' : todo'[k] = asked[i]
      BY <1>2, <2>2 DEF ProgressInv
    <2> QED
      BY <1>1, <2>1, <2>3 DEF ProgressInv, Written
  <1> QED
    BY <1>3, <1>4

LEMMA BeginProgress ==
  ASSUME IInv, ProgressInv, NEW plan \in Plans, Begin(plan)
  PROVE  ProgressInv'
  <1>1. \A c : LinksOf(c)' = LinksOf(c)
    BY LinksUnchanged DEF Begin, graph
  <1>2. plan \in Seq(Connector)
    BY PlansAssumption
  <1> QED
    BY <1>1, <1>2 DEF ProgressInv, Written, Begin, graph

LEMMA EndOfRunProgress ==
  ASSUME IInv, ProgressInv, Return \/ Refuse \/ Interrupt
  PROVE  ProgressInv'
  <1>1. EndRun /\ UNCHANGED <<stored, refs>> /\ phase # "idle"
    BY DEF Return, Refuse, Interrupt, graph
  <1>2. \A c : LinksOf(c)' = LinksOf(c)
    BY <1>1, LinksUnchanged
  <1>3. (settled' = asked /\ todo = <<>>) \/ settled' = <<>>
    BY DEF Return, Refuse, Interrupt
  <1> QED
    BY <1>1, <1>2, <1>3 DEF ProgressInv, Written, EndRun

LEMMA ExtractProgress ==
  ASSUME IInv, ProgressInv, NEW f \in File, NEW text, Extract(f, text)
  PROVE  ProgressInv'
  BY DEF Extract, ProgressInv, run

LEMMA NextProgress == IInv /\ ProgressInv /\ [ConnectNext]_connectVars => ProgressInv'
  <1> SUFFICES ASSUME IInv, ProgressInv, [ConnectNext]_connectVars PROVE ProgressInv'
    OBVIOUS
  <1>1. ASSUME NEW t \in tags, WriteRole(t) PROVE ProgressInv'
    BY <1>1, SameProgress DEF WriteRole, history
  <1>2. ASSUME NEW e \in links, WriteLink(e) PROVE ProgressInv'
    <2>1. \A c : LinksOf(c)' = LinksOf(c)
      BY <1>2, LinksUnchanged DEF WriteLink
    <2> QED
      BY <1>2, <2>1 DEF WriteLink, history, ProgressInv, Written
  <1>3. CASE UNCHANGED connectVars
    BY <1>3, SameProgress DEF connectVars, graph, run, history
  <1> QED
    BY <1>1, <1>2, <1>3, ExtractProgress, BeginProgress, SynthesizeProgress, ReadProgress,
       EndOfPassProgress, EndOfRunProgress DEF ConnectNext

LEMMA ProgressComplete == ProgressInv => ReferencesComplete
  <1> SUFFICES ASSUME ProgressInv, NEW m \in MarkdownCode, NEW t \in Rows,
                      CorpusOfRow(m) = CorpusOfRow(t), Decl(t).name \in Decl(m).tokens,
                      NEW s \in {"py", "sv"},
                      Decl(t).kind \in IndexedKinds[s],
                      ReferenceLinks(s) \subseteq refs
               PROVE  <<m, t, Decl(t).name>> \in refs
    BY DEF ReferencesComplete, Ran, ProgressInv, Written, LinksOf, IndexedKinds
  <1>1. <<m, t>> \in MarkdownCode \X OfKind(IndexedKinds[s])
    BY DEF OfKind
  <1>2. <<m, t, Decl(t).name>> \in ReferenceLinks(s)
    BY <1>1 DEF ReferenceLinks
  <1> QED
    BY <1>2

(* After a run that included a reference connector and until the next      *)
(* extract, no mention of an indexed declaration is without its edge.      *)
THEOREM ReferencesAreComplete == ConnectSpec => []ReferencesComplete
  <1>1. ConnectInit => ProgressInv
    BY DEF ConnectInit, ProgressInv
  <1> QED
    BY <1>1, Invariance, NextProgress, ProgressComplete, PTL DEF ConnectSpec

-----------------------------------------------------------------------------
(* Decorators.  What the connector writes is what the decorators mean, when*)
(* no two imports of a file bind one name.                                 *)

Dotted == Seq(STRING) \ {<<>>}

(* A set of naturals that is not empty has a least element: the            *)
(* well-foundedness of strict inclusion between finite sets.               *)
LEMMA LeastExists ==
  ASSUME NEW S, S \subseteq Nat, S # {}
  PROVE  \E x \in S : \A y \in S : x <= y
  <1> DEFINE T == {0..k : k \in S}
             R == StrictSubsetOrdering(Nat)
  <1>1. IsWellFoundedOn(R, FiniteSubsetsOf(Nat))
    BY FS_StrictSubsetOrderingWellFounded
  <1>2. T \subseteq FiniteSubsetsOf(Nat)
    <2> SUFFICES ASSUME NEW k \in S PROVE 0..k \in FiniteSubsetsOf(Nat)
      OBVIOUS
    <2> QED
      BY FS_Interval DEF FiniteSubsetsOf
  <1>3. T # {}
    OBVIOUS
  <1>4. \E x \in T : \A y \in T : ~(<<y, x>> \in R)
    <2> HIDE DEF T, R
    <2> QED
      BY <1>1, <1>2, <1>3, WFMin
  <1>5. PICK x \in S : \A y \in S : ~(<<0..y, 0..x>> \in R)
    BY <1>4
  <1>6. ASSUME NEW y \in S, y < x PROVE FALSE
    <2>1. <<0..y, 0..x>> \in (SUBSET Nat) \X (SUBSET Nat)
      OBVIOUS
    <2>2. 0..y \subseteq 0..x /\ x \in 0..x /\ x \notin 0..y
      BY <1>6
    <2> QED
      BY <2>1, <2>2, <1>5 DEF StrictSubsetOrdering
  <1> QED
    BY <1>5, <1>6

(* So what holds of 0 and of the successor of any number it holds of, holds*)
(* of every number.                                                        *)
LEMMA Induction ==
  ASSUME NEW S, 0 \in S, \A n \in Nat : n \in S => n + 1 \in S
  PROVE  Nat \subseteq S
  <1> SUFFICES ASSUME Nat \ S # {} PROVE FALSE
    OBVIOUS
  <1>1. PICK x \in Nat \ S : \A y \in Nat \ S : x <= y
    BY LeastExists
  <1>2. x - 1 \in Nat /\ x - 1 \in S
    BY <1>1
  <1> QED
    BY <1>1, <1>2

LEMMA TheOnly ==
  ASSUME NEW x
  PROVE  The({x}) = x
  BY DEF The

LEMMA TheIsIn ==
  ASSUME NEW S, S # {}
  PROVE  The(S) \in S
  BY DEF The

(* A row's declaration is one of its file's source.                        *)
LEMMA Declared ==
  ASSUME TypeOK, NEW r \in Rows
  PROVE  /\ r[1] \in File /\ SourceOf[r[1]] \in {"py", "sv", "md"}
         /\ r = <<r[1], r[2]>> /\ r[2] \in DOMAIN stored[r[1]]
         /\ Decl(r) \in Declaration[SourceOf[r[1]]]
  <1>1. PICK f \in File : r \in RowsOf(f)
    BY DEF Rows
  <1>2. r = <<f, r[2]>> /\ r[1] = f /\ r[2] \in DOMAIN stored[f]
    BY <1>1 DEF RowsOf
  <1>3. stored[f] \in Seq(Declaration[SourceOf[f]])
    <2>1. stored[f] # <<>>
      BY <1>2
    <2>2. stored[f] \in TextsOf[f]
      BY <2>1 DEF TypeOK
    <2> QED
      BY <2>2, TextsAssumption
  <1>4. SourceOf[f] \in {"py", "sv", "md"}
    BY FilesAssumption DEF Declaration
  <1> QED
    BY <1>2, <1>3, <1>4 DEF Decl

LEMMA PythonKinds ==
  ASSUME TypeOK, NEW r \in Rows,
         Decl(r).kind \in {"PyFunction", "PyClass", "PyImport"}
  PROVE  /\ SourceOf[r[1]] = "py"
         /\ Decl(r).kind \in {"PyFunction", "PyClass"} => Decl(r).decorators \in Seq(Dotted)
  <1>1. CASE SourceOf[r[1]] = "py"
    <2>1. Decl(r) \in Declaration["py"]
      BY <1>1, Declared
    <2> QED
      BY <1>1, <2>1 DEF Declaration, Dotted
  <1>2. CASE SourceOf[r[1]] = "sv"
    <2>1. Decl(r) \in Declaration["sv"]
      BY <1>2, Declared
    <2> QED
      BY <2>1 DEF Declaration
  <1>3. CASE SourceOf[r[1]] = "md"
    <2>1. Decl(r) \in Declaration["md"]
      BY <1>3, Declared
    <2> QED
      BY <2>1 DEF Declaration
  <1> QED
    BY <1>1, <1>2, <1>3, Declared

LEMMA TaggedRow ==
  ASSUME TypeOK, NEW r \in Tagged
  PROVE  /\ r \in Rows /\ r[1] \in File /\ SourceOf[r[1]] = "py"
         /\ Decl(r).kind \in {"PyFunction", "PyClass"}
         /\ Decl(r).decorators \in Seq(Dotted)
         /\ Decl(r).kind = "PyClass" => r \in Classes
  BY PythonKinds, Declared DEF Tagged, OfKind, Classes

(* Whatever the order of the query, the index has the bindings there are.  *)
LEMMA PlainAliases ==
  ASSUME NEW alias \in AliasIndexes, NEW f, Plain(CorpusOf[f]), NEW b, b[1] = f
  PROVE  b \in alias <=> b \in Bindings
  <1>1. alias \subseteq Bindings
    BY DEF AliasIndexes
  <1>2. ASSUME b \in Bindings PROVE b \in alias
    <2>1. PICK m \in alias : \A a \in alias : <<a[1], a[2]>> = <<b[1], b[2]>> <=> a = m
      BY <1>2 DEF AliasIndexes
    <2>2. m[1] = b[1] /\ m[2] = b[2] /\ m \in Bindings
      BY <1>1, <2>1
    <2> QED
      BY <1>2, <2>2, <2>1 DEF Plain
  <1> QED
    BY <1>1, <1>2

LEMMA CanonicalIsMeaning ==
  ASSUME NEW alias \in AliasIndexes, NEW f, Plain(CorpusOf[f]), NEW d
  PROVE  Canonical(f, d, alias) = Meaning(f, d)
  <1>1. {a \in alias : a[1] = f /\ a[2] = Head(d)}
          = {b \in Bindings : <<b[1], b[2]>> = <<f, Head(d)>>}
    BY PlainAliases
  <1> QED
    BY <1>1, Zenon DEF Canonical, Meaning

LEMMA OnePromotion ==
  ASSUME NEW p \in Promotions, NEW q \in Promotions, p[1] = q[1], p[2] = q[2]
  PROVE  p[3] = q[3]
  BY DEF Promotions

LEMMA DecoratorTagsExplicit ==
  ASSUME TypeOK, NEW alias \in AliasIndexes, NEW r \in Tagged, Plain(CorpusOfRow(r)), NEW x
  PROVE  <<r, x>> \in DecoratorTags(alias) <=> Explicit(r) # Nothing /\ x = Explicit(r)
  <1> DEFINE D == DOMAIN Decl(r).decorators
             First == {q \in Promoted(r) : \A y \in Promoted(r) : q[1] <= y[1]}
  <1>1. r \in OfKind({"PyFunction", "PyClass"}) /\ D \subseteq Nat /\ \A i \in D : 1..i \subseteq D
    BY TaggedRow DEF Tagged
  <1>2. \A i \in D, p \in Promotions : PromotedBy(r, i, p, alias) <=> <<i, p>> \in Promoted(r)
    BY CanonicalIsMeaning DEF PromotedBy, Promoted, CorpusOfRow
  <1>3. \A q \in Promoted(r) : q = <<q[1], q[2]>> /\ q[1] \in D /\ q[2] \in Promotions
    BY DEF Promoted
  <1>4. Promoted(r) # {} => First # {}
    <2> SUFFICES ASSUME Promoted(r) # {} PROVE First # {}
      OBVIOUS
    <2> DEFINE I == {q[1] : q \in Promoted(r)}
    <2>1. I \subseteq Nat /\ I # {}
      BY <1>1, <1>3
    <2>2. PICK i \in I : \A j \in I : i <= j
      <3> HIDE DEF I
      <3> QED
        BY <2>1, LeastExists
    <2>3. PICK q \in Promoted(r) : q[1] = i
      BY <2>2
    <2> QED
      BY <2>2, <2>3
  <1>5. \A q \in Promotions : q[3] # Nothing
    BY NothingAssumption DEF Promotions, Roles
  <1>6. Promoted(r) # {} => The(First) \in First /\ Explicit(r) = The(First)[2][3]
    BY <1>4, TheIsIn DEF Explicit
  <1>7. ASSUME <<r, x>> \in DecoratorTags(alias)
        PROVE  Explicit(r) # Nothing /\ x = Explicit(r)
    <2>1. PICK p \in Promotions, i \in D :
            /\ x = p[3] /\ PromotedBy(r, i, p, alias)
            /\ \A j \in 1 .. i - 1 : \A y \in Promotions : ~PromotedBy(r, j, y, alias)
      BY <1>7 DEF DecoratorTags
    <2>2. <<i, p>> \in Promoted(r)
      BY <1>2, <2>1
    <2>3. The(First) \in First
      BY <1>6, <2>2
    <2> DEFINE q == The(First)
    <2>4. q[1] <= i /\ q[1] \in D /\ q[2] \in Promotions /\ <<q[1], q[2]>> \in Promoted(r)
      BY <1>3, <2>2, <2>3
    <2>5. q[1] = i
      <3> HIDE DEF First, q
      <3>1. PromotedBy(r, q[1], q[2], alias)
        BY <1>2, <2>4
      <3>2. q[1] \notin 1 .. i - 1
        BY <2>1, <2>4, <3>1
      <3>3. q[1] \in Nat \ {0} /\ i \in Nat
        BY <1>1, <2>1, <2>4, TaggedRow
      <3> QED
        BY <2>4, <3>2, <3>3
    <2>6. p[1] = q[2][1] /\ p[2] = q[2][2]
      BY <2>2, <2>4, <2>5 DEF Promoted
    <2> QED
      BY <1>5, <1>6, <2>1, <2>2, <2>4, <2>6, OnePromotion
  <1>8. ASSUME Explicit(r) # Nothing
        PROVE  <<r, Explicit(r)>> \in DecoratorTags(alias)
    <2>1. The(First) \in First /\ Explicit(r) = The(First)[2][3]
      BY <1>6, <1>8 DEF Explicit
    <2> DEFINE q == The(First)
    <2>2. q[1] \in D /\ q[2] \in Promotions /\ <<q[1], q[2]>> \in Promoted(r)
      BY <1>3, <2>1
    <2>3. PromotedBy(r, q[1], q[2], alias)
      BY <1>2, <2>2
    <2>4. ASSUME NEW j \in 1 .. q[1] - 1, NEW p \in Promotions, PromotedBy(r, j, p, alias)
          PROVE  FALSE
      <3>1. j \in D /\ j < q[1]
        BY <1>1, <2>2
      <3>2. <<j, p>> \in Promoted(r)
        BY <1>2, <2>4, <3>1
      <3> QED
        BY <1>1, <2>1, <2>2, <3>1, <3>2
    <2>5. <<r, q[2]>> \in OfKind({"PyFunction", "PyClass"}) \X Promotions
      BY <1>1, <2>2
    <2> DEFINE T == {t \in OfKind({"PyFunction", "PyClass"}) \X Promotions :
                       \E i \in DOMAIN Decl(t[1]).decorators :
                         /\ PromotedBy(t[1], i, t[2], alias)
                         /\ \A j \in 1 .. i - 1 : \A y \in Promotions : ~PromotedBy(t[1], j, y, alias)}
               t == <<r, q[2]>>
    <2>6. t \in T
      BY <2>2, <2>3, <2>4, <2>5
    <2>7. DecoratorTags(alias) = {<<u[1], u[2][3]>> : u \in T}
      BY DEF DecoratorTags
    <2>8. t[1] = r /\ t[2][3] = Explicit(r)
      BY <2>1
    <2> HIDE DEF T, t
    <2> QED
      BY <2>6, <2>7, <2>8
  <1> QED
    BY <1>7, <1>8

-----------------------------------------------------------------------------
(* What the source says of a row depends on the Python rows of its corpus  *)
(* alone.                                                                  *)

(* A step that leaves the Python rows of corpus k as they are.             *)
SameRows(k) ==
  \A r : r[1] \in File /\ SourceOf[r[1]] = "py" /\ CorpusOf[r[1]] = k =>
           (r \in Rows' <=> r \in Rows) /\ Decl(r)' = Decl(r)

ClassesIn(k) == {c \in Classes : CorpusOfRow(c) = k}

BasesIn(k) == {p \in ClassesIn(k) \X ClassesIn(k) : NamesAsBase(p[1], p[2])}

(* a is in every set that has r's bases and the bases of its members.      *)
Reaches(classes, bases, r, a) ==
  \A S \in SUBSET classes :
    (\A c \in classes : \A b \in S \union {r} : <<b, c>> \in bases => c \in S) => a \in S

LEMMA SameStored ==
  ASSUME UNCHANGED stored, NEW k
  PROVE  SameRows(k)
  BY DEF SameRows, Rows, RowsOf, Decl

PythonRows ==
  \A r \in Rows :
    r[1] \in File /\ (Decl(r).kind \in {"PyFunction", "PyClass", "PyImport"} => SourceOf[r[1]] = "py")

LEMMA PythonRowsThere == TypeOK => PythonRows
  BY Declared, PythonKinds DEF PythonRows

(* Python rows are found by their kind, before the step and after it.      *)
LEMMA SameKinds ==
  ASSUME TypeOK, TypeOK', NEW k, SameRows(k), NEW r, CorpusOfRow(r) = k,
         NEW kinds \in SUBSET {"PyFunction", "PyClass", "PyImport"}
  PROVE  /\ r \in OfKind(kinds)' <=> r \in OfKind(kinds)
         /\ r \in OfKind(kinds) => Decl(r)' = Decl(r)
  <1>1. ASSUME r \in OfKind(kinds)
        PROVE  r \in OfKind(kinds)' /\ Decl(r)' = Decl(r)
    <2>1. r \in Rows /\ Decl(r).kind \in kinds
      BY <1>1 DEF OfKind
    <2>2. r[1] \in File /\ SourceOf[r[1]] = "py"
      BY <2>1, Declared, PythonKinds
    <2> QED
      BY <2>1, <2>2 DEF SameRows, OfKind, CorpusOfRow
  <1>2. ASSUME r \in OfKind(kinds)'
        PROVE  r \in OfKind(kinds)
    <2>1. r \in Rows' /\ Decl(r)'.kind \in kinds
      BY <1>2 DEF OfKind
    <2>2. PythonRows'
      BY PythonRowsThere, PTL
    <2>3. r[1] \in File /\ SourceOf[r[1]] = "py"
      BY <2>1, <2>2 DEF PythonRows
    <2> QED
      BY <2>1, <2>3 DEF SameRows, OfKind, CorpusOfRow
  <1> QED
    BY <1>1, <1>2

LEMMA SameClasses ==
  ASSUME TypeOK, TypeOK', NEW k, SameRows(k)
  PROVE  /\ \A c : CorpusOfRow(c) = k => (c \in Classes' <=> c \in Classes)
         /\ \A c : CorpusOfRow(c) = k => (c \in Tagged' <=> c \in Tagged)
         /\ \A c \in Tagged : CorpusOfRow(c) = k => Decl(c)' = Decl(c)
         /\ Classes \subseteq Tagged
         /\ ClassesIn(k)' = ClassesIn(k)
  <1>1. \A c : CorpusOfRow(c) = k => (c \in Classes' <=> c \in Classes)
    BY SameKinds DEF Classes
  <1>2. \A c : CorpusOfRow(c) = k => (c \in Tagged' <=> c \in Tagged)
    BY SameKinds DEF Tagged
  <1>3. \A c \in Tagged : CorpusOfRow(c) = k => Decl(c)' = Decl(c)
    BY SameKinds DEF Tagged
  <1>4. Classes \subseteq Tagged
    BY DEF Classes, Tagged, OfKind
  <1>5. ClassesIn(k)' = ClassesIn(k)
    BY <1>1 DEF ClassesIn, CorpusOfRow
  <1> QED
    BY <1>1, <1>2, <1>3, <1>4, <1>5

LEMMA SameBindings ==
  ASSUME TypeOK, TypeOK', NEW k, SameRows(k), NEW b, CorpusOf[b[1]] = k
  PROVE  b \in Bindings' <=> b \in Bindings
  <1>1. \A r : CorpusOfRow(r) = k =>
          /\ r \in OfKind({"PyImport"})' <=> r \in OfKind({"PyImport"})
          /\ r \in OfKind({"PyImport"}) => Decl(r)' = Decl(r)
    BY SameKinds
  <1>2. \A r : b \in {<<r[1], x[1], x[2]>> : x \in Decl(r).aliases} => CorpusOfRow(r) = k
    BY DEF CorpusOfRow
  <1>3. \A r : b \in {<<r[1], x[1], x[2]>> : x \in Decl(r)'.aliases} => CorpusOfRow(r) = k
    BY DEF CorpusOfRow
  <1> QED
    BY <1>1, <1>2, <1>3 DEF Bindings

LEMMA SamePlain ==
  ASSUME TypeOK, TypeOK', NEW k, SameRows(k)
  PROVE  Plain(k)' <=> Plain(k)
  <1>1. \A c : CorpusOfRow(c) = k => (c \in Classes' <=> c \in Classes)
    BY SameClasses
  <1>2. \A c \in Classes : CorpusOfRow(c) = k => NameKey(c)' = NameKey(c)
    BY SameClasses DEF NameKey, CorpusOfRow
  <1>3. \A b : CorpusOf[b[1]] = k => (b \in Bindings' <=> b \in Bindings)
    BY SameBindings
  <1>4. \A r, s : NameKey(r) = NameKey(s) => CorpusOfRow(r) = CorpusOfRow(s)
    BY DEF NameKey
  <1>5. \A r, s : NameKey(r)' = NameKey(s)' => CorpusOfRow(r) = CorpusOfRow(s)
    BY DEF NameKey, CorpusOfRow
  <1>6. (\A r, s \in Classes : CorpusOfRow(r) = k /\ NameKey(r) = NameKey(s) => r = s)'
          <=> (\A r, s \in Classes : CorpusOfRow(r) = k /\ NameKey(r) = NameKey(s) => r = s)
    <2>1. \A r : CorpusOfRow(r)' = CorpusOfRow(r)
      BY DEF CorpusOfRow
    <2> QED
      BY <1>1, <1>2, <1>4, <1>5, <2>1
  <1>7. (\A b, d \in Bindings : CorpusOf[b[1]] = k /\ b[1] = d[1] /\ b[2] = d[2] => b = d)'
          <=> (\A b, d \in Bindings : CorpusOf[b[1]] = k /\ b[1] = d[1] /\ b[2] = d[2] => b = d)
    BY <1>3
  <1> QED
    BY <1>6, <1>7 DEF Plain

LEMMA SameMeaning ==
  ASSUME TypeOK, TypeOK', NEW k, SameRows(k), NEW f, CorpusOf[f] = k, NEW d
  PROVE  Meaning(f, d)' = Meaning(f, d)
  <1>1. {b \in Bindings' : <<b[1], b[2]>> = <<f, Head(d)>>}
          = {b \in Bindings : <<b[1], b[2]>> = <<f, Head(d)>>}
    BY SameBindings
  <1> QED
    BY <1>1, Zenon DEF Meaning

LEMMA SameExplicit ==
  ASSUME TypeOK, TypeOK', NEW k, SameRows(k), NEW r \in Tagged, CorpusOfRow(r) = k
  PROVE  Explicit(r)' = Explicit(r)
  <1>1. Decl(r)' = Decl(r)
    BY SameClasses
  <1>2. \A d : Meaning(r[1], d)' = Meaning(r[1], d)
    BY SameMeaning DEF CorpusOfRow
  <1>3. Promoted(r)' = Promoted(r)
    BY <1>1, <1>2 DEF Promoted
  <1> QED
    BY <1>3, Zenon DEF Explicit

(* A class inherits from classes of its corpus, by the bases named there.  *)
WithinCorpus ==
  \A r, a \in Classes :
    Inherits(r, a) <=> Reaches(ClassesIn(CorpusOfRow(r)), BasesIn(CorpusOfRow(r)), r, a)

LEMMA InheritsWithinCorpus == WithinCorpus
  <1> SUFFICES ASSUME NEW r \in Classes, NEW a \in Classes
               PROVE  Inherits(r, a)
                        <=> Reaches(ClassesIn(CorpusOfRow(r)), BasesIn(CorpusOfRow(r)), r, a)
    BY DEF WithinCorpus
  <1> DEFINE C == ClassesIn(CorpusOfRow(r))
             B == BasesIn(CorpusOfRow(r))
  <1>1. r \in C /\ C \subseteq Classes
    BY DEF ClassesIn
  <1>2. \A b \in C : \A c \in Classes : NamesAsBase(b, c) <=> <<b, c>> \in B
    BY DEF ClassesIn, BasesIn, NamesAsBase
  <1>3. \A p \in B : p[1] \in C /\ p[2] \in C
    BY DEF BasesIn
  <1>4. ASSUME Inherits(r, a), NEW S \in SUBSET C,
               \A c \in C : \A b \in S \union {r} : <<b, c>> \in B => c \in S
        PROVE  a \in S
    <2>1. S \in SUBSET Classes
      BY <1>1
    <2>2. \A c \in Classes : \A b \in S \union {r} : NamesAsBase(b, c) => c \in S
      <3> SUFFICES ASSUME NEW c \in Classes, NEW b \in S \union {r}, NamesAsBase(b, c)
                   PROVE  c \in S
        OBVIOUS
      <3>1. b \in C /\ <<b, c>> \in B
        BY <1>1, <1>2
      <3>2. <<b, c>>[2] \in C
        BY <1>3, <3>1
      <3> HIDE DEF C, B
      <3> QED
        BY <1>4, <3>1, <3>2
    <2> QED
      BY <1>4, <2>1, <2>2 DEF Inherits
  <1>5. ASSUME Reaches(C, B, r, a), NEW S \in SUBSET Classes,
               \A c \in Classes : \A b \in S \union {r} : NamesAsBase(b, c) => c \in S
        PROVE  a \in S
    <2>1. \A c \in C : \A b \in (S \intersect C) \union {r} : <<b, c>> \in B => c \in S \intersect C
      <3> SUFFICES ASSUME NEW c \in C, NEW b \in (S \intersect C) \union {r}, <<b, c>> \in B
                   PROVE  c \in S
        OBVIOUS
      <3>1. NamesAsBase(b, c)
        BY <1>1, <1>2
      <3> QED
        BY <1>1, <1>5, <3>1
    <2>2. S \intersect C \in SUBSET C
      OBVIOUS
    <2>3. a \in S \intersect C
      <3> HIDE DEF C, B
      <3> QED
        BY <1>5, <2>1, <2>2 DEF Reaches
    <2> QED
      BY <2>3
  <1> QED
    BY <1>4, <1>5 DEF Inherits, Reaches

LEMMA SameOffers ==
  ASSUME TypeOK, TypeOK', NEW k, SameRows(k), NEW r \in Classes, CorpusOfRow(r) = k, NEW method
  PROVE  Offers(r, method)' <=> Offers(r, method)
  <1>1. /\ \A c : CorpusOfRow(c) = k => (c \in Classes' <=> c \in Classes)
        /\ \A c \in Classes : CorpusOfRow(c) = k => Decl(c)' = Decl(c)
        /\ ClassesIn(k)' = ClassesIn(k)
    BY SameClasses
  <1>2. \A b, c \in ClassesIn(k) : NamesAsBase(b, c)' <=> NamesAsBase(b, c)
    BY <1>1 DEF NamesAsBase, ClassesIn, CorpusOfRow
  <1>3. BasesIn(k)' = BasesIn(k)
    BY <1>1, <1>2 DEF BasesIn
  <1>4. WithinCorpus /\ WithinCorpus'
    BY InheritsWithinCorpus, PTL
  <1>5. r \in Classes' /\ Decl(r)' = Decl(r) /\ CorpusOfRow(r)' = k
    BY <1>1 DEF CorpusOfRow
  <1>6. \A a \in Classes : Inherits(r, a) <=> Reaches(ClassesIn(k), BasesIn(k), r, a)
    BY <1>4 DEF WithinCorpus
  <1>7. \A a \in Classes' : Inherits(r, a)' <=> Reaches(ClassesIn(k), BasesIn(k), r, a)
    BY <1>1, <1>3, <1>4, <1>5 DEF WithinCorpus, Reaches
  <1>8. \A a : Reaches(ClassesIn(k), BasesIn(k), r, a) => CorpusOfRow(a) = k
    BY DEF Reaches, ClassesIn, BasesIn
  <1> QED
    BY <1>1, <1>5, <1>6, <1>7, <1>8 DEF Offers

LEMMA SameOwnRole ==
  ASSUME TypeOK, TypeOK', NEW k, SameRows(k), NEW r \in Tagged, CorpusOfRow(r) = k
  PROVE  OwnRole(r)' = OwnRole(r)
  <1>1. Decl(r)' = Decl(r) /\ Explicit(r)' = Explicit(r)
    BY SameClasses, SameExplicit
  <1>2. \A d : Meaning(r[1], d)' = Meaning(r[1], d)
    BY SameMeaning DEF CorpusOfRow
  <1>3. CASE Decl(r).kind = "PyFunction"
    BY <1>1, <1>2, <1>3 DEF OwnRole
  <1>4. CASE Decl(r).kind # "PyFunction"
    <2>1. r \in Classes
      BY <1>4, TaggedRow
    <2>2. \A method : Offers(r, method)' <=> Offers(r, method)
      BY <2>1, SameOffers
    <2> QED
      BY <1>1, <1>4, <2>2 DEF OwnRole
  <1> QED
    BY <1>3, <1>4

LEMMA SameMetaclass ==
  ASSUME TypeOK, TypeOK', NEW k, SameRows(k), NEW r \in Tagged, CorpusOfRow(r) = k
  PROVE  /\ MetaclassOf(r)' = MetaclassOf(r)
         /\ Chained(r)' <=> Chained(r)
         /\ Masked(r)' <=> Masked(r)
  <1>1. /\ \A c : CorpusOfRow(c) = k => (c \in Classes' <=> c \in Classes)
        /\ \A c \in Classes : CorpusOfRow(c) = k => Decl(c)' = Decl(c) /\ NameKey(c)' = NameKey(c)
    BY SameClasses DEF NameKey, CorpusOfRow
  <1>2. Decl(r)' = Decl(r) /\ (r \in Classes' <=> r \in Classes)
    BY SameClasses
  <1>3. \A m : NameKey(m) = <<CorpusOfRow(r), LastSegment(Decl(r).metaclass)>> => CorpusOfRow(m) = k
    BY DEF NameKey
  <1>4. \A m : NameKey(m)' = <<CorpusOfRow(r), LastSegment(Decl(r).metaclass)>> => CorpusOfRow(m) = k
    BY DEF NameKey, CorpusOfRow
  <1>5. CorpusOfRow(r)' = CorpusOfRow(r)
    BY DEF CorpusOfRow
  <1>6. MetaclassOf(r)' = MetaclassOf(r)
    BY <1>1, <1>2, <1>3, <1>4, <1>5 DEF MetaclassOf, LastSegment
  <1>7. \A m \in MetaclassOf(r) : Decl(m)' = Decl(m)
    BY <1>1, <1>3 DEF MetaclassOf
  <1>8. ASSUME NEW m \in MetaclassOf(r)
        PROVE  /\ OwnRole(m)' = OwnRole(m)
               /\ Offers(m, "__init_subclass__")' <=> Offers(m, "__init_subclass__")
    <2>1. m \in Classes /\ m \in Tagged /\ CorpusOfRow(m) = k
      BY SameClasses DEF MetaclassOf, NameKey
    <2> QED
      BY <2>1, SameOwnRole, SameOffers
  <1> QED
    BY <1>6, <1>7, <1>8 DEF Chained, Masked

LEMMA SameDocumentedRole ==
  ASSUME TypeOK, TypeOK', NEW k, SameRows(k), NEW r \in Tagged, CorpusOfRow(r) = k
  PROVE  DocumentedRole(r)' = DocumentedRole(r)
  <1>1. Decl(r)' = Decl(r) /\ OwnRole(r)' = OwnRole(r) /\ MetaclassOf(r)' = MetaclassOf(r)
    BY SameClasses, SameOwnRole, SameMetaclass
  <1>2. \A m \in MetaclassOf(r) : m \in Tagged /\ CorpusOfRow(m) = k
    BY SameClasses DEF MetaclassOf, NameKey
  <1>3. \A m \in MetaclassOf(r) :
          Offers(m, "__init_subclass__")' <=> Offers(m, "__init_subclass__")
    BY <1>2, SameOffers DEF MetaclassOf
  <1>4. CASE Decl(r).kind = "PyFunction"
    BY <1>1, <1>4 DEF DocumentedRole
  <1>5. CASE Decl(r).kind # "PyFunction"
    <2>1. r \in Classes
      BY <1>5, TaggedRow
    <2>2. Offers(r, "__class_getitem__")' <=> Offers(r, "__class_getitem__")
      BY <2>1, SameOffers
    <2> QED
      BY <1>1, <1>3, <2>2 DEF DocumentedRole
  <1> QED
    BY <1>4, <1>5

-----------------------------------------------------------------------------
(* The walk over base classes finds the classes that a class inherits from:*)
(* it takes as many steps as there are classes, and a step that adds none  *)
(* is followed by no other that does.                                      *)

LEMMA ClassesFinite ==
  ASSUME TypeOK
  PROVE  IsFiniteSet(Classes)
  <1>1. ASSUME NEW f \in File
        PROVE  IsFiniteSet(RowsOf(f))
    <2>1. stored[f] = <<>> \/ stored[f] \in Seq(Declaration[SourceOf[f]])
      BY TextsAssumption DEF TypeOK
    <2>2. IsFiniteSet(DOMAIN stored[f])
      <3>1. CASE stored[f] = <<>>
        BY <3>1, FS_EmptySet
      <3>2. CASE stored[f] \in Seq(Declaration[SourceOf[f]])
        <4>1. DOMAIN stored[f] = 1 .. Len(stored[f]) /\ Len(stored[f]) \in Nat
          BY <3>2
        <4> QED
          BY <4>1, FS_Interval
      <3> QED
        BY <2>1, <3>1, <3>2
    <2>3. IsFiniteSet({f} \X DOMAIN stored[f])
      BY <2>2, FS_Singleton, FS_Product
    <2>4. RowsOf(f) \in SUBSET ({f} \X DOMAIN stored[f])
      BY DEF RowsOf
    <2> QED
      BY <2>3, <2>4, FS_Subset
  <1> DEFINE F == [f \in File |-> RowsOf(f)]
             All == {RowsOf(f) : f \in File}
  <1>2. IsFiniteSet(All)
    <2>1. F \in Surjection(File, All)
      BY DEF Surjection
    <2> HIDE DEF F, All
    <2> QED
      BY <2>1, FS_Surjection, FilesAssumption
  <1>3. IsFiniteSet(UNION All)
    <2>1. \A T \in All : IsFiniteSet(T)
      BY <1>1
    <2> HIDE DEF All
    <2> QED
      BY <1>2, <2>1, FS_UNION
  <1>4. Classes \in SUBSET (UNION All)
    BY DEF Classes, OfKind, Rows
  <1> HIDE DEF All
  <1> QED
    BY <1>3, <1>4, FS_Subset

(* In a plain corpus a reference has one class to resolve to.              *)
LEMMA ResolvesToClass ==
  ASSUME NEW home \in NameIndexes, NEW r, Plain(CorpusOfRow(r)), NEW d
  PROVE  ResolvesTo(r, d, home)
           = {a \in Classes : NameKey(a) = <<CorpusOfRow(r), LastSegment(d)>>}
  <1>1. home \subseteq Classes
    BY DEF NameIndexes
  <1>2. ASSUME NEW a \in Classes, CorpusOfRow(a) = CorpusOfRow(r)
        PROVE  a \in home
    <2>1. PICK m \in home : \A x \in home : NameKey(x) = NameKey(a) <=> x = m
      BY DEF NameIndexes
    <2>2. NameKey(m) = NameKey(a)
      BY <2>1
    <2>3. m = a
      BY <1>1, <1>2, <2>2 DEF Plain
    <2> QED
      BY <2>3
  <1>3. \A a : NameKey(a) = <<CorpusOfRow(r), LastSegment(d)>> => CorpusOfRow(a) = CorpusOfRow(r)
    BY DEF NameKey
  <1> QED
    BY <1>1, <1>2, <1>3 DEF ResolvesTo

LEMMA ParentsAreBases ==
  ASSUME NEW home \in NameIndexes, NEW r, Plain(CorpusOfRow(r))
  PROVE  \A a : a \in Parents(r, home) <=> NamesAsBase(r, a)
  <1>1. \A d : ResolvesTo(r, d, home)
                 = {a \in Classes : NameKey(a) = <<CorpusOfRow(r), LastSegment(d)>>}
    BY ResolvesToClass
  <1> QED
    BY <1>1 DEF Parents, NamesAsBase, NameKey

LEMMA AncestorsInherited ==
  ASSUME TypeOK, NEW home \in NameIndexes, NEW r \in Classes, Plain(CorpusOfRow(r))
  PROVE  \A a : a \in Ancestors(r, home) <=> a \in Classes /\ Inherits(r, a)
  <1> DEFINE N == Cardinality(Classes)
             Further(T) == T \union UNION {Parents(a, home) : a \in T}
             IsWalk(g, m) == g = [n \in 0..m |-> IF n = 0 THEN Parents(r, home) ELSE Further(g[n - 1])]
             R == CHOOSE g : IsWalk(g, N)
             Closed(T) == \A c \in Classes : \A b \in T \union {r} : NamesAsBase(b, c) => c \in T
             C == ClassesIn(CorpusOfRow(r))
  <1>1. N \in Nat
    BY ClassesFinite, FS_CardinalityType
  <1>2. \A m \in Nat : \E g : IsWalk(g, m)
    <2> DEFINE S == {m \in Nat : \E g : IsWalk(g, m)}
    <2>1. 0 \in S
      <3>1. IsWalk([n \in 0..0 |-> Parents(r, home)], 0)
        OBVIOUS
      <3> QED
        BY <3>1
    <2>2. ASSUME NEW m \in Nat, m \in S
          PROVE  m + 1 \in S
      <3>1. PICK g : IsWalk(g, m)
        BY <2>2
      <3> DEFINE h == [n \in 0..m + 1 |-> IF n = m + 1 THEN Further(g[m]) ELSE g[n]]
      <3> HIDE DEF Further
      <3>2. ASSUME NEW n \in 0..m + 1
            PROVE  h[n] = IF n = 0 THEN Parents(r, home) ELSE Further(h[n - 1])
        <4>1. CASE n = 0
          BY <3>1, <4>1
        <4>2. CASE n \in 1..m
          <5>1. h[n] = g[n] /\ h[n - 1] = g[n - 1]
            BY <4>2
          <5>2. g[n] = Further(g[n - 1])
            BY <3>1, <4>2
          <5> QED
            BY <4>2, <5>1, <5>2
        <4>3. CASE n = m + 1
          <5>1. h[n] = Further(g[m]) /\ h[n - 1] = g[m] /\ n # 0
            BY <4>3
          <5> QED
            BY <5>1
        <4> QED
          BY <4>1, <4>2, <4>3
      <3>3. IsWalk(h, m + 1)
        BY <3>2
      <3>4. \E w : IsWalk(w, m + 1)
        <4> HIDE DEF h, IsWalk
        <4> QED
          BY <3>3
      <3> HIDE DEF IsWalk
      <3> QED
        BY <3>4
    <2>3. Nat \subseteq S
      <3> HIDE DEF S
      <3> QED
        BY <2>1, <2>2, Induction
    <2> QED
      BY <2>3
  <1>3. IsWalk(R, N)
    <2> HIDE DEF IsWalk, N
    <2> QED
      BY <1>1, <1>2
  <1>4. Ancestors(r, home) = R[N]
    BY DEF Ancestors
  <1> HIDE DEF R, N
  <1>5. /\ R[0] = Parents(r, home)
        /\ \A n \in Nat : n + 1 \in 0..N => R[n + 1] = Further(R[n])
    <2> HIDE DEF Further
    <2>1. \A n \in 0..N : R[n] = IF n = 0 THEN Parents(r, home) ELSE Further(R[n - 1])
      BY <1>3, Zenon
    <2>2. 0 \in 0..N
      BY <1>1
    <2>3. ASSUME NEW n \in Nat, n + 1 \in 0..N
          PROVE  R[n + 1] = Further(R[n])
      <3>1. n + 1 # 0 /\ (n + 1) - 1 = n
        BY <2>3
      <3> QED
        BY <2>1, <2>3, <3>1
    <2> QED
      BY <2>1, <2>2, <2>3
  <1>6. \A b \in C \union {r} : \A a : a \in Parents(b, home) <=> NamesAsBase(b, a)
    BY ParentsAreBases DEF ClassesIn
  <1>7. Closed(C)
    BY DEF ClassesIn, NamesAsBase
  <1>8. ASSUME NEW S \in SUBSET Classes, Closed(S), NEW n \in 0..N
        PROVE  R[n] \subseteq S \intersect C
    <2> DEFINE Q == {m \in Nat : m \in 0..N => R[m] \subseteq S \intersect C}
    <2>1. 0 \in Q
      BY <1>5, <1>6, <1>7, <1>8 DEF NamesAsBase
    <2>2. ASSUME NEW m \in Nat, m \in Q
          PROVE  m + 1 \in Q
      <3> SUFFICES ASSUME m + 1 \in 0..N PROVE R[m + 1] \subseteq S \intersect C
        OBVIOUS
      <3>1. R[m + 1] = Further(R[m]) /\ R[m] \subseteq S \intersect C
        BY <1>1, <1>5, <2>2
      <3>2. \A b \in S \intersect C : Parents(b, home) \subseteq S \intersect C
        BY <1>6, <1>7, <1>8 DEF NamesAsBase
      <3> QED
        BY <3>1, <3>2
    <2>3. Nat \subseteq Q
      <3> HIDE DEF Q
      <3> QED
        BY <2>1, <2>2, Induction
    <2> QED
      BY <1>1, <2>3
  <1>9. C \in SUBSET Classes /\ IsFiniteSet(Classes)
    BY ClassesFinite DEF ClassesIn
  <1>10. \A n \in 0..N : R[n] \subseteq C /\ R[n] \subseteq Classes
    BY <1>7, <1>8, <1>9
  <1>11. Closed(R[N])
    <2> DEFINE Q == {n \in Nat : n \in 0..N =>
                       /\ Parents(r, home) \subseteq R[n]
                       /\ Closed(R[n]) \/ Cardinality(R[n]) > n}
    <2>1. 0 \in Q
      <3>1. CASE R[0] = {}
        <4>1. \A a : ~NamesAsBase(r, a)
          BY <1>5, <1>6, <3>1
        <4>2. Closed(R[0])
          BY <3>1, <4>1
        <4> QED
          BY <1>5, <4>2
      <3>2. CASE R[0] # {}
        <4>1. 0 \in 0..N
          BY <1>1
        <4>2. R[0] \in SUBSET Classes
          BY <1>10, <4>1
        <4>3. IsFiniteSet(R[0])
          BY <1>9, <4>2, FS_Subset
        <4>4. Cardinality(R[0]) \in Nat /\ Cardinality(R[0]) # 0
          BY <3>2, <4>3, FS_CardinalityType, FS_EmptySet
        <4>5. Cardinality(R[0]) > 0
          BY <4>4
        <4> QED
          BY <1>5, <4>5
      <3> QED
        BY <3>1, <3>2
    <2>2. ASSUME NEW n \in Nat, n \in Q
          PROVE  n + 1 \in Q
      <3> SUFFICES ASSUME n + 1 \in 0..N
                   PROVE  /\ Parents(r, home) \subseteq R[n + 1]
                          /\ Closed(R[n + 1]) \/ Cardinality(R[n + 1]) > n + 1
        OBVIOUS
      <3>1. n \in 0..N /\ R[n + 1] = Further(R[n])
        BY <1>1, <1>5
      <3>2. R[n] \subseteq R[n + 1] /\ R[n + 1] \in SUBSET Classes /\ R[n] \in SUBSET C
        BY <1>10, <3>1
      <3>3. Parents(r, home) \subseteq R[n]
        BY <2>2, <3>1
      <3>4. CASE R[n + 1] = R[n]
        <4>1. \A b \in R[n] : Parents(b, home) \subseteq R[n]
          BY <3>1, <3>4
        <4>2. Closed(R[n])
          BY <1>6, <3>2, <3>3, <4>1
        <4> QED
          BY <3>3, <3>4, <4>2
      <3>5. CASE R[n + 1] # R[n]
        <4>1. ~Closed(R[n])
          <5> SUFFICES ASSUME Closed(R[n]) PROVE R[n + 1] = R[n]
            BY <3>5
          <5>1. \A b \in R[n] : Parents(b, home) \subseteq R[n]
            BY <1>6, <3>2 DEF NamesAsBase
          <5> QED
            BY <3>1, <5>1
        <4>2. Cardinality(R[n]) > n
          BY <2>2, <3>1, <4>1
        <4>3. IsFiniteSet(R[n + 1])
          BY <1>9, <3>2, FS_Subset
        <4>4. R[n] \in SUBSET R[n + 1]
          BY <3>2
        <4>5. /\ IsFiniteSet(R[n]) /\ Cardinality(R[n]) <= Cardinality(R[n + 1])
              /\ Cardinality(R[n + 1]) = Cardinality(R[n]) => R[n + 1] = R[n]
          BY <4>3, <4>4, FS_Subset
        <4>6. Cardinality(R[n]) \in Nat /\ Cardinality(R[n + 1]) \in Nat
          BY <4>3, <4>5, FS_CardinalityType
        <4>7. Cardinality(R[n + 1]) > n + 1
          BY <3>5, <4>2, <4>5, <4>6
        <4> QED
          BY <3>2, <3>3, <4>7
      <3> QED
        BY <3>4, <3>5
    <2>3. Nat \subseteq Q
      <3> HIDE DEF Q
      <3> QED
        BY <2>1, <2>2, Induction
    <2>4. Closed(R[N]) \/ Cardinality(R[N]) > N
      BY <1>1, <2>3
    <2>5. R[N] \in SUBSET Classes
      BY <1>1, <1>10
    <2>6. Cardinality(R[N]) <= N /\ Cardinality(R[N]) \in Nat
      <3>1. IsFiniteSet(R[N]) /\ Cardinality(R[N]) <= N
        BY <1>9, <2>5, FS_Subset DEF N
      <3> QED
        BY <3>1, FS_CardinalityType
    <2> QED
      BY <1>1, <2>4, <2>6
  <1>12. ASSUME NEW a \in R[N]
         PROVE  a \in Classes /\ Inherits(r, a)
    <2>1. \A S \in SUBSET Classes : Closed(S) => R[N] \subseteq S
      BY <1>1, <1>8
    <2> QED
      BY <1>1, <1>10, <2>1 DEF Inherits
  <1>13. ASSUME NEW a \in Classes, Inherits(r, a)
         PROVE  a \in R[N]
    <2>1. R[N] \in SUBSET Classes
      BY <1>1, <1>10
    <2> QED
      BY <1>11, <1>13, <2>1 DEF Inherits
  <1> QED
    BY <1>4, <1>12, <1>13

-----------------------------------------------------------------------------
(* Every pass gives a row the role it is documented to have, when those    *)
(* that come before it have given theirs.                                  *)

(* Each tagging connector comes after the one that is documented before it.*)
InOrder ==
  \A plan \in Plans : \A i \in DOMAIN plan : \A n \in 2..6 :
    plan[i] = Documented[n] => \E j \in 1 .. i - 1 : plan[j] = Documented[n - 1]

(* The rows whose role, by RolesCorrect, is the documented one.            *)
Clear(r) ==
  r \notin old /\ ~Chained(r) /\ ~Masked(r) /\ MetaclassOf(r) \intersect old = {}

(* What the source has for a pass to find.                                 *)
Due(pass, r) ==
  \/ pass = "py-decorator-semantics" /\ Explicit(r) # Nothing
  \/ /\ pass = "py-property-descriptor" /\ Decl(r).kind = "PyFunction"
     /\ \E i \in DOMAIN Decl(r).decorators :
          Meaning(r[1], Decl(r).decorators[i]) \in PropertyNames
  \/ pass = "py-descriptor-semantics" /\ r \in Classes /\ Offers(r, "__get__")
  \/ pass = "py-set-name-semantics" /\ r \in Classes /\ "__set_name__" \in Decl(r).methods
  \/ pass = "py-init-subclass-semantics" /\ r \in Classes /\ Offers(r, "__init_subclass__")
  \/ /\ pass = "metaclass" /\ InOrder /\ r \in Classes /\ Clear(r)
     /\ \E m \in MetaclassOf(r) : OwnRole(m) = "init-subclass-hook"
  \/ pass = "py-class-getitem-semantics" /\ r \in Classes /\ Offers(r, "__class_getitem__")

Served(pass, r) ==
  r \in DOMAIN role /\ (pass = "py-decorator-semantics" => role[r] = Explicit(r))

Done(pass) ==
  \A r \in Tagged : Plain(CorpusOfRow(r)) /\ Due(pass, r) => Served(pass, r)

Completed(c) == Done(c) /\ (c = "py-init-subclass-semantics" => Done("metaclass"))

Prepared(pass) ==
  /\ pass \in {"py-property-descriptor", "py-descriptor-semantics", "py-set-name-semantics",
               "py-init-subclass-semantics", "metaclass", "py-class-getitem-semantics"}
       => Done("py-decorator-semantics")
  /\ pass \in {"py-set-name-semantics", "py-init-subclass-semantics", "metaclass",
               "py-class-getitem-semantics"} => Done("py-descriptor-semantics")
  /\ pass \in {"py-init-subclass-semantics", "metaclass", "py-class-getitem-semantics"}
       => Done("py-set-name-semantics")
  /\ pass \in {"metaclass", "py-class-getitem-semantics"} => Done("py-init-subclass-semantics")
  /\ pass = "py-class-getitem-semantics" => Done("metaclass")

Sound ==
  InOrder =>
    \A r \in Tagged : Plain(CorpusOfRow(r)) /\ Clear(r) /\ r \in DOMAIN role =>
      role[r] = DocumentedRole(r)

LEMMA ExplicitRoles ==
  ASSUME TypeOK, NEW r \in Tagged
  PROVE  Explicit(r) \in {Nothing} \union DecoratorRoles
  <1> DEFINE First == {q \in Promoted(r) : \A y \in Promoted(r) : q[1] <= y[1]}
             I == {q[1] : q \in Promoted(r)}
  <1> SUFFICES ASSUME Promoted(r) # {} PROVE Explicit(r) \in DecoratorRoles
    BY DEF Explicit
  <1>1. I \subseteq Nat /\ I # {}
    BY TaggedRow DEF Promoted
  <1>2. PICK i \in I : \A j \in I : i <= j
    <2> HIDE DEF I
    <2> QED
      BY <1>1, LeastExists
  <1>3. First # {}
    <2>1. PICK q \in Promoted(r) : q[1] = i
      BY <1>2
    <2> QED
      BY <1>2, <2>1
  <1>4. The(First) \in First
    <2> HIDE DEF First
    <2> QED
      BY <1>3, TheIsIn
  <1>5. The(First)[2] \in Promotions /\ Explicit(r) = The(First)[2][3]
    BY <1>4 DEF Explicit, Promoted
  <1> QED
    BY <1>5 DEF Promotions, DecoratorRoles

LEMMA UntaggedRow ==
  ASSUME TypeOK, NEW r
  PROVE  Untagged(r) <=> r \notin DOMAIN role
  BY RoleOfRow DEF Untagged, Role, Get

LEMMA OffersByWalk ==
  ASSUME TypeOK, NEW home \in NameIndexes, NEW r \in Classes, Plain(CorpusOfRow(r)), NEW method
  PROVE  Offers(r, method)
           <=> \/ method \in Decl(r).methods
               \/ \E a \in Ancestors(r, home) : method \in Decl(a).methods
  BY AncestorsInherited DEF Offers

LEMMA ClassRow ==
  ASSUME NEW r \in Classes
  PROVE  r \in Tagged /\ Decl(r).kind = "PyClass"
  BY DEF Classes, Tagged, OfKind

LEMMA ClassRole ==
  ASSUME NEW r \in Classes, Explicit(r) = Nothing
  PROVE  OwnRole(r) = IF Offers(r, "__get__") THEN "descriptor"
                      ELSE IF "__set_name__" \in Decl(r).methods THEN "set-name-hook"
                      ELSE IF Offers(r, "__init_subclass__") THEN "init-subclass-hook"
                      ELSE Nothing
  <1>1. Decl(r).kind # "PyFunction"
    BY ClassRow
  <1> QED
    BY <1>1 DEF OwnRole

(* A metaclass that has no metaclass has the role of its methods.          *)
LEMMA MetaclassRow ==
  ASSUME TypeOK, NEW r \in Classes, Clear(r), NEW m \in MetaclassOf(r)
  PROVE  /\ m \in Classes /\ CorpusOfRow(m) = CorpusOfRow(r) /\ Clear(m)
         /\ DocumentedRole(m) = "init-subclass-hook" <=> OwnRole(m) = "init-subclass-hook"
  <1>1. m \in Classes /\ CorpusOfRow(m) = CorpusOfRow(r)
    BY DEF MetaclassOf, NameKey
  <1>2. m \notin old /\ Decl(m).metaclass = Nothing
    BY DEF Clear, Chained
  <1>3. MetaclassOf(m) = {}
    BY <1>2 DEF MetaclassOf
  <1>4. Clear(m)
    BY <1>2, <1>3 DEF Clear, Chained, Masked
  <1>5. DocumentedRole(m) \in {OwnRole(m)}
          \/ (OwnRole(m) = Nothing /\ DocumentedRole(m) \in {"class-getitem-hook", Nothing})
    BY <1>3 DEF DocumentedRole
  <1>6. "init-subclass-hook" # Nothing
    BY NothingAssumption DEF Roles
  <1> QED
    BY <1>1, <1>4, <1>5, <1>6

(* A metaclass that has the hook shows it, when no more specific role hides*)
(* it, and one that shows it has it.                                       *)
LEMMA MetaclassHook ==
  ASSUME TypeOK, NEW r \in Tagged, Clear(r)
  PROVE  (\E m \in MetaclassOf(r) : Offers(m, "__init_subclass__"))
           <=> \E m \in MetaclassOf(r) : OwnRole(m) = "init-subclass-hook"
  <1>1. ASSUME NEW m \in MetaclassOf(r), OwnRole(m) = "init-subclass-hook"
        PROVE  Offers(m, "__init_subclass__")
    <2>1. m \in Classes /\ m \in Tagged
      BY ClassRow DEF MetaclassOf
    <2>2. Explicit(m) # Nothing => OwnRole(m) = Explicit(m)
      BY DEF OwnRole
    <2>3. Explicit(m) = Nothing
      BY <1>1, <2>1, <2>2, ExplicitRoles DEF DecoratorRoles
    <2> QED
      BY <1>1, <2>1, <2>3, ClassRole, NothingAssumption DEF Roles
  <1>2. \A m \in MetaclassOf(r) :
          Offers(m, "__init_subclass__") => OwnRole(m) = "init-subclass-hook"
    BY DEF Clear, Masked
  <1> QED
    BY <1>1, <1>2

LEMMA MethodTagsOffer ==
  ASSUME TypeOK, NEW home \in NameIndexes, NEW method, NEW tag, NEW r, Plain(CorpusOfRow(r)), NEW x
  PROVE  /\ <<r, x>> \in MethodTags(method, tag, TRUE, home)
              <=> r \in Classes \ DOMAIN role /\ Offers(r, method) /\ x = tag
         /\ <<r, x>> \in MethodTags(method, tag, FALSE, home)
              <=> r \in Classes \ DOMAIN role /\ method \in Decl(r).methods /\ x = tag
  BY OffersByWalk, UntaggedRow DEF MethodTags

LEMMA PropertyTagsMean ==
  ASSUME TypeOK, NEW alias \in AliasIndexes, NEW r, Plain(CorpusOfRow(r)), NEW x
  PROVE  <<r, x>> \in PropertyTags(alias)
           <=> /\ r \in Tagged \ DOMAIN role
               /\ Due("py-property-descriptor", r) /\ x = "property-descriptor"
  <1>1. \A d : Canonical(r[1], d, alias) = Meaning(r[1], d)
    BY CanonicalIsMeaning DEF CorpusOfRow
  <1>2. r \in OfKind({"PyFunction"}) <=> r \in Tagged /\ Decl(r).kind = "PyFunction"
    BY DEF OfKind, Tagged
  <1>3. <<r, x>> \in PropertyTags(alias)
          <=> /\ r \in OfKind({"PyFunction"}) /\ Untagged(r) /\ x = "property-descriptor"
              /\ \E i \in DOMAIN Decl(r).decorators :
                   Canonical(r[1], Decl(r).decorators[i], alias) \in PropertyNames
    BY DEF PropertyTags
  <1> QED
    BY <1>1, <1>2, <1>3, UntaggedRow DEF Due

LEMMA MetaclassTagsMean ==
  ASSUME TypeOK, NEW home \in NameIndexes, NEW r, Plain(CorpusOfRow(r)), NEW x
  PROVE  <<r, x>> \in MetaclassTags(home)
           <=> /\ r \in Classes \ DOMAIN role /\ x = "init-subclass-hook"
               /\ \E m \in MetaclassOf(r) : m \in DOMAIN role /\ role[m] = "init-subclass-hook"
  <1>1. \A d : ResolvesTo(r, d, home)
                 = {a \in Classes : NameKey(a) = <<CorpusOfRow(r), LastSegment(d)>>}
    BY ResolvesToClass
  <1>2. <<r, x>> \in MetaclassTags(home)
          <=> /\ r \in Classes /\ Untagged(r) /\ x = "init-subclass-hook"
              /\ Decl(r).metaclass # Nothing
              /\ \E m \in ResolvesTo(r, Decl(r).metaclass, home) : Role(m) = "init-subclass-hook"
    BY DEF MetaclassTags
  <1>3. \A m : Role(m) = "init-subclass-hook"
                 <=> m \in DOMAIN role /\ role[m] = "init-subclass-hook"
    BY NothingAssumption DEF Role, Get, Roles
  <1>4. r \in Classes /\ Decl(r).metaclass # Nothing =>
          MetaclassOf(r) = ResolvesTo(r, Decl(r).metaclass, home)
    BY <1>1 DEF MetaclassOf
  <1>5. \A m \in MetaclassOf(r) : r \in Classes /\ Decl(r).metaclass # Nothing
    BY DEF MetaclassOf
  <1> QED
    BY <1>2, <1>3, <1>4, <1>5, UntaggedRow

(* What each connector's pass writes, said of the source.                  *)
LEMMA PassTags ==
  ASSUME TypeOK, NEW home \in NameIndexes, NEW alias \in AliasIndexes, NEW pass,
         NEW r \in Tagged, Plain(CorpusOfRow(r)), NEW x
  PROVE  <<r, x>> \in TagsOf(pass, home, alias) <=>
           \/ pass = "py-decorator-semantics" /\ Due(pass, r) /\ x = Explicit(r)
           \/ /\ r \notin DOMAIN role
              /\ \/ pass = "py-property-descriptor" /\ Due(pass, r) /\ x = "property-descriptor"
                 \/ pass = "py-descriptor-semantics" /\ Due(pass, r) /\ x = "descriptor"
                 \/ pass = "py-set-name-semantics" /\ Due(pass, r) /\ x = "set-name-hook"
                 \/ pass = "py-init-subclass-semantics" /\ Due(pass, r) /\ x = "init-subclass-hook"
                 \/ /\ pass = "metaclass" /\ r \in Classes /\ x = "init-subclass-hook"
                    /\ \E m \in MetaclassOf(r) : m \in DOMAIN role /\ role[m] = "init-subclass-hook"
                 \/ pass = "py-class-getitem-semantics" /\ Due(pass, r) /\ x = "class-getitem-hook"
  <1>1. CASE pass = "py-decorator-semantics"
    <2>1. TagsOf(pass, home, alias) = DecoratorTags(alias)
      BY <1>1 DEF TagsOf
    <2> QED
      BY <1>1, <2>1, DecoratorTagsExplicit DEF Due
  <1>2. CASE pass = "py-property-descriptor"
    <2>1. TagsOf(pass, home, alias) = PropertyTags(alias)
      BY <1>2 DEF TagsOf
    <2> QED
      BY <1>2, <2>1, PropertyTagsMean
  <1>3. CASE pass = "py-descriptor-semantics"
    <2>1. TagsOf(pass, home, alias) = MethodTags("__get__", "descriptor", TRUE, home)
      BY <1>3 DEF TagsOf
    <2>2. <<r, x>> \in MethodTags("__get__", "descriptor", TRUE, home)
            <=> r \in Classes \ DOMAIN role /\ Offers(r, "__get__") /\ x = "descriptor"
      BY MethodTagsOffer, Zenon
    <2> QED
      BY <1>3, <2>1, <2>2 DEF Due
  <1>4. CASE pass = "py-set-name-semantics"
    <2>1. TagsOf(pass, home, alias) = MethodTags("__set_name__", "set-name-hook", FALSE, home)
      BY <1>4 DEF TagsOf
    <2>2. <<r, x>> \in MethodTags("__set_name__", "set-name-hook", FALSE, home)
            <=> r \in Classes \ DOMAIN role /\ "__set_name__" \in Decl(r).methods /\ x = "set-name-hook"
      BY MethodTagsOffer, Zenon
    <2> QED
      BY <1>4, <2>1, <2>2 DEF Due
  <1>5. CASE pass = "py-init-subclass-semantics"
    <2>1. TagsOf(pass, home, alias)
            = MethodTags("__init_subclass__", "init-subclass-hook", TRUE, home)
      BY <1>5 DEF TagsOf
    <2>2. <<r, x>> \in MethodTags("__init_subclass__", "init-subclass-hook", TRUE, home)
            <=> r \in Classes \ DOMAIN role /\ Offers(r, "__init_subclass__") /\ x = "init-subclass-hook"
      BY MethodTagsOffer, Zenon
    <2> QED
      BY <1>5, <2>1, <2>2 DEF Due
  <1>6. CASE pass = "metaclass"
    <2>1. TagsOf(pass, home, alias) = MetaclassTags(home)
      BY <1>6 DEF TagsOf
    <2> QED
      BY <1>6, <2>1, MetaclassTagsMean
  <1>7. CASE pass = "py-class-getitem-semantics"
    <2>1. TagsOf(pass, home, alias)
            = MethodTags("__class_getitem__", "class-getitem-hook", TRUE, home)
      BY <1>7 DEF TagsOf
    <2>2. <<r, x>> \in MethodTags("__class_getitem__", "class-getitem-hook", TRUE, home)
            <=> r \in Classes \ DOMAIN role /\ Offers(r, "__class_getitem__") /\ x = "class-getitem-hook"
      BY MethodTagsOffer, Zenon
    <2> QED
      BY <1>7, <2>1, <2>2 DEF Due
  <1>8. CASE pass \notin {"py-decorator-semantics", "py-property-descriptor",
                          "py-descriptor-semantics", "py-set-name-semantics",
                          "py-init-subclass-semantics", "metaclass",
                          "py-class-getitem-semantics"}
    <2>1. TagsOf(pass, home, alias) = {}
      BY <1>8 DEF TagsOf
    <2> QED
      BY <1>8, <2>1
  <1> QED
    BY <1>1, <1>2, <1>3, <1>4, <1>5, <1>6, <1>7, <1>8

(* A role that a pass gives is the documented one.                         *)
LEMMA PassSound ==
  ASSUME TypeOK, Sound, InOrder, NEW home \in NameIndexes, NEW alias \in AliasIndexes,
         NEW pass, Prepared(pass),
         NEW r \in Tagged, Plain(CorpusOfRow(r)), Clear(r),
         NEW x, <<r, x>> \in TagsOf(pass, home, alias)
  PROVE  x = DocumentedRole(r)
  <1> USE NothingAssumption DEF Roles
  <1>1. CASE pass = "py-decorator-semantics"
    <2>1. Explicit(r) # Nothing /\ x = Explicit(r)
      BY <1>1, PassTags DEF Due
    <2> QED
      BY <2>1 DEF DocumentedRole, OwnRole
  <1>2. CASE pass # "py-decorator-semantics"
    <2>1. r \notin DOMAIN role
      BY <1>2, PassTags
    <2>2. Done("py-decorator-semantics")
      BY <1>2, PassTags DEF Prepared
    <2>3. Explicit(r) = Nothing
      BY <2>1, <2>2 DEF Done, Due, Served
    <2>4. CASE Decl(r).kind = "PyFunction"
      <3>1. r \notin Classes
        BY <2>4, ClassRow
      <3>2. Due("py-property-descriptor", r) /\ x = "property-descriptor"
        BY <1>2, <3>1, PassTags DEF Due
      <3>3. OwnRole(r) = "property-descriptor"
        BY <2>3, <2>4, <3>2 DEF OwnRole, Due
      <3> QED
        BY <2>4, <3>2, <3>3 DEF DocumentedRole
    <2>5. CASE Decl(r).kind # "PyFunction"
      <3>1. r \in Classes
        BY <2>5, TaggedRow
      <3>2. OwnRole(r) = IF Offers(r, "__get__") THEN "descriptor"
                         ELSE IF "__set_name__" \in Decl(r).methods THEN "set-name-hook"
                         ELSE IF Offers(r, "__init_subclass__") THEN "init-subclass-hook"
                         ELSE Nothing
        BY <2>3, <3>1, ClassRole
      <3>3. \A p : Done(p) => ~Due(p, r)
        BY <2>1 DEF Done, Served
      <3>4. CASE pass = "py-descriptor-semantics"
        <4>1. Offers(r, "__get__") /\ x = "descriptor"
          BY <3>4, PassTags DEF Due
        <4> QED
          BY <3>2, <4>1 DEF DocumentedRole
      <3>5. CASE pass = "py-set-name-semantics"
        <4>1. "__set_name__" \in Decl(r).methods /\ x = "set-name-hook"
          BY <3>5, PassTags DEF Due
        <4>2. ~Offers(r, "__get__")
          BY <3>1, <3>3, <3>5 DEF Prepared, Due
        <4> QED
          BY <3>2, <4>1, <4>2 DEF DocumentedRole
      <3>6. CASE pass = "py-init-subclass-semantics"
        <4>1. Offers(r, "__init_subclass__") /\ x = "init-subclass-hook"
          BY <3>6, PassTags DEF Due
        <4>2. ~Offers(r, "__get__") /\ "__set_name__" \notin Decl(r).methods
          BY <3>1, <3>3, <3>6 DEF Prepared, Due
        <4> QED
          BY <3>2, <4>1, <4>2 DEF DocumentedRole
      <3>7. CASE pass \in {"metaclass", "py-class-getitem-semantics"}
        <4>1. OwnRole(r) = Nothing
          <5>1. /\ ~Offers(r, "__get__") /\ "__set_name__" \notin Decl(r).methods
                /\ ~Offers(r, "__init_subclass__")
            BY <3>1, <3>3, <3>7 DEF Prepared, Due
          <5> QED
            BY <3>2, <5>1
        <4>2. CASE pass = "metaclass"
          <5>1. PICK m \in MetaclassOf(r) : m \in DOMAIN role /\ role[m] = "init-subclass-hook"
            BY <4>2, PassTags
          <5>2. x = "init-subclass-hook"
            BY <4>2, PassTags
          <5>3. /\ m \in Classes /\ CorpusOfRow(m) = CorpusOfRow(r) /\ Clear(m)
                /\ DocumentedRole(m) = "init-subclass-hook" <=> OwnRole(m) = "init-subclass-hook"
            BY <3>1, MetaclassRow
          <5>4. DocumentedRole(m) = "init-subclass-hook"
            BY <5>1, <5>3, ClassRow DEF Sound
          <5> QED
            BY <2>5, <4>1, <5>2, <5>3, <5>4, MetaclassHook DEF DocumentedRole
        <4>3. CASE pass = "py-class-getitem-semantics"
          <5>1. Offers(r, "__class_getitem__") /\ x = "class-getitem-hook"
            BY <4>3, PassTags DEF Due
          <5>2. ~ \E m \in MetaclassOf(r) : OwnRole(m) = "init-subclass-hook"
            BY <3>1, <3>3, <4>3 DEF Prepared, Due
          <5> QED
            BY <2>5, <4>1, <5>1, <5>2, MetaclassHook DEF DocumentedRole
        <4> QED
          BY <3>7, <4>2, <4>3
      <3>8. pass # "py-property-descriptor"
        BY <2>5, PassTags DEF Due
      <3> QED
        BY <1>2, <3>4, <3>5, <3>6, <3>7, <3>8, PassTags
    <2> QED
      BY <2>4, <2>5
  <1> QED
    BY <1>1, <1>2

(* A pass leaves out no row that the source has for it.                    *)
LEMMA PassComplete ==
  ASSUME TypeOK, Sound, NEW home \in NameIndexes, NEW alias \in AliasIndexes,
         NEW pass, InOrder => Prepared(pass),
         NEW r \in Tagged, Plain(CorpusOfRow(r)), Due(pass, r)
  PROVE  Served(pass, r) \/ \E t \in TagsOf(pass, home, alias) : t[1] = r
  <1> SUFFICES ASSUME ~Served(pass, r)
               PROVE  \E x : <<r, x>> \in TagsOf(pass, home, alias)
    <2>1. ASSUME NEW x, <<r, x>> \in TagsOf(pass, home, alias)
          PROVE  \E t \in TagsOf(pass, home, alias) : t[1] = r
      BY <2>1
    <2> QED
      BY <2>1
  <1>1. CASE pass = "metaclass"
    <2>1. PICK m \in MetaclassOf(r) : OwnRole(m) = "init-subclass-hook"
      BY <1>1 DEF Due
    <2>2. InOrder /\ r \in Classes /\ Clear(r) /\ r \notin DOMAIN role
      BY <1>1 DEF Due, Served
    <2>3. /\ m \in Classes /\ CorpusOfRow(m) = CorpusOfRow(r) /\ Clear(m)
          /\ DocumentedRole(m) = "init-subclass-hook" <=> OwnRole(m) = "init-subclass-hook"
      BY <2>2, MetaclassRow
    <2>4. Explicit(m) = Nothing
      <3>1. Explicit(m) # Nothing => OwnRole(m) = Explicit(m)
        BY DEF OwnRole
      <3> QED
        BY <2>1, <2>3, <3>1, ExplicitRoles, ClassRow DEF DecoratorRoles
    <2>5. Offers(m, "__init_subclass__")
      BY <2>1, <2>3, <2>4, ClassRole, NothingAssumption DEF Roles
    <2>6. m \in DOMAIN role
      <3>1. Done("py-init-subclass-semantics")
        BY <1>1, <2>2 DEF Prepared
      <3>2. Due("py-init-subclass-semantics", m)
        BY <2>3, <2>5 DEF Due
      <3> QED
        BY <2>3, <3>1, <3>2, ClassRow DEF Done, Served
    <2>7. role[m] = "init-subclass-hook"
      BY <2>1, <2>2, <2>3, <2>6, ClassRow DEF Sound
    <2>8. <<r, "init-subclass-hook">> \in TagsOf(pass, home, alias)
      BY <1>1, <2>2, <2>6, <2>7, PassTags
    <2> QED
      BY <2>8
  <1>2. CASE pass = "py-decorator-semantics"
    BY <1>2, PassTags
  <1>3. CASE pass \notin {"metaclass", "py-decorator-semantics"}
    <2>1. r \notin DOMAIN role
      BY <1>3 DEF Served
    <2> QED
      BY <1>3, <2>1, PassTags DEF Due
  <1> QED
    BY <1>1, <1>2, <1>3

-----------------------------------------------------------------------------
(* What a step leaves of the roles, and of what the passes are done with.  *)

(* What the current pass is going to write: what the decorators mean, or a *)
(* role for rows that have none.                                           *)
DecoratorInv ==
  phase = "write" =>
    IF Head(passes) = "py-decorator-semantics"
    THEN \A t \in tags : Plain(CorpusOfRow(t[1])) => t[2] = Explicit(t[1])
    ELSE \A t \in tags : t[1] \notin DOMAIN role /\ \A u \in tags : t[2] = u[2]

(* No role is taken from a row, or replaced by one its decorators do not   *)
(* give.                                                                   *)
Kept ==
  \A r \in DOMAIN role :
    /\ r \in DOMAIN role'
    /\ Plain(CorpusOfRow(r)) => role'[r] \in {role[r], Explicit(r)}

LEMMA WriteKeeps ==
  ASSUME TypeOK, DecoratorInv, NEW t \in tags, WriteRole(t)
  PROVE  /\ Kept
         /\ DOMAIN role' = DOMAIN role \union {t[1]} /\ role'[t[1]] = t[2]
         /\ \A r \in DOMAIN role \ {t[1]} : role'[r] = role[r]
         /\ \A u \in tags \ {t} : Head(passes) # "py-decorator-semantics" => u[1] # t[1]
  <1>1. /\ DOMAIN role' = DOMAIN role \union {t[1]}
        /\ \A r \in DOMAIN role' : role'[r] = IF r = t[1] THEN t[2] ELSE role[r]
    BY DEF WriteRole, Put
  <1>2. phase = "write"
    BY DEF WriteRole
  <1>3. Kept
    BY <1>1, <1>2 DEF DecoratorInv, Kept
  <1>4. \A u \in tags : u = <<u[1], u[2]>>
    BY DEF TypeOK
  <1>5. \A u \in tags \ {t} : Head(passes) # "py-decorator-semantics" => u[1] # t[1]
    BY <1>2, <1>4 DEF DecoratorInv
  <1> QED
    BY <1>1, <1>3, <1>5

LEMMA StepKeeps ==
  ASSUME TypeOK, DecoratorInv, ConnectNext, ~ \E f \in File : \E text : Extract(f, text)
  PROVE  Kept /\ UNCHANGED <<stored, old>>
  <1>1. CASE \E t \in tags : WriteRole(t)
    BY <1>1, WriteKeeps DEF WriteRole, history
  <1>2. CASE ~ \E t \in tags : WriteRole(t)
    <2>1. UNCHANGED <<role, stored, old>>
      BY <1>2 DEF ConnectNext, graph, history, Begin, Synthesize, Read, WriteLink, EndOfPass,
           Return, Refuse, Interrupt
    <2> QED
      BY <2>1 DEF Kept
  <1> QED
    BY <1>1, <1>2

LEMMA SameSource ==
  ASSUME TypeOK, TypeOK', UNCHANGED <<stored, old>>
  PROVE  /\ Tagged' = Tagged
         /\ \A k : Plain(k)' <=> Plain(k)
         /\ \A r \in Tagged :
              /\ Explicit(r)' = Explicit(r)
              /\ DocumentedRole(r)' = DocumentedRole(r)
              /\ Clear(r)' <=> Clear(r)
              /\ \A pass : Due(pass, r)' <=> Due(pass, r)
  <1>1. \A k : SameRows(k)
    BY SameStored
  <1>2. Tagged' = Tagged /\ Classes' = Classes
    BY <1>1, SameClasses
  <1>3. \A k : Plain(k)' <=> Plain(k)
    BY <1>1, SamePlain
  <1>4. ASSUME NEW r \in Tagged
        PROVE  /\ Explicit(r)' = Explicit(r)
               /\ DocumentedRole(r)' = DocumentedRole(r)
               /\ Clear(r)' <=> Clear(r)
               /\ \A pass : Due(pass, r)' <=> Due(pass, r)
    <2>1. /\ Explicit(r)' = Explicit(r) /\ DocumentedRole(r)' = DocumentedRole(r)
          /\ MetaclassOf(r)' = MetaclassOf(r)
          /\ (Chained(r)' <=> Chained(r)) /\ (Masked(r)' <=> Masked(r))
          /\ Decl(r)' = Decl(r)
      BY <1>1, SameExplicit, SameDocumentedRole, SameMetaclass, SameClasses
    <2>2. Clear(r)' <=> Clear(r)
      BY <2>1 DEF Clear
    <2>3. \A d : Meaning(r[1], d)' = Meaning(r[1], d)
      BY <1>1, SameMeaning
    <2>4. \A method : r \in Classes => (Offers(r, method)' <=> Offers(r, method))
      BY <1>1, SameOffers
    <2>5. \A m \in MetaclassOf(r) : OwnRole(m)' = OwnRole(m)
      BY <1>1, SameOwnRole, ClassRow DEF MetaclassOf
    <2>6. \A pass : Due(pass, r)' <=> Due(pass, r)
      BY <1>2, <2>1, <2>2, <2>3, <2>4, <2>5 DEF Due
    <2> QED
      BY <2>1, <2>2, <2>6
  <1> QED
    BY <1>2, <1>3, <1>4

LEMMA DoneKept ==
  ASSUME TypeOK, TypeOK', UNCHANGED <<stored, old>>, Kept
  PROVE  /\ \A pass : Done(pass) => Done(pass)'
         /\ \A c : Completed(c) => Completed(c)'
  <1>1. ASSUME NEW pass, Done(pass) PROVE Done(pass)'
    <2> SUFFICES ASSUME NEW r \in Tagged', Plain(CorpusOfRow(r))', Due(pass, r)'
                 PROVE  Served(pass, r)'
      BY DEF Done
    <2>1. r \in Tagged /\ Plain(CorpusOfRow(r)) /\ Due(pass, r) /\ Explicit(r)' = Explicit(r)
      BY SameSource DEF CorpusOfRow
    <2>2. Served(pass, r)
      BY <1>1, <2>1 DEF Done
    <2> QED
      BY <2>1, <2>2 DEF Served, Kept
  <1> QED
    BY <1>1 DEF Completed

(* Where a run is: the connectors that are not in todo have been through,  *)
(* and so have the passes of the running one that are not in passes.       *)
Through(n) == \A i \in 1 .. n : Completed(asked[i])

Positions ==
  phase # "idle" =>
    /\ todo \in Seq(Connector) /\ Len(todo) <= Len(asked)
    /\ \A i \in 1 .. Len(todo) : todo[i] = asked[Len(asked) - Len(todo) + i]
    /\ Through(Len(asked) - Len(todo))

Running ==
  phase \in {"read", "write"} =>
    \/ passes = PassesOf(Head(todo))
    \/ /\ Head(todo) = "py-init-subclass-semantics" /\ passes = <<"metaclass">>
       /\ Done("py-init-subclass-semantics")

Awaited ==
  phase = "write" =>
    \A r \in Tagged : Plain(CorpusOfRow(r)) /\ Due(Head(passes), r) =>
      Served(Head(passes), r) \/ \E t \in tags : t[1] = r

Settled == \A i \in DOMAIN settled : Completed(settled[i])

RunInv == Positions /\ Running /\ Awaited /\ Settled

(* Roles that a pass is going to write are the documented ones.            *)
TagsSound ==
  InOrder =>
    \A t \in tags : Plain(CorpusOfRow(t[1])) /\ Clear(t[1]) => t[2] = DocumentedRole(t[1])

RolesInv == IInv /\ DecoratorInv /\ RunInv /\ Sound /\ TagsSound

LEMMA PlansAreSequences ==
  ASSUME IInv, phase # "idle"
  PROVE  asked \in Seq(Connector) /\ asked # <<>> /\ Len(asked) \in Nat /\ asked \in Plans
  BY PlansAssumption DEF IInv, AskedInv

(* The passes that are documented to come before this one are done with.   *)
LEMMA Preparation ==
  ASSUME RolesInv, InOrder, phase = "read"
  PROVE  Prepared(Head(passes))
  <1> DEFINE n == Len(asked) - Len(todo) + 1
             D == Documented
  <1>1. asked \in Seq(Connector) /\ asked \in Plans
    BY PlansAreSequences DEF RolesInv
  <1>2. todo \in Seq(Connector) /\ todo # <<>> /\ Len(todo) <= Len(asked)
    BY DEF RolesInv, RunInv, Positions, IInv, TypeOK
  <1>3. n \in 1 .. Len(asked) /\ Head(todo) = asked[n] /\ Through(n - 1)
    <2>1. Len(todo) \in Nat \ {0} /\ Len(asked) \in Nat
      BY <1>1, <1>2
    <2>2. todo[1] = asked[Len(asked) - Len(todo) + 1] /\ Through(Len(asked) - Len(todo))
      BY <2>1 DEF RolesInv, RunInv, Positions
    <2> QED
      BY <1>2, <2>1, <2>2
  <1>4. ASSUME NEW i \in 1 .. n, NEW k \in 2..6, asked[i] = D[k]
        PROVE  \E j \in 1 .. n - 1 : j < i /\ asked[j] = D[k - 1]
    <2>1. i \in DOMAIN asked
      BY <1>1, <1>3
    <2>2. PICK j \in 1 .. i - 1 : asked[j] = D[k - 1]
      <3> HIDE DEF n
      <3> QED
        BY <1>1, <1>4, <2>1 DEF InOrder
    <2>3. j \in 1 .. n - 1 /\ j < i
      <3> HIDE DEF n
      <3> QED
        BY <1>3
    <2> QED
      BY <2>2, <2>3
  <1>5. \A i \in 1 .. n, k \in 2..6 : asked[i] = D[k] => Completed(D[k - 1])
    <2> HIDE DEF n, D
    <2> QED
      BY <1>3, <1>4 DEF Through
  <1>6. /\ D[1] = "py-decorator-semantics" /\ D[2] = "py-property-descriptor"
        /\ D[3] = "py-descriptor-semantics" /\ D[4] = "py-set-name-semantics"
        /\ D[5] = "py-init-subclass-semantics" /\ D[6] = "py-class-getitem-semantics"
    BY DEF Documented
  <1>7. \A i \in 1 .. n, k \in 2..6 : asked[i] = D[k] =>
          \A l \in 1 .. k - 1 : Completed(D[l])
    <2> DEFINE P(k) == \A i \in 1 .. n : asked[i] = D[k] => \A l \in 1 .. k - 1 : Completed(D[l])
    <2>1. \A k \in 2..6 : \A i \in 1 .. n : asked[i] = D[k] =>
            Completed(D[k - 1]) /\ \E j \in 1 .. n : asked[j] = D[k - 1]
      <3> SUFFICES ASSUME NEW k \in 2..6, NEW i \in 1 .. n, asked[i] = D[k]
                   PROVE  Completed(D[k - 1]) /\ \E j \in 1 .. n : asked[j] = D[k - 1]
        OBVIOUS
      <3> HIDE DEF n, D
      <3>1. PICK j \in 1 .. n - 1 : asked[j] = D[k - 1]
        BY <1>4
      <3>2. j \in 1 .. n
        BY <1>3
      <3> QED
        BY <1>5, <3>1, <3>2
    <2> HIDE DEF n, D
    <2>2. P(2)
      <3>1. 2 - 1 = 1 /\ 1 .. 1 = {1}
        OBVIOUS
      <3> QED
        BY <2>1, <3>1
    <2>3. \A k \in 3..6 : P(k - 1) => P(k)
      <3> SUFFICES ASSUME NEW k \in 3..6, P(k - 1), NEW i \in 1 .. n, asked[i] = D[k],
                          NEW l \in 1 .. k - 1
                   PROVE  Completed(D[l])
        OBVIOUS
      <3>1. Completed(D[k - 1]) /\ \E j \in 1 .. n : asked[j] = D[k - 1]
        BY <2>1
      <3>2. l = k - 1 \/ l \in 1 .. (k - 1) - 1
        OBVIOUS
      <3> QED
        BY <3>1, <3>2
    <2>4. P(3) /\ P(4) /\ P(5) /\ P(6)
      <3>1. P(3)
        BY <2>2, <2>3
      <3>2. P(4)
        BY <2>3, <3>1
      <3>3. P(5)
        BY <2>3, <3>2
      <3> QED
        BY <2>3, <3>1, <3>2, <3>3
    <2> QED
      BY <2>2, <2>4
  <1>8. Head(passes) = Head(todo)
          \/ (/\ Head(passes) = "metaclass" /\ Head(todo) = D[5]
              /\ Done("py-init-subclass-semantics"))
    BY <1>6 DEF RolesInv, RunInv, Running, PassesOf
  <1>9. Head(todo) # "metaclass"
    BY <1>2 DEF Connector
  <1>10. \A k \in 2..6 : Head(todo) = D[k] => \A l \in 1 .. k - 1 : Completed(D[l])
    <2> HIDE DEF n, D
    <2> QED
      BY <1>3, <1>7
  <1> HIDE DEF n, D
  <1>11. \A l \in 1..6 : Completed(D[l]) => Done(D[l])
    BY DEF Completed
  <1>12. Completed(D[5]) => Done("metaclass")
    BY <1>6 DEF Completed
  <1> QED
    BY <1>6, <1>8, <1>9, <1>10, <1>11, <1>12 DEF Prepared

-----------------------------------------------------------------------------
(* Every step keeps what is said of roles and runs.                        *)

LEMMA InitRoles == ConnectInit => RolesInv
  <1> SUFFICES ASSUME ConnectInit PROVE RolesInv
    OBVIOUS
  <1>1. IInv
    BY InitInv
  <1>2. phase = "idle" /\ tags = {} /\ settled = <<>> /\ DOMAIN role = {}
    BY DEF ConnectInit, EmptyMap
  <1> QED
    BY <1>1, <1>2 DEF RolesInv, DecoratorInv, RunInv, Positions, Running, Awaited, Settled, Sound, TagsSound

(* A step that touches no row, no role and nothing that is to be written.  *)
LEMMA Steady ==
  ASSUME RolesInv, IInv', UNCHANGED <<stored, old, role>>
  PROVE  /\ Sound'
         /\ tags' \subseteq tags => TagsSound'
         /\ \A pass : Done(pass) => Done(pass)'
         /\ \A c : Completed(c) => Completed(c)'
         /\ \A n : Through(n) /\ UNCHANGED asked => Through(n)'
         /\ UNCHANGED settled => Settled'
         /\ \A r \in Tagged' : \A pass :
              /\ r \in Tagged
              /\ Plain(CorpusOfRow(r))' /\ Due(pass, r)' => Plain(CorpusOfRow(r)) /\ Due(pass, r)
              /\ Served(pass, r) => Served(pass, r)'
  <1> USE DEF RolesInv, IInv
  <1>1. Kept
    BY DEF Kept
  <1>2. /\ \A pass : Done(pass) => Done(pass)'
        /\ \A c : Completed(c) => Completed(c)'
    BY <1>1, DoneKept
  <1>3. /\ Tagged' = Tagged
        /\ \A k : Plain(k)' <=> Plain(k)
        /\ \A r : CorpusOfRow(r)' = CorpusOfRow(r)
        /\ \A r \in Tagged :
              /\ Explicit(r)' = Explicit(r)
              /\ DocumentedRole(r)' = DocumentedRole(r)
              /\ Clear(r)' <=> Clear(r)
              /\ \A pass : Due(pass, r)' <=> Due(pass, r)
    BY SameSource DEF CorpusOfRow
  <1>4. Sound'
    BY <1>3 DEF Sound
  <1>5. ASSUME tags' \subseteq tags PROVE TagsSound'
    <2>1. \A t \in tags : t[1] \in Tagged
      BY DEF TypeOK
    <2> QED
      BY <1>3, <1>5, <2>1 DEF TagsSound
  <1>6. \A n : Through(n) /\ UNCHANGED asked => Through(n)'
    BY <1>2 DEF Through
  <1>7. UNCHANGED settled => Settled'
    BY <1>2 DEF RunInv, Settled
  <1>8. \A r \in Tagged' : \A pass :
              /\ r \in Tagged
              /\ Plain(CorpusOfRow(r))' /\ Due(pass, r)' => Plain(CorpusOfRow(r)) /\ Due(pass, r)
              /\ Served(pass, r) => Served(pass, r)'
    BY <1>3 DEF Served
  <1> QED
    BY <1>2, <1>4, <1>5, <1>6, <1>7, <1>8

LEMMA BeginRoles ==
  ASSUME RolesInv, NEW plan \in Plans, Begin(plan)
  PROVE  RolesInv'
  <1> USE DEF RolesInv, Begin, graph, bounds
  <1>1. IInv'
    BY BeginInv
  <1>2. Sound' /\ TagsSound'
    BY <1>1, Steady
  <1>3. plan \in Seq(Connector) /\ plan # <<>>
    BY PlansAssumption
  <1>4. Through(0)'
    BY DEF Through
  <1>5. Settled'
    BY <1>1, Steady
  <1>6. RunInv'
    <2>1. /\ todo' \in Seq(Connector) /\ todo' = asked' /\ Len(todo') \in Nat
          /\ Len(todo') <= Len(asked') /\ Len(asked') - Len(todo') = 0
          /\ \A i \in 1 .. Len(todo') : todo'[i] = asked'[Len(asked') - Len(todo') + i]
      BY <1>3
    <2> QED
      BY <1>4, <1>5, <2>1 DEF RunInv, Positions, Running, Awaited
  <1>7. DecoratorInv'
    BY DEF DecoratorInv
  <1> QED
    BY <1>1, <1>2, <1>6, <1>7

LEMMA SynthesizeRoles ==
  ASSUME RolesInv, Synthesize
  PROVE  RolesInv'
  <1> USE DEF RolesInv, Synthesize, graph, history, bounds
  <1>1. IInv'
    BY SynthesizeInv
  <1>2. Sound' /\ TagsSound' /\ Settled'
    BY <1>1, Steady
  <1>3. \A n : Through(n) => Through(n)'
    BY <1>1, Steady
  <1>4. RunInv'
    BY <1>2, <1>3 DEF RunInv, Positions, Running, Awaited
  <1>5. DecoratorInv'
    BY DEF DecoratorInv
  <1> QED
    BY <1>1, <1>2, <1>4, <1>5

LEMMA ReadRoles ==
  ASSUME RolesInv, Read
  PROVE  RolesInv'
  <1> USE DEF RolesInv, Read, graph, history, bounds
  <1>1. IInv'
    BY ReadInv
  <1>2. PICK home \in NameIndexes, alias \in AliasIndexes :
          tags' = TagsOf(Head(passes), home, alias)
    OBVIOUS
  <1>3. TypeOK /\ TypeOK' /\ phase = "read"
    BY <1>1 DEF IInv
  <1>4. /\ Sound' /\ Settled'
        /\ \A n : Through(n) => Through(n)'
        /\ \A pass : Done(pass) => Done(pass)'
    BY <1>1, Steady
  <1>5. /\ Tagged' = Tagged
        /\ \A k : Plain(k)' <=> Plain(k)
        /\ \A r : CorpusOfRow(r)' = CorpusOfRow(r)
        /\ \A r \in Tagged :
              /\ Explicit(r)' = Explicit(r)
              /\ DocumentedRole(r)' = DocumentedRole(r)
              /\ Clear(r)' <=> Clear(r)
    BY <1>3, SameSource DEF CorpusOfRow
  <1>6. InOrder => Prepared(Head(passes))
    BY <1>3, Preparation
  <1>7. \A t \in tags' : t[1] \in Tagged /\ t = <<t[1], t[2]>>
    BY <1>3, <1>5 DEF TypeOK
  <1>8. TagsSound'
    <2> SUFFICES ASSUME InOrder, NEW t \in tags', Plain(CorpusOfRow(t[1]))', Clear(t[1])'
                 PROVE  t[2] = DocumentedRole(t[1])'
      BY DEF TagsSound
    <2>1. /\ t[1] \in Tagged /\ Plain(CorpusOfRow(t[1])) /\ Clear(t[1])
          /\ DocumentedRole(t[1])' = DocumentedRole(t[1])
      BY <1>5, <1>7
    <2>2. <<t[1], t[2]>> \in TagsOf(Head(passes), home, alias)
      BY <1>2, <1>7
    <2>3. t[2] = DocumentedRole(t[1])
      BY <1>3, <1>6, <2>1, <2>2, PassSound
    <2> QED
      BY <2>1, <2>3
  <1>9. DecoratorInv'
    <2>1. CASE Head(passes) = "py-decorator-semantics"
      <3> SUFFICES ASSUME NEW t \in tags', Plain(CorpusOfRow(t[1]))'
                   PROVE  t[2] = Explicit(t[1])'
        BY <2>1 DEF DecoratorInv
      <3>1. /\ t[1] \in Tagged /\ Plain(CorpusOfRow(t[1])) /\ Explicit(t[1])' = Explicit(t[1])
        BY <1>5, <1>7
      <3>2. <<t[1], t[2]>> \in TagsOf(Head(passes), home, alias)
        BY <1>2, <1>7
      <3>3. t[2] = Explicit(t[1])
        BY <1>3, <2>1, <3>1, <3>2, PassTags
      <3> QED
        BY <3>1, <3>3
    <2>2. CASE Head(passes) # "py-decorator-semantics"
      <3>1. /\ \A t \in tags' : t[1] \notin DOMAIN role
            /\ \A t, u \in tags' : t[2] = u[2]
        BY <1>2, <1>3, <2>2, TagsFresh
      <3> QED
        BY <2>2, <3>1 DEF DecoratorInv
    <2> QED
      BY <2>1, <2>2
  <1>10. RunInv'
    <2>1. ASSUME NEW r \in Tagged', Plain(CorpusOfRow(r))', Due(Head(passes), r)'
          PROVE  Served(Head(passes), r)' \/ \E t \in tags' : t[1] = r
      <3>1. /\ r \in Tagged /\ Plain(CorpusOfRow(r)) /\ Due(Head(passes), r)
            /\ Served(Head(passes), r) => Served(Head(passes), r)'
        BY <1>1, <2>1, Steady
      <3>2. Served(Head(passes), r)
              \/ \E t \in TagsOf(Head(passes), home, alias) : t[1] = r
        BY <1>3, <1>6, <3>1, PassComplete
      <3> QED
        BY <1>2, <3>1, <3>2
    <2> QED
      BY <1>3, <1>4, <2>1 DEF RunInv, Positions, Running, Awaited
  <1> QED
    BY <1>1, <1>4, <1>8, <1>9, <1>10

LEMMA WriteRoleRoles ==
  ASSUME RolesInv, NEW t \in tags, WriteRole(t)
  PROVE  RolesInv'
  <1> USE DEF RolesInv, WriteRole, history, bounds
  <1>1. IInv' /\ TypeOK /\ TypeOK' /\ phase = "write" /\ phase' = "write"
    BY WriteRoleInv DEF IInv
  <1>2. /\ Kept
        /\ DOMAIN role' = DOMAIN role \union {t[1]} /\ role'[t[1]] = t[2]
        /\ \A r \in DOMAIN role \ {t[1]} : role'[r] = role[r]
        /\ \A u \in tags \ {t} : Head(passes) # "py-decorator-semantics" => u[1] # t[1]
    BY <1>1, WriteKeeps
  <1>3. /\ \A pass : Done(pass) => Done(pass)'
        /\ \A c : Completed(c) => Completed(c)'
    BY <1>1, <1>2, DoneKept
  <1>4. /\ Tagged' = Tagged
        /\ \A k : Plain(k)' <=> Plain(k)
        /\ \A r : CorpusOfRow(r)' = CorpusOfRow(r)
        /\ \A r \in Tagged :
              /\ Explicit(r)' = Explicit(r)
              /\ DocumentedRole(r)' = DocumentedRole(r)
              /\ Clear(r)' <=> Clear(r)
              /\ \A pass : Due(pass, r)' <=> Due(pass, r)
    BY <1>1, SameSource DEF CorpusOfRow
  <1>5. \A u \in tags : u[1] \in Tagged
    BY <1>1 DEF TypeOK
  <1>6. TagsSound'
    BY <1>4, <1>5 DEF TagsSound
  <1>7. Sound'
    <2> SUFFICES ASSUME InOrder, NEW r \in Tagged', Plain(CorpusOfRow(r))', Clear(r)',
                        r \in DOMAIN role'
                 PROVE  role'[r] = DocumentedRole(r)'
      BY DEF Sound
    <2>1. /\ r \in Tagged /\ Plain(CorpusOfRow(r)) /\ Clear(r)
          /\ DocumentedRole(r)' = DocumentedRole(r)
      BY <1>4
    <2>2. CASE r = t[1]
      BY <1>2, <2>1, <2>2 DEF TagsSound
    <2>3. CASE r # t[1]
      BY <1>2, <2>1, <2>3 DEF Sound
    <2> QED
      BY <2>2, <2>3
  <1>8. DecoratorInv'
    <2>1. CASE Head(passes) = "py-decorator-semantics"
      BY <1>1, <1>4, <1>5, <2>1 DEF DecoratorInv
    <2>2. CASE Head(passes) # "py-decorator-semantics"
      BY <1>1, <1>2, <2>2 DEF DecoratorInv
    <2> QED
      BY <2>1, <2>2
  <1>9. Awaited'
    <2> SUFFICES ASSUME NEW r \in Tagged', Plain(CorpusOfRow(r))', Due(Head(passes), r)',
                        \A u \in tags' : u[1] # r
                 PROVE  Served(Head(passes), r)'
      BY DEF Awaited
    <2>1. /\ r \in Tagged /\ Plain(CorpusOfRow(r)) /\ Due(Head(passes), r)
          /\ Explicit(r)' = Explicit(r)
      BY <1>4
    <2>2. CASE r = t[1]
      <3>1. Head(passes) = "py-decorator-semantics" => t[2] = Explicit(r)
        BY <1>1, <2>1, <2>2 DEF DecoratorInv
      <3> QED
        BY <1>2, <2>1, <2>2, <3>1 DEF Served
    <2>3. CASE r # t[1]
      <3>1. Served(Head(passes), r)
        BY <1>1, <2>1, <2>3 DEF RunInv, Awaited
      <3> QED
        BY <1>2, <2>1, <2>3, <3>1 DEF Served
    <2> QED
      BY <2>2, <2>3
  <1>10. Positions' /\ Running' /\ Settled'
    BY <1>1, <1>3 DEF RunInv, Positions, Through, Running, Settled
  <1> QED
    BY <1>1, <1>6, <1>7, <1>8, <1>9, <1>10 DEF RunInv

LEMMA WriteLinkRoles ==
  ASSUME RolesInv, NEW e \in links, WriteLink(e)
  PROVE  RolesInv'
  <1> USE DEF RolesInv, WriteLink, history, bounds
  <1>1. IInv' /\ TypeOK /\ TypeOK'
    BY WriteLinkInv DEF IInv
  <1>2. /\ Sound' /\ TagsSound' /\ Settled'
        /\ \A n : Through(n) => Through(n)'
        /\ \A pass : Done(pass) => Done(pass)'
    BY <1>1, Steady
  <1>3. Awaited'
    BY <1>1, Steady DEF RunInv, Awaited
  <1>4. DecoratorInv'
    BY <1>1, SameSource DEF DecoratorInv, CorpusOfRow, TypeOK
  <1>5. Positions' /\ Running'
    BY <1>2 DEF RunInv, Positions, Running
  <1> QED
    BY <1>1, <1>2, <1>3, <1>4, <1>5 DEF RunInv

LEMMA EndOfPassRoles ==
  ASSUME RolesInv, EndOfPass
  PROVE  RolesInv'
  <1> USE DEF RolesInv, EndOfPass, graph, history, bounds
  <1>1. IInv' /\ TypeOK /\ TypeOK' /\ phase = "write" /\ phase' # "write"
    BY EndOfPassInv DEF IInv
  <1>2. /\ Sound' /\ TagsSound' /\ Settled'
        /\ \A n : Through(n) => Through(n)'
        /\ \A pass : Done(pass) => Done(pass)'
        /\ \A c : Completed(c) => Completed(c)'
    BY <1>1, Steady
  <1>3. Awaited' /\ DecoratorInv'
    BY <1>1 DEF Awaited, DecoratorInv
  <1>4. Done(Head(passes))
    BY <1>1 DEF RunInv, Awaited, Done
  <1>5. todo \in Seq(Connector) /\ todo # <<>> /\ Head(todo) \in Connector
    BY <1>1 DEF RunInv, Positions, TypeOK
  <1> DEFINE both == <<"py-init-subclass-semantics", "metaclass">>
  <1>6. /\ \/ passes = <<Head(todo)>> /\ Head(todo) # "py-init-subclass-semantics"
           \/ passes = both /\ Head(todo) = "py-init-subclass-semantics"
           \/ /\ passes = <<"metaclass">> /\ Head(todo) = "py-init-subclass-semantics"
              /\ Done("py-init-subclass-semantics")
    BY <1>1 DEF RunInv, Running, PassesOf
  <1>7. /\ \A c : Tail(<<c>>) = <<>> /\ Head(<<c>>) = c
        /\ Tail(both) = <<"metaclass">> /\ Head(both) = "py-init-subclass-semantics"
        /\ <<"metaclass">> # <<>>
    <2>1. ASSUME NEW c PROVE Tail(<<c>>) = <<>> /\ Head(<<c>>) = c
      OBVIOUS
    <2> QED
      BY <2>1
  <1>8. CASE Tail(passes) # <<>>
    <2>1. passes = both /\ Head(todo) = "py-init-subclass-semantics"
      BY <1>6, <1>7, <1>8
    <2>2. passes' = <<"metaclass">> /\ phase' = "read" /\ todo' = todo
      BY <1>7, <1>8, <2>1
    <2>3. Running'
      BY <1>2, <1>4, <1>7, <2>1, <2>2 DEF Running
    <2>4. Positions'
      BY <1>1, <1>2, <2>2 DEF RunInv, Positions
    <2> QED
      BY <1>1, <1>2, <1>3, <2>3, <2>4 DEF RunInv
  <1>9. CASE Tail(passes) = <<>>
    <2>1. Completed(Head(todo))
      <3>1. CASE Head(todo) = "py-init-subclass-semantics"
        <4>1. passes = <<"metaclass">> /\ Done("py-init-subclass-semantics")
          BY <1>6, <1>7, <1>9, <3>1
        <4> QED
          BY <1>4, <1>7, <3>1, <4>1 DEF Completed
      <3>2. CASE Head(todo) # "py-init-subclass-semantics"
        BY <1>4, <1>6, <1>7, <3>2 DEF Completed
      <3> QED
        BY <3>1, <3>2
    <2>2. phase' = "next" /\ todo' = Tail(todo)
      BY <1>9
    <2>3. /\ Len(todo) \in Nat \ {0} /\ Len(asked) \in Nat
          /\ \E n \in Nat : n = Len(asked) - Len(todo)
      <3>1. asked \in Seq(Connector) /\ Len(asked) \in Nat
        BY <1>1, PlansAreSequences
      <3>2. Len(todo) \in Nat \ {0} /\ Len(todo) <= Len(asked)
        BY <1>1, <1>5 DEF RunInv, Positions
      <3> QED
        BY <3>1, <3>2
    <2> PICK n \in Nat : n = Len(asked) - Len(todo)
      BY <2>3
    <2>4. Head(todo) = asked[n + 1]
      BY <1>1, <1>5, <2>3 DEF RunInv, Positions
    <2>5. Through(n + 1)
      <3>1. Through(n)
        BY <1>1 DEF RunInv, Positions
      <3> QED
        BY <2>1, <2>3, <2>4, <3>1 DEF Through
    <2>6. /\ todo' \in Seq(Connector) /\ Len(todo') = Len(todo) - 1
          /\ \A i \in 1 .. Len(todo') : todo'[i] = todo[i + 1]
      BY <1>5, <2>2
    <2>7. \A i \in 1 .. Len(todo') : todo'[i] = asked[Len(asked) - Len(todo') + i]
      <3> SUFFICES ASSUME NEW i \in 1 .. Len(todo')
                   PROVE  todo'[i] = asked[Len(asked) - Len(todo') + i]
        OBVIOUS
      <3>1. i + 1 \in 1 .. Len(todo) /\ Len(asked) - Len(todo') + i = n + (i + 1)
        BY <2>3, <2>6
      <3>2. todo[i + 1] = asked[n + (i + 1)]
        BY <1>1, <3>1 DEF RunInv, Positions
      <3> QED
        BY <2>6, <3>1, <3>2
    <2>8. Len(asked') - Len(todo') = n + 1
      BY <2>3, <2>6
    <2>9. Positions'
      <3>1. Through(n + 1)'
        BY <1>2, <2>5
      <3>2. Through(Len(asked) - Len(todo))'
        BY <2>8, <3>1, Zenon
      <3> QED
        BY <2>3, <2>6, <2>7, <3>2 DEF Positions
    <2>10. Running'
      BY <2>2 DEF Running
    <2> QED
      BY <1>1, <1>2, <1>3, <2>9, <2>10 DEF RunInv
  <1> QED
    BY <1>8, <1>9

LEMMA EndOfRunRoles ==
  ASSUME RolesInv, Return \/ Refuse \/ Interrupt
  PROVE  RolesInv'
  <1> USE DEF RolesInv
  <1>1. EndRun /\ UNCHANGED <<stored, role, old>> /\ phase' = "idle" /\ tags' = {}
    BY DEF Return, Refuse, Interrupt, graph, EndRun
  <1>2. IInv'
    BY EndOfRunInv
  <1>3. /\ Sound' /\ TagsSound'
        /\ \A c : Completed(c) => Completed(c)'
    BY <1>1, <1>2, Steady
  <1>4. Settled'
    <2>1. CASE settled' = <<>>
      BY <2>1 DEF Settled
    <2>2. CASE Return
      <3>1. settled' = asked /\ todo = <<>> /\ phase = "next"
        BY <2>2 DEF Return
      <3>2. Len(todo) = 0 /\ asked \in Seq(Connector) /\ Len(asked) \in Nat
        BY <3>1, PlansAreSequences
      <3>3. Through(Len(asked))
        BY <3>1, <3>2 DEF RunInv, Positions
      <3> QED
        BY <1>3, <3>1, <3>2, <3>3 DEF Settled, Through
    <2> QED
      BY <2>1, <2>2 DEF Refuse, Interrupt
  <1>5. Positions' /\ Running' /\ Awaited' /\ DecoratorInv'
    BY <1>1 DEF Positions, Running, Awaited, DecoratorInv
  <1> QED
    BY <1>2, <1>3, <1>4, <1>5 DEF RunInv

LEMMA StutterRoles == RolesInv /\ UNCHANGED connectVars => RolesInv'
  <1> SUFFICES ASSUME RolesInv, UNCHANGED connectVars PROVE RolesInv'
    OBVIOUS
  <1> USE DEF RolesInv, connectVars, graph, run, history, bounds
  <1>1. IInv' /\ TypeOK /\ TypeOK'
    BY StutterInv DEF IInv
  <1>2. /\ Sound' /\ TagsSound' /\ Settled'
        /\ \A n : Through(n) => Through(n)'
        /\ \A pass : Done(pass) => Done(pass)'
    BY <1>1, Steady
  <1>3. Awaited'
    BY <1>1, Steady DEF RunInv, Awaited
  <1>4. DecoratorInv'
    BY <1>1, SameSource DEF DecoratorInv, CorpusOfRow, TypeOK
  <1>5. Positions' /\ Running'
    BY <1>2 DEF RunInv, Positions, Running
  <1> QED
    BY <1>1, <1>2, <1>3, <1>4, <1>5 DEF RunInv

(* An extract makes every role of the corpus that stays an old one, and    *)
(* changes no Python row of another corpus.                                *)
LEMMA ExtractRoles ==
  ASSUME RolesInv, NEW f \in File, NEW text, Extract(f, text)
  PROVE  RolesInv'
  <1> USE DEF RolesInv
  <1>1. IInv' /\ TypeOK /\ TypeOK'
    BY ExtractInv DEF IInv
  <1>2. /\ phase' = "idle" /\ tags' = {} /\ settled' = <<>>
        /\ stored' = [stored EXCEPT ![f] = text] /\ DOMAIN stored = File
    BY <1>1 DEF Extract, run, IInv, LinksInv, TypeOK
  <1>3. /\ DOMAIN role' = DOMAIN role \ RowsOf(f)
        /\ \A r \in DOMAIN role' : role'[r] = role[r]
        /\ old' = (old \union MayDependOn(f)) \ RowsOf(f)
    BY DEF Extract, RolesWithout, Restrict
  <1>4. ASSUME NEW k, ~(SourceOf[f] = "py" /\ CorpusOf[f] = k)
        PROVE  SameRows(k)
    <2> SUFFICES ASSUME NEW r, r[1] \in File, SourceOf[r[1]] = "py", CorpusOf[r[1]] = k
                 PROVE  (r \in Rows' <=> r \in Rows) /\ Decl(r)' = Decl(r)
      BY DEF SameRows
    <2>1. stored'[r[1]] = stored[r[1]]
      BY <1>2, <1>4
    <2>2. \A g : r \in RowsOf(g) => g = r[1]
      BY DEF RowsOf
    <2>3. \A g : r \in RowsOf(g)' => g = r[1]
      BY DEF RowsOf
    <2>4. r \in RowsOf(r[1])' <=> r \in RowsOf(r[1])
      BY <2>1 DEF RowsOf
    <2> QED
      BY <2>1, <2>2, <2>3, <2>4 DEF Rows, Decl
  <1>5. Sound'
    <2> SUFFICES ASSUME InOrder, NEW r \in Tagged', Plain(CorpusOfRow(r))', Clear(r)',
                        r \in DOMAIN role'
                 PROVE  role'[r] = DocumentedRole(r)'
      BY DEF Sound
    <2> DEFINE k == CorpusOfRow(r)
    <2>1. r \in DOMAIN role /\ r \notin RowsOf(f) /\ r \in Tagged /\ role'[r] = role[r]
      BY <1>1, <1>3 DEF TypeOK
    <2>2. r \notin old' /\ CorpusOfRow(r)' = k
      BY DEF Clear, CorpusOfRow
    <2>3. ~(SourceOf[f] = "py" /\ CorpusOf[f] = k)
      BY <1>3, <2>1, <2>2 DEF MayDependOn
    <2>4. SameRows(k)
      BY <1>4, <2>3
    <2>5. /\ DocumentedRole(r)' = DocumentedRole(r)
          /\ MetaclassOf(r)' = MetaclassOf(r)
          /\ (Chained(r)' <=> Chained(r)) /\ (Masked(r)' <=> Masked(r))
          /\ Plain(k)' <=> Plain(k)
      BY <1>1, <2>1, <2>4, SameDocumentedRole, SameMetaclass, SamePlain
    <2>6. \A m \in MetaclassOf(r) : m \in old => m \in old'
      <3> SUFFICES ASSUME NEW m \in MetaclassOf(r), m \in old PROVE m \notin RowsOf(f)
        BY <1>3
      <3>1. m \in Tagged /\ CorpusOfRow(m) = k
        BY ClassRow DEF MetaclassOf, NameKey
      <3>2. SourceOf[m[1]] = "py" /\ CorpusOf[m[1]] = k
        BY <1>1, <3>1, TaggedRow DEF CorpusOfRow
      <3> QED
        BY <2>3, <3>2 DEF RowsOf
    <2>7. Clear(r)
      BY <1>3, <2>1, <2>2, <2>5, <2>6 DEF Clear
    <2>8. Plain(CorpusOfRow(r))
      BY <2>2, <2>5
    <2> QED
      BY <2>1, <2>5, <2>7, <2>8 DEF Sound
  <1>6. TagsSound' /\ DecoratorInv' /\ Positions' /\ Running' /\ Awaited' /\ Settled'
    BY <1>2 DEF TagsSound, DecoratorInv, Positions, Running, Awaited, Settled
  <1> QED
    BY <1>1, <1>5, <1>6 DEF RunInv

LEMMA NextRoles == RolesInv /\ [ConnectNext]_connectVars => RolesInv'
  BY ExtractRoles, BeginRoles, SynthesizeRoles, ReadRoles, WriteRoleRoles, WriteLinkRoles,
     EndOfPassRoles, EndOfRunRoles, StutterRoles DEF ConnectNext

THEOREM RolesInvariance == ConnectSpec => []RolesInv
  BY InitRoles, NextRoles, PTL DEF ConnectSpec

LEMMA KeepsOrExplains ==
  RolesInv /\ [ConnectNext]_connectVars =>
    \A r \in DOMAIN role :
      \/ stored'[r[1]] # stored[r[1]]
      \/ /\ r \in DOMAIN role'
         /\ role'[r] \in {role[r], Explicit(r)} \/ ~Plain(CorpusOfRow(r))
  <1> SUFFICES ASSUME RolesInv, [ConnectNext]_connectVars, NEW r \in DOMAIN role,
                      stored'[r[1]] = stored[r[1]]
               PROVE  /\ r \in DOMAIN role'
                      /\ role'[r] \in {role[r], Explicit(r)} \/ ~Plain(CorpusOfRow(r))
    OBVIOUS
  <1> USE DEF RolesInv
  <1>1. ASSUME NEW f \in File, NEW text, Extract(f, text)
        PROVE  r \in DOMAIN role' /\ role'[r] = role[r]
    <2>1. stored'[f] # stored[f]
      BY <1>1 DEF Extract, IInv, TypeOK
    <2>2. r \notin RowsOf(f)
      BY <2>1 DEF RowsOf
    <2> QED
      BY <1>1, <2>2 DEF Extract, RolesWithout, Restrict
  <1>2. CASE UNCHANGED connectVars
    BY <1>2 DEF connectVars, graph
  <1>3. CASE ConnectNext /\ ~ \E f \in File : \E text : Extract(f, text)
    BY <1>3, StepKeeps DEF IInv, Kept
  <1> QED
    BY <1>1, <1>2, <1>3

(* No role is lost while its row stays, and none is replaced but by what   *)
(* the row's own decorators say: for connectors run in any order, cut short*)
(* anywhere, with extracts in between.                                     *)
THEOREM RolesAreKept == ConnectSpec => RolesKept
  BY RolesInvariance, KeepsOrExplains, PTL DEF ConnectSpec, RolesKept

(* What the decorators say is the role, once the decorator connector has   *)
(* run: the second part of RolesCorrect.                                   *)
ExplicitWins ==
  phase = "idle" =>
    \A r \in Tagged :
      Plain(CorpusOfRow(r)) /\ Ran("py-decorator-semantics") /\ Explicit(r) # Nothing =>
        Role(r) = Explicit(r)

LEMMA ExplicitRole == RolesInv => ExplicitWins
  <1> SUFFICES ASSUME RolesInv, NEW r \in Tagged, Plain(CorpusOfRow(r)),
                      Ran("py-decorator-semantics"), Explicit(r) # Nothing
               PROVE  Role(r) = Explicit(r)
    BY DEF ExplicitWins
  <1>1. Done("py-decorator-semantics")
    BY DEF RolesInv, RunInv, Settled, Ran, Completed
  <1> QED
    BY <1>1 DEF Done, Due, Served, Role, Get

(* Explicit beats inferred: whichever connectors run before or after it.   *)
THEOREM ExplicitBeatsInferred == ConnectSpec => []ExplicitWins
  BY RolesInvariance, ExplicitRole, PTL

(* A row that every pass leaves without a role is documented to have none. *)
LEMMA NoRoleIsDue ==
  ASSUME TypeOK, InOrder, NEW r \in Tagged, Clear(r),
         \A n \in DOMAIN Documented : ~Due(Documented[n], r), ~Due("metaclass", r)
  PROVE  DocumentedRole(r) = Nothing
  <1>1. /\ ~Due("py-decorator-semantics", r) /\ ~Due("py-property-descriptor", r)
        /\ ~Due("py-descriptor-semantics", r) /\ ~Due("py-set-name-semantics", r)
        /\ ~Due("py-init-subclass-semantics", r) /\ ~Due("py-class-getitem-semantics", r)
    <2>1. DOMAIN Documented = 1..6
      BY DEF Documented
    <2>2. \A n \in 1..6 : ~Due(Documented[n], r)
      BY <2>1
    <2>3. /\ Documented[1] = "py-decorator-semantics" /\ Documented[2] = "py-property-descriptor"
          /\ Documented[3] = "py-descriptor-semantics" /\ Documented[4] = "py-set-name-semantics"
          /\ Documented[5] = "py-init-subclass-semantics"
          /\ Documented[6] = "py-class-getitem-semantics"
      BY DEF Documented
    <2> QED
      BY <2>2, <2>3
  <1>2. Explicit(r) = Nothing
    BY <1>1 DEF Due
  <1>3. CASE Decl(r).kind = "PyFunction"
    BY <1>1, <1>2, <1>3 DEF Due, OwnRole, DocumentedRole
  <1>4. CASE Decl(r).kind # "PyFunction"
    <2>1. r \in Classes
      BY <1>4, TaggedRow
    <2>2. OwnRole(r) = Nothing
      BY <1>1, <1>2, <2>1, ClassRole DEF Due
    <2>3. ~ \E m \in MetaclassOf(r) : OwnRole(m) = "init-subclass-hook"
      BY <2>1 DEF Due
    <2> QED
      BY <1>1, <1>4, <2>1, <2>2, <2>3, MetaclassHook DEF Due, DocumentedRole
  <1> QED
    BY <1>3, <1>4

LEMMA RolesRight == InOrder /\ RolesInv => RolesCorrect
  <1> SUFFICES ASSUME InOrder, RolesInv, phase = "idle", NEW r \in Tagged, Plain(CorpusOfRow(r))
               PROVE  /\ settled = Documented =>
                           r \in old \/ Chained(r) \/ Masked(r)
                             \/ MetaclassOf(r) \intersect old # {}
                             \/ Role(r) = DocumentedRole(r)
                      /\ Ran("py-decorator-semantics") /\ Explicit(r) # Nothing =>
                           Role(r) = Explicit(r)
    BY DEF RolesCorrect
  <1>1. ASSUME settled = Documented, Clear(r)
        PROVE  Role(r) = DocumentedRole(r)
    <2>1. CASE r \in DOMAIN role
      BY <1>1, <2>1 DEF RolesInv, Sound, Role, Get
    <2>2. CASE r \notin DOMAIN role
      <3>1. \A n \in DOMAIN Documented : Completed(Documented[n])
        BY <1>1 DEF RolesInv, RunInv, Settled
      <3>2. 5 \in DOMAIN Documented /\ Documented[5] = "py-init-subclass-semantics"
        BY DEF Documented
      <3>3. (\A n \in DOMAIN Documented : Done(Documented[n])) /\ Done("metaclass")
        BY <3>1, <3>2 DEF Completed
      <3>4. \A pass : Done(pass) => ~Due(pass, r)
        BY <2>2 DEF Done, Served
      <3>5. DocumentedRole(r) = Nothing
        BY <1>1, <3>3, <3>4, NoRoleIsDue DEF RolesInv, IInv
      <3> QED
        BY <2>2, <3>5 DEF Role, Get
    <2> QED
      BY <2>1, <2>2
  <1>2. Ran("py-decorator-semantics") /\ Explicit(r) # Nothing => Role(r) = Explicit(r)
    BY ExplicitRole DEF ExplicitWins
  <1> QED
    BY <1>1, <1>2 DEF Clear

(* Roles are right, when every plan has each connector after the one that  *)
(* is documented before it: a complete run of all of them gives every      *)
(* function and class that was not tagged under another state of its corpus*)
(* the most specific role its source gives it, whatever was interrupted,   *)
(* extracted or tagged before.                                             *)
THEOREM RolesAreCorrect ==
  ASSUME InOrder
  PROVE  ConnectSpec => []RolesCorrect
  BY RolesInvariance, RolesRight, PTL

=============================================================================
