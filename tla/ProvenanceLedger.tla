-------------------------- MODULE ProvenanceLedger --------------------------
(***************************************************************************)
(* What a knowledge-graph backend promises about provenance, with nothing  *)
(* said about names, cases, aliases or indices: a ledger of which sources  *)
(* vouch for which entity and for which triple.                            *)
(*                                                                         *)
(* The point of the abstraction is Retract.  In the backend, deleting a    *)
(* document deletes nodes, and a deleted node takes every incident edge    *)
(* with it.  The ledger has no such cascade: a claim disappears on a       *)
(* retraction exactly when the retracted source is one of its sources.     *)
(***************************************************************************)
EXTENDS PartialMaps, FiniteSets

CONSTANTS Entity, Relation, Source

VARIABLES held,    \* entity -> the sources that mention it
          claims   \* triple -> the (nonempty) set of sources that state it

lvars == <<held, claims>>

Triple == [subject: Entity, predicate: Relation, object: Entity]

(* The triple with every occurrence of `from' as an endpoint replaced.     *)
Rename(t, from, to) ==
  [subject   |-> IF t.subject = from THEN to ELSE t.subject,
   predicate |-> t.predicate,
   object    |-> IF t.object = from THEN to ELSE t.object]

IsLoop(t) == t.subject = t.object

LInit == held = EmptyMap /\ claims = EmptyMap

(* A document vouches for up to two entities (an entity record may credit  *)
(* its sources to two records: see UpsertEntity of NetworkXBackend).       *)
Vouch(e1, S1, e2, S2) ==
  /\ UNCHANGED claims
  /\ LET first == Put(held, e1, Get(held, e1, {}) \union S1)
     IN  held' = Put(first, e2, Get(first, e2, {}) \union S2)

(* Sources S state a triple: they vouch for both endpoints too.            *)
State(t, S) ==
  /\ ~ IsLoop(t)
  /\ LET first == Put(held, t.subject, Get(held, t.subject, {}) \union S)
     IN  held' = Put(first, t.object, Get(first, t.object, {}) \union S)
  /\ claims' = IF S = {} THEN claims
               ELSE Put(claims, t, Get(claims, t, {}) \union S)

(* A source is withdrawn: entities it alone vouched for go, and so does    *)
(* every claim it made, and nothing else.                                  *)
Retract(s) ==
  /\ held' = [e \in {x \in DOMAIN held : held[x] # {s}} |-> held[e] \ {s}]
  /\ claims' = Restrict(claims, {t \in DOMAIN claims : s \notin claims[t]})

(* Two entities are one: `dup' goes, `can' inherits its sources.  A claim  *)
(* that survives was made by a source of a claim it stands for; support    *)
(* may be forgotten here, never invented.                                  *)
Absorb(can, dup) ==
  /\ can # dup
  /\ {can, dup} \subseteq DOMAIN held
  /\ held' = [e \in DOMAIN held \ {dup} |->
                IF e = can THEN held[can] \union held[dup] ELSE held[e]]
  /\ \A t \in DOMAIN claims' :
       /\ claims'[t] # {}
       /\ ~ IsLoop(t)
       /\ \E u \in DOMAIN claims :
            Rename(u, dup, can) = t /\ claims'[t] = claims[u]

LNext ==
  \/ \E s \in Source : Retract(s)
  \/ \E can, dup \in Entity : Absorb(can, dup)
  \/ \E t \in Triple, S \in SUBSET Source : State(t, S)
  \/ \E e1, e2 \in Entity, S1, S2 \in SUBSET Source : Vouch(e1, S1, e2, S2)

LSpec == LInit /\ [][LNext]_lvars

=============================================================================
