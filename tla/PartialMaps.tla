---------------------------- MODULE PartialMaps ----------------------------
(***************************************************************************)
(* Python dictionaries as TLA+ functions whose domain is the set of keys.  *)
(* Restrict (from Functions) plays the part of a filtered copy.            *)
(***************************************************************************)
EXTENDS Functions

EmptyMap == [x \in {} |-> x]

(* d[k] = v *)
Put(d, k, v) == [x \in DOMAIN d \union {k} |-> IF x = k THEN v ELSE d[x]]

(* for k in keys: d[k] = v *)
PutAll(d, keys, v) ==
  [x \in DOMAIN d \union keys |-> IF x \in keys THEN v ELSE d[x]]

(* d.get(k, default) *)
Get(d, k, default) == IF k \in DOMAIN d THEN d[k] ELSE default

(* {k: v for k, v in d.items() if v not in values} *)
DropValues(d, values) == Restrict(d, {k \in DOMAIN d : d[k] \notin values})

=============================================================================
