------------------------------- MODULE GoMaps -------------------------------
(***************************************************************************)
(* Go maps as functions whose domain is the set of present keys, and the   *)
(* index maps of the program, map[string]sets.String, on top of them.      *)
(***************************************************************************)
EXTENDS Functions

\* The maps with keys in K and values in V.
MapOf(K, V) == UNION {[D -> V] : D \in SUBSET K}

EmptyMap == [k \in {} |-> {}]

\* m[k] = v
Put(m, k, v) == [x \in DOMAIN m \cup {k} |-> IF x = k THEN v ELSE m[x]]

\* delete(m, k)
Drop(m, k) == Restrict(m, DOMAIN m \ {k})

\* The set an index holds under k; an absent key reads as the empty set.
At(idx, k) == IF k \in DOMAIN idx THEN idx[k] ELSE {}

\* if set, ok := idx[k]; ok { idx[k] = set.Insert(e) } else { idx[k] = NewString(e) }
AddTo(idx, k, e) == Put(idx, k, At(idx, k) \cup {e})

\* For every key of K: delete the entry that is exactly {e}, else take e out of it.
TakeFrom(idx, K, e) ==
  [k \in {x \in DOMAIN idx : ~(x \in K /\ idx[x] = {e})} |->
     IF k \in K THEN idx[k] \ {e} ELSE idx[k]]

\* Two indexes are each other's inverse and keep no key without members.
Mirror(idx, inv) ==
  /\ \A x \in DOMAIN idx : idx[x] # {} /\ \A y \in idx[x] : x \in At(inv, y)
  /\ \A y \in DOMAIN inv : inv[y] # {} /\ \A x \in inv[y] : y \in At(idx, x)
=============================================================================
