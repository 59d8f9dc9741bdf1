--------------------------- MODULE LibraryProofs ---------------------------
(***************************************************************************)
(* What the operators of GoMaps and WorkQueue return, for every map and    *)
(* every queue.  Of the maps: their typing, the set they leave under each  *)
(* key, and that a pair of inverse indexes stays one.  Of the queue: its   *)
(* operations keep it in order, with each item that waits queued once,     *)
(* unless it is being processed, and lose nothing.                         *)
(***************************************************************************)
EXTENDS GoMaps, WorkQueue, SequencesExt, FiniteSetTheorems, TLAPS


\* The empty map is a map of every type.
LEMMA EmptyMapType == ASSUME NEW K, NEW V PROVE EmptyMap \in MapOf(K, V)
  <1>1. EmptyMap \in [{} -> V] BY DEF EmptyMap
  <1> QED BY <1>1 DEF MapOf

\* A map of a type has keys and values of that type, and conversely.
LEMMA MapOfElim ==
  ASSUME NEW K, NEW V, NEW m \in MapOf(K, V)
  PROVE  /\ DOMAIN m \subseteq K
         /\ m \in [DOMAIN m -> V]
         /\ \A k \in DOMAIN m : m[k] \in V
  BY DEF MapOf

\* A function on keys of K into V is a map of that type.
LEMMA MapOfIntro ==
  ASSUME NEW K, NEW V, NEW D \in SUBSET K, NEW m \in [D -> V]
  PROVE  m \in MapOf(K, V)
  BY DEF MapOf

\* Assigning a typed value to a typed key keeps the type of a map.
LEMMA PutType ==
  ASSUME NEW K, NEW V, NEW m \in MapOf(K, V), NEW k \in K, NEW v \in V
  PROVE  Put(m, k, v) \in MapOf(K, V)
  <1>1. DOMAIN m \subseteq K /\ \A x \in DOMAIN m : m[x] \in V BY MapOfElim
  <1>2. Put(m, k, v) \in [DOMAIN m \cup {k} -> V] BY <1>1 DEF Put
  <1> QED BY <1>1, <1>2, MapOfIntro

\* Keeping some keys keeps the type of a map; Drop is a case of it.
LEMMA RestrictType ==
  ASSUME NEW K, NEW V, NEW m \in MapOf(K, V), NEW S \in SUBSET DOMAIN m
  PROVE  Restrict(m, S) \in MapOf(K, V)
  <1>1. DOMAIN m \subseteq K /\ \A x \in DOMAIN m : m[x] \in V BY MapOfElim
  <1>2. Restrict(m, S) \in [S -> V] BY <1>1 DEF Restrict
  <1> QED BY <1>1, <1>2, MapOfIntro

\* delete(m, k) keeps the type of a map (DeleteSubnet, DeletePodDHCPLease).
LEMMA DropType ==
  ASSUME NEW K, NEW V, NEW m \in MapOf(K, V), NEW k
  PROVE  Drop(m, k) \in MapOf(K, V)
  BY RestrictType DEF Drop

\* The set under any key is a set of members.
LEMMA AtType ==
  ASSUME NEW K, NEW E, NEW idx \in MapOf(K, SUBSET E), NEW k
  PROVE  At(idx, k) \in SUBSET E
  BY MapOfElim DEF At

\* Inserting a member into an index keeps its type (AddPodDHCPLease).
LEMMA AddToType ==
  ASSUME NEW K, NEW E, NEW idx \in MapOf(K, SUBSET E), NEW k \in K, NEW e \in E
  PROVE  AddTo(idx, k, e) \in MapOf(K, SUBSET E)
  <1>1. At(idx, k) \cup {e} \in SUBSET E BY AtType
  <1> QED BY <1>1, PutType DEF AddTo

\* Taking a member out of an index keeps its type (DeletePodDHCPLease).
LEMMA TakeFromType ==
  ASSUME NEW K, NEW E, NEW idx \in MapOf(K, SUBSET E), NEW Ks, NEW e
  PROVE  TakeFrom(idx, Ks, e) \in MapOf(K, SUBSET E)
  <1>1. DOMAIN idx \subseteq K /\ \A x \in DOMAIN idx : idx[x] \in SUBSET E
    BY MapOfElim
  <1> DEFINE D == {x \in DOMAIN idx : ~(x \in Ks /\ idx[x] = {e})}
  <1>2. TakeFrom(idx, Ks, e) \in [D -> SUBSET E] BY <1>1 DEF TakeFrom
  <1> QED BY <1>1, <1>2, MapOfIntro

\* The keys and the members an AddTo leaves.
LEMMA AddToMembers ==
  ASSUME NEW idx, NEW k, NEW e
  PROVE  /\ DOMAIN AddTo(idx, k, e) = DOMAIN idx \cup {k}
         /\ \A x, z : z \in At(AddTo(idx, k, e), x) <=>
                        z \in At(idx, x) \/ (x = k /\ z = e)
  BY DEF AddTo, Put, At

\* The keys and the members a TakeFrom leaves.
LEMMA TakeFromMembers ==
  ASSUME NEW idx, NEW Ks, NEW e
  PROVE  /\ \A x : x \in DOMAIN TakeFrom(idx, Ks, e) <=>
                     x \in DOMAIN idx /\ ~(x \in Ks /\ idx[x] = {e})
         /\ \A x, z : z \in At(TakeFrom(idx, Ks, e), x) <=>
                        z \in At(idx, x) /\ ~(x \in Ks /\ z = e)
  BY DEF TakeFrom, At

\* The keys and the members a Drop leaves.
LEMMA DropMembers ==
  ASSUME NEW idx, NEW k
  PROVE  /\ DOMAIN Drop(idx, k) = DOMAIN idx \ {k}
         /\ \A x, z : z \in At(Drop(idx, k), x) <=> z \in At(idx, x) /\ x # k
  BY DEF Drop, Restrict, At

\* Mirror says that membership in one index is membership in the other.
LEMMA MirrorAt ==
  ASSUME NEW idx, NEW inv
  PROVE  Mirror(idx, inv) <=>
           /\ \A x \in DOMAIN idx : At(idx, x) # {}
           /\ \A y \in DOMAIN inv : At(inv, y) # {}
           /\ \A x, y : y \in At(idx, x) <=> x \in At(inv, y)
  BY DEF Mirror, At

\* Adding a pair to both indexes keeps them inverse (AddPodDHCPLease).
LEMMA MirrorAddTo ==
  ASSUME NEW idx, NEW inv, Mirror(idx, inv), NEW x, NEW y
  PROVE  Mirror(AddTo(idx, x, y), AddTo(inv, y, x))
  <1> DEFINE fwd == AddTo(idx, x, y)
             bwd == AddTo(inv, y, x)
  <1>1. /\ \A a \in DOMAIN idx : At(idx, a) # {}
        /\ \A b \in DOMAIN inv : At(inv, b) # {}
        /\ \A a, b : b \in At(idx, a) <=> a \in At(inv, b)
    BY MirrorAt
  <1>2. /\ DOMAIN fwd = DOMAIN idx \cup {x}
        /\ \A a, b : b \in At(fwd, a) <=> b \in At(idx, a) \/ (a = x /\ b = y)
    BY AddToMembers
  <1>3. /\ DOMAIN bwd = DOMAIN inv \cup {y}
        /\ \A b, a : a \in At(bwd, b) <=> a \in At(inv, b) \/ (b = y /\ a = x)
    BY AddToMembers
  <1> HIDE DEF fwd, bwd
  <1>4. \A a \in DOMAIN fwd : At(fwd, a) # {} BY <1>1, <1>2
  <1>5. \A b \in DOMAIN bwd : At(bwd, b) # {} BY <1>1, <1>3
  <1>6. \A a, b : b \in At(fwd, a) <=> a \in At(bwd, b) BY <1>1, <1>2, <1>3
  <1>7. Mirror(fwd, bwd) BY <1>4, <1>5, <1>6, MirrorAt
  <1> QED BY <1>7 DEF fwd, bwd

\* Removing y from the sets of its members and then y itself keeps two
\* indexes inverse (DeletePodDHCPLease).
LEMMA MirrorTakeFrom ==
  ASSUME NEW idx, NEW inv, Mirror(idx, inv), NEW y \in DOMAIN inv
  PROVE  Mirror(TakeFrom(idx, inv[y], y), Drop(inv, y))
  <1> DEFINE fwd == TakeFrom(idx, inv[y], y)
             bwd == Drop(inv, y)
  <1>1. /\ \A a \in DOMAIN idx : At(idx, a) # {}
        /\ \A b \in DOMAIN inv : At(inv, b) # {}
        /\ \A a, b : b \in At(idx, a) <=> a \in At(inv, b)
    BY MirrorAt
  <1>2. /\ \A a : a \in DOMAIN fwd <=>
                   a \in DOMAIN idx /\ ~(a \in inv[y] /\ idx[a] = {y})
        /\ \A a, b : b \in At(fwd, a) <=> b \in At(idx, a) /\ ~(a \in inv[y] /\ b = y)
    BY TakeFromMembers
  <1>3. /\ DOMAIN bwd = DOMAIN inv \ {y}
        /\ \A b, a : a \in At(bwd, b) <=> a \in At(inv, b) /\ b # y
    BY DropMembers
  <1>4. inv[y] = At(inv, y) /\ \A a \in DOMAIN idx : idx[a] = At(idx, a) BY DEF At
  <1> HIDE DEF fwd, bwd
  <1>5. \A a \in DOMAIN fwd : At(fwd, a) # {}
    <2> SUFFICES ASSUME NEW a \in DOMAIN fwd PROVE At(fwd, a) # {}
      OBVIOUS
    <2>1. a \in DOMAIN idx /\ At(idx, a) # {} BY <1>1, <1>2
    <2>2. CASE a \notin inv[y] BY <2>1, <2>2, <1>2
    <2>3. CASE a \in inv[y]
      <3>1. At(idx, a) # {y} /\ y \in At(idx, a) BY <2>1, <2>3, <1>1, <1>2, <1>4
      <3>2. PICK b \in At(idx, a) : b # y BY <3>1
      <3> QED BY <2>3, <3>2, <1>2
    <2> QED BY <2>2, <2>3
  <1>6. \A b \in DOMAIN bwd : At(bwd, b) # {} BY <1>1, <1>3
  <1>7. \A a, b : b \in At(fwd, a) <=> a \in At(bwd, b)
    BY <1>1, <1>2, <1>3, <1>4
  <1>8. Mirror(fwd, bwd) BY <1>5, <1>6, <1>7, MirrorAt
  <1> QED BY <1>8 DEF fwd, bwd

-----------------------------------------------------------------------------
(***************************************************************************)
(* The queue.                                                              *)
(***************************************************************************)
QueueOf(E) == [order : Seq(E), dirty : SUBSET E, running : SUBSET E, later : SUBSET E]

\* A queue of items of E as the program can have it.
QueueOK(q, E) ==
  /\ q \in QueueOf(E)
  /\ ToSet(q.order) = q.dirty \ q.running /\ IsInjective(q.order)

(***************************************************************************)
(* Sequences without repetitions.                                          *)
(***************************************************************************)
LEMMA AppendOnce ==
  ASSUME NEW E, NEW s \in Seq(E), NEW e \in E, IsInjective(s), e \notin ToSet(s)
  PROVE  ToSet(Append(s, e)) = ToSet(s) \cup {e} /\ IsInjective(Append(s, e))
  <1>1. DOMAIN s = 1 .. Len(s) /\ Len(s) \in Nat OBVIOUS
  <1>2. DOMAIN Append(s, e) = 1 .. Len(s) + 1 OBVIOUS
  <1>3. \A i \in 1 .. Len(s) : Append(s, e)[i] = s[i] OBVIOUS
  <1>4. Append(s, e)[Len(s) + 1] = e OBVIOUS
  <1>5. \A i \in DOMAIN s : s[i] # e BY DEF ToSet
  <1>6. ToSet(Append(s, e)) = ToSet(s) \cup {e} BY <1>1, <1>2, <1>3, <1>4 DEF ToSet
  <1>7. IsInjective(Append(s, e)) BY <1>1, <1>2, <1>3, <1>4, <1>5 DEF IsInjective
  <1> QED BY <1>6, <1>7

\* The members of a longer and of a shorter sequence.
LEMMA NoteSet ==
  ASSUME NEW E, NEW s \in Seq(E), NEW e \in E
  PROVE  ToSet(s \o <<e>>) = ToSet(s) \cup {e}
  <1> DEFINE t == s \o <<e>>
  <1>1. /\ Len(s) \in Nat /\ DOMAIN s = 1 .. Len(s) /\ DOMAIN t = 1 .. Len(s) + 1
        /\ (\A i \in 1 .. Len(s) : t[i] = s[i]) /\ t[Len(s) + 1] = e
    OBVIOUS
  <1> HIDE DEF t
  <1> QED BY <1>1 DEF ToSet, t

LEMMA TailSet ==
  ASSUME NEW E, NEW s \in Seq(E), s # <<>>
  PROVE  Head(s) \in E /\ ToSet(s) = {Head(s)} \cup ToSet(Tail(s))
  <1> DEFINE t == Tail(s)
  <1>1. /\ Len(s) \in Nat \ {0} /\ DOMAIN s = 1 .. Len(s) /\ DOMAIN t = 1 .. Len(s) - 1
        /\ (\A i \in 1 .. Len(s) - 1 : t[i] = s[i + 1]) /\ Head(s) = s[1] /\ Head(s) \in E
    OBVIOUS
  <1>2. \A i \in 2 .. Len(s) : i - 1 \in 1 .. Len(s) - 1 /\ t[i - 1] = s[i] BY <1>1
  <1> HIDE DEF t
  <1>3. \A i \in DOMAIN s : i = 1 \/ i \in 2 .. Len(s) BY <1>1
  <1>4. \A i \in DOMAIN t : i + 1 \in DOMAIN s BY <1>1
  <1>5. ASSUME NEW i \in DOMAIN s PROVE s[i] \in {Head(s)} \cup ToSet(t)
    <2>1. CASE i = 1 BY <1>1, <2>1
    <2>2. CASE i # 1
      <3>1. i \in 2 .. Len(s) BY <1>3, <2>2
      <3>2. i - 1 \in DOMAIN t /\ t[i - 1] = s[i] BY <1>1, <1>2, <3>1
      <3> QED BY <3>2 DEF ToSet
    <2> QED BY <2>1, <2>2
  <1>6. ASSUME NEW i \in DOMAIN t PROVE t[i] \in ToSet(s) BY <1>1, <1>4, <1>6 DEF ToSet
  <1>7. Head(s) \in ToSet(s)
    <2>1. 1 \in DOMAIN s BY <1>1
    <2> QED BY <1>1, <2>1 DEF ToSet
  <1> QED BY <1>1, <1>5, <1>6, <1>7 DEF ToSet, t

LEMMA TailOnce ==
  ASSUME NEW E, NEW s \in Seq(E), s # <<>>, IsInjective(s)
  PROVE  /\ Head(s) \in ToSet(s) /\ IsInjective(Tail(s))
         /\ ToSet(Tail(s)) = ToSet(s) \ {Head(s)}
  <1>1. DOMAIN s = 1 .. Len(s) /\ Len(s) \in Nat \ {0} OBVIOUS
  <1>2. DOMAIN Tail(s) = 1 .. Len(s) - 1 OBVIOUS
  <1>3. \A i \in 1 .. Len(s) - 1 : Tail(s)[i] = s[i + 1] OBVIOUS
  <1>4. Head(s) = s[1] OBVIOUS
  <1>5. Head(s) \in ToSet(s) BY <1>1, <1>4 DEF ToSet
  <1>6. IsInjective(Tail(s)) BY <1>1, <1>2, <1>3 DEF IsInjective
  <1>7. \A i \in 1 .. Len(s) - 1 : s[i + 1] # s[1] BY <1>1 DEF IsInjective
  <1>8. ToSet(Tail(s)) \subseteq ToSet(s) \ {Head(s)}
    BY <1>1, <1>2, <1>3, <1>4, <1>7 DEF ToSet
  <1>9. ASSUME NEW x \in ToSet(s) \ {Head(s)} PROVE x \in ToSet(Tail(s))
    <2>1. PICK i \in 1 .. Len(s) : x = s[i] BY <1>1 DEF ToSet
    <2>2. i - 1 \in 1 .. Len(s) - 1 /\ s[i] = Tail(s)[i - 1] BY <1>1, <1>3, <1>4, <2>1
    <2> QED BY <1>2, <2>1, <2>2 DEF ToSet
  <1> QED BY <1>5, <1>6, <1>8, <1>9

LEMMA ConcatOnce ==
  ASSUME NEW E, NEW s \in Seq(E), NEW t \in Seq(E), IsInjective(s), IsInjective(t),
         ToSet(s) \cap ToSet(t) = {}
  PROVE  ToSet(s \o t) = ToSet(s) \cup ToSet(t) /\ IsInjective(s \o t)
  <1>1. DOMAIN s = 1 .. Len(s) /\ DOMAIN t = 1 .. Len(t) /\ Len(s) \in Nat /\ Len(t) \in Nat
    OBVIOUS
  <1>2. DOMAIN (s \o t) = 1 .. Len(s) + Len(t) OBVIOUS
  <1>3. \A i \in 1 .. Len(s) : (s \o t)[i] = s[i] OBVIOUS
  <1>4. \A i \in 1 .. Len(t) : (s \o t)[Len(s) + i] = t[i] OBVIOUS
  <1>5. \A i \in 1 .. Len(s) + Len(t) : i \in 1 .. Len(s) \/ i - Len(s) \in 1 .. Len(t)
    BY <1>1
  <1>6. \A i \in (1 .. Len(s) + Len(t)) \ 1 .. Len(s) : (s \o t)[i] = t[i - Len(s)]
    BY <1>1, <1>4, <1>5
  <1>7. \A i \in 1 .. Len(s), j \in 1 .. Len(t) : s[i] # t[j] BY <1>1 DEF ToSet
  <1>8. ToSet(s \o t) \subseteq ToSet(s) \cup ToSet(t)
    BY <1>1, <1>2, <1>3, <1>5, <1>6 DEF ToSet
  <1>9. ToSet(s) \subseteq ToSet(s \o t) BY <1>1, <1>2, <1>3 DEF ToSet
  <1>10. ToSet(t) \subseteq ToSet(s \o t)
    <2>1. \A i \in 1 .. Len(t) : Len(s) + i \in 1 .. Len(s) + Len(t) BY <1>1
    <2> QED BY <1>1, <1>2, <1>4, <2>1 DEF ToSet
  <1>11. IsInjective(s \o t)
    <2> SUFFICES ASSUME NEW i \in 1 .. Len(s) + Len(t), NEW j \in 1 .. Len(s) + Len(t),
                        (s \o t)[i] = (s \o t)[j]
                 PROVE  i = j
      BY <1>2 DEF IsInjective
    <2>1. CASE i \in 1 .. Len(s) /\ j \in 1 .. Len(s) BY <1>1, <1>3, <2>1 DEF IsInjective
    <2>2. CASE i \notin 1 .. Len(s) /\ j \notin 1 .. Len(s)
      <3>1. t[i - Len(s)] = t[j - Len(s)] BY <1>6, <2>2
      <3>2. i - Len(s) = j - Len(s) BY <1>1, <1>5, <2>2, <3>1 DEF IsInjective
      <3> QED BY <1>1, <3>2
    <2>3. CASE i \in 1 .. Len(s) /\ j \notin 1 .. Len(s) BY <1>3, <1>5, <1>6, <1>7, <2>3
    <2>4. CASE i \notin 1 .. Len(s) /\ j \in 1 .. Len(s) BY <1>3, <1>5, <1>6, <1>7, <2>4
    <2> QED BY <2>1, <2>2, <2>3, <2>4
  <1> QED BY <1>8, <1>9, <1>10, <1>11

\* The orders of a finite set are sequences of its members, each once.
LEMMA OrderType ==
  ASSUME NEW S, IsFiniteSet(S), NEW order \in SetToSeqs(S)
  PROVE  /\ order \in Seq(S) /\ DOMAIN order = 1 .. Len(order)
         /\ IsInjective(order) /\ ToSet(order) = S
  <1>1. Cardinality(S) \in Nat BY FS_CardinalityType
  <1>2. order \in [1 .. Cardinality(S) -> S] BY DEF SetToSeqs
  <1>3. order \in Seq(S) /\ DOMAIN order = 1 .. Len(order) BY <1>1, <1>2
  <1>4. IsInjective(order) BY <1>1, <1>2 DEF SetToSeqs, IsInjective
  <1>5. order \in Injection(1 .. Cardinality(S), S) BY <1>2, <1>4 DEF Injection
  <1>6. Cardinality(1 .. Cardinality(S)) = Cardinality(S) BY <1>1, FS_Interval
  <1>7. order \in Surjection(1 .. Cardinality(S), S) BY <1>5, <1>6, FS_Injection
  <1>8. ToSet(order) = S BY <1>2, <1>7 DEF Surjection, ToSet
  <1> QED BY <1>3, <1>4, <1>8

-----------------------------------------------------------------------------
(***************************************************************************)
(* The operations.                                                         *)
(***************************************************************************)
LEMMA EmptyOK == ASSUME NEW E PROVE QueueOK(EmptyQueue, E) /\ EmptyQueue.running = {}
  <1>1. ToSet(<<>>) = {} /\ IsInjective(<<>>) BY DEF ToSet, IsInjective
  <1> QED BY <1>1 DEF QueueOK, QueueOf, EmptyQueue

\* Adding an item.
LEMMA AddOK ==
  ASSUME NEW E, NEW q, QueueOK(q, E), NEW e \in E
  PROVE  QueueOK(Add(q, e), E) /\ Add(q, e).running = q.running
  <1> DEFINE order == IF e \in q.running THEN q.order ELSE Append(q.order, e)
             r == [q EXCEPT !.dirty = q.dirty \cup {e}, !.order = order]
  <1> USE DEF QueueOK
  <1>1. CASE e \in q.dirty BY <1>1 DEF Add
  <1>2. CASE e \notin q.dirty
    <2>1. Add(q, e) = r BY <1>2 DEF Add
    <2>2. q.order \in Seq(E) /\ q \in QueueOf(E) BY DEF QueueOf
    <2>3. order \in Seq(E) BY <2>2
    <2>4. e \notin ToSet(q.order) BY <1>2
    <2>5. ToSet(order) = (q.dirty \cup {e}) \ q.running /\ IsInjective(order)
      BY <2>2, <2>4, <1>2, AppendOnce
    <2> HIDE DEF order
    <2>6. r \in QueueOf(E) /\ r.order = order /\ r.dirty = q.dirty \cup {e} /\ r.running = q.running
      BY <2>2, <2>3 DEF QueueOf
    <2> QED BY <2>1, <2>5, <2>6
  <1> QED BY <1>1, <1>2

\* The first two of some events.
LEMMA FirstTwo ==
  ASSUME NEW E, NEW events \in Seq(E), events # <<>>
  PROVE  events[1] \in E /\ (Len(events) # 1 => events[2] \in E)
  <1>1. \A n \in Nat : n # 0 => 1 \in 1 .. n /\ (n # 1 => 2 \in 1 .. n) OBVIOUS
  <1>2. Len(events) \in Nat /\ Len(events) # 0 OBVIOUS
  <1>3. \A i \in 1 .. Len(events) : events[i] \in E OBVIOUS
  <1>4. 1 \in 1 .. Len(events) /\ (Len(events) # 1 => 2 \in 1 .. Len(events)) BY <1>1, <1>2
  <1> QED BY <1>3, <1>4

\* Adding the items of up to two events.
LEMMA AddEachOK ==
  ASSUME NEW E, NEW q, QueueOK(q, E), NEW events \in Seq(E)
  PROVE  QueueOK(AddEach(q, events), E) /\ AddEach(q, events).running = q.running
  <1>1. CASE events = <<>> BY <1>1 DEF AddEach
  <1>2. CASE events # <<>>
    <2>1. events[1] \in E /\ (Len(events) # 1 => events[2] \in E) BY <1>2, FirstTwo
    <2>2. QueueOK(Add(q, events[1]), E) /\ Add(q, events[1]).running = q.running BY <2>1, AddOK
    <2>3. CASE Len(events) = 1 BY <1>2, <2>2, <2>3 DEF AddEach
    <2>4. CASE Len(events) # 1
      <3>1. AddEach(q, events) = Add(Add(q, events[1]), events[2]) BY <1>2, <2>4 DEF AddEach
      <3> QED BY <2>1, <2>2, <2>4, <3>1, AddOK
    <2> QED BY <2>3, <2>4
  <1> QED BY <1>1, <1>2

\* Adding an item when its timer runs out.
LEMMA ExpireOK ==
  ASSUME NEW E, NEW q, QueueOK(q, E), NEW e \in E
  PROVE  QueueOK(Expire(q, e), E) /\ Expire(q, e).running = q.running
  <1> DEFINE r == [q EXCEPT !.later = q.later \ {e}]
  <1>1. QueueOK(r, E) /\ r.running = q.running BY DEF QueueOK, QueueOf
  <1>2. Expire(q, e) = Add(r, e) BY DEF Expire
  <1> HIDE DEF r
  <1> QED BY <1>1, <1>2, AddOK

\* Adding several items that are not waiting in some order.
LEMMA AddAllOK ==
  ASSUME NEW E, NEW q, QueueOK(q, E), NEW X \in SUBSET E, IsFiniteSet(X),
         NEW order \in SetToSeqs(X \ (q.dirty \cup q.running))
  PROVE  QueueOK(AddAll(q, X, order), E) /\ AddAll(q, X, order).running = q.running
  <1> DEFINE longer == q.order \o order
             new == X \ (q.dirty \cup q.running)
             r == [q EXCEPT !.dirty = q.dirty \cup X, !.order = longer]
  <1>1. AddAll(q, X, order) = r BY DEF AddAll
  <1>2. IsFiniteSet(new) BY FS_Subset
  <1>3. order \in Seq(new) /\ IsInjective(order) /\ ToSet(order) = new
    <2> HIDE DEF new
    <2>1. order \in SetToSeqs(new) BY DEF new
    <2> QED BY <1>2, <2>1, OrderType
  <1>4. order \in Seq(E) /\ q.order \in Seq(E) BY <1>3 DEF QueueOK, QueueOf
  <1>5. longer \in Seq(E) BY <1>4
  <1>6. ToSet(q.order) = q.dirty \ q.running /\ IsInjective(q.order) BY DEF QueueOK
  <1>7. ToSet(longer) = ToSet(q.order) \cup ToSet(order) /\ IsInjective(longer)
    BY <1>3, <1>4, <1>6, ConcatOnce
  <1>8. ToSet(longer) = (q.dirty \cup X) \ q.running BY <1>3, <1>6, <1>7
  <1> HIDE DEF longer, new
  <1>9. r \in QueueOf(E) /\ r.order = longer /\ r.dirty = q.dirty \cup X /\ r.running = q.running
    BY <1>5 DEF QueueOK, QueueOf
  <1> QED BY <1>1, <1>7, <1>8, <1>9 DEF QueueOK

\* Taking the first item, which is not being processed.
LEMMA GetOK ==
  ASSUME NEW E, NEW q, QueueOK(q, E), q.order # <<>>
  PROVE  /\ QueueOK(Get(q), E) /\ Head(q.order) \in E \ q.running
         /\ Get(q).running = q.running \cup {Head(q.order)}
  <1> DEFINE e == Head(q.order)
             rest == Tail(q.order)
             r == [q EXCEPT !.order = rest, !.dirty = q.dirty \ {e}, !.running = q.running \cup {e}]
  <1>1. q.order \in Seq(E) BY DEF QueueOK, QueueOf
  <1>2. e \in E /\ rest \in Seq(E) BY <1>1
  <1>3. e \in ToSet(q.order) /\ IsInjective(rest) /\ ToSet(rest) = ToSet(q.order) \ {e}
    BY <1>1, TailOnce DEF QueueOK
  <1>4. e \in q.dirty \ q.running /\ ToSet(rest) = (q.dirty \ {e}) \ (q.running \cup {e})
    BY <1>3 DEF QueueOK
  <1>5. Get(q) = r BY DEF Get
  <1> HIDE DEF e, rest
  <1>6. /\ r \in QueueOf(E) /\ r.order = rest /\ r.dirty = q.dirty \ {e}
        /\ r.running = q.running \cup {e}
    BY <1>2 DEF QueueOK, QueueOf
  <1>7. QueueOK(r, E) BY <1>3, <1>4, <1>6 DEF QueueOK
  <1> QED BY <1>2, <1>4, <1>5, <1>6, <1>7 DEF e

\* Finishing the item that is being processed, also one that is to be tried again.
LEMMA HandledOK ==
  ASSUME NEW E, NEW q, QueueOK(q, E), NEW e \in E, e \in q.running, NEW failed \in BOOLEAN
  PROVE  QueueOK(Handled(q, e, failed), E) /\ Handled(q, e, failed).running = q.running \ {e}
  <1>1. QueueOK(AddRateLimited(q, e), E) /\ AddRateLimited(q, e).running = q.running
    BY DEF AddRateLimited, QueueOK, QueueOf
  <1>2. ASSUME NEW p, QueueOK(p, E), e \in p.running
        PROVE  QueueOK(Done(p, e), E) /\ Done(p, e).running = p.running \ {e}
    <2> DEFINE order == IF e \in p.dirty THEN Append(p.order, e) ELSE p.order
               r == [p EXCEPT !.running = p.running \ {e}, !.order = order]
    <2>1. p.order \in Seq(E) BY <1>2 DEF QueueOK, QueueOf
    <2>2. order \in Seq(E) BY <2>1
    <2>3. e \notin ToSet(p.order) BY <1>2 DEF QueueOK
    <2>4. ToSet(order) = p.dirty \ (p.running \ {e}) /\ IsInjective(order)
      BY <1>2, <2>1, <2>3, AppendOnce DEF QueueOK
    <2>5. Done(p, e) = r BY DEF Done
    <2> HIDE DEF order
    <2>6. r \in QueueOf(E) /\ r.order = order /\ r.dirty = p.dirty /\ r.running = p.running \ {e}
      BY <1>2, <2>2 DEF QueueOK, QueueOf
    <2> QED BY <2>4, <2>5, <2>6 DEF QueueOK
  <1> QED BY <1>1, <1>2 DEF Handled

\* The worker takes an item and is done with it at once.
LEMMA GetHandledOK ==
  ASSUME NEW E, NEW q, QueueOK(q, E), q.order # <<>>, q.running = {}, NEW failed \in BOOLEAN
  PROVE  LET r == Handled(Get(q), Head(q.order), failed) IN QueueOK(r, E) /\ r.running = {}
  <1>1. /\ QueueOK(Get(q), E) /\ Head(q.order) \in E
        /\ Get(q).running = {Head(q.order)}
    BY GetOK
  <1> QED BY <1>1, HandledOK

-----------------------------------------------------------------------------
(***************************************************************************)
(* What is pending: an item stays so until it is handled without failing.  *)
(***************************************************************************)
LEMMA AddPending ==
  ASSUME NEW E, NEW q \in QueueOf(E), NEW e \in E
  PROVE  Pending(Add(q, e)) = Pending(q) \cup {e}
  BY DEF Add, Pending, QueueOf

LEMMA AddEachPending ==
  ASSUME NEW E, NEW q, QueueOK(q, E), NEW events \in Seq(E)
  PROVE  Pending(q) \subseteq Pending(AddEach(q, events))
  <1>1. CASE events = <<>> BY <1>1 DEF AddEach
  <1>2. CASE events # <<>>
    <2>1. events[1] \in E /\ (Len(events) # 1 => events[2] \in E) BY <1>2, FirstTwo
    <2>2. /\ QueueOK(Add(q, events[1]), E)
          /\ Pending(Add(q, events[1])) = Pending(q) \cup {events[1]}
      BY <2>1, AddOK, AddPending DEF QueueOK
    <2>3. CASE Len(events) = 1 BY <1>2, <2>2, <2>3 DEF AddEach
    <2>4. CASE Len(events) # 1
      <3>1. AddEach(q, events) = Add(Add(q, events[1]), events[2]) BY <1>2, <2>4 DEF AddEach
      <3> QED BY <2>1, <2>2, <2>4, <3>1, AddPending DEF QueueOK
    <2> QED BY <2>3, <2>4
  <1> QED BY <1>1, <1>2

LEMMA ExpirePending ==
  ASSUME NEW E, NEW q, QueueOK(q, E), NEW e \in q.later
  PROVE  Pending(Expire(q, e)) = Pending(q)
  <1> DEFINE r == [q EXCEPT !.later = q.later \ {e}]
  <1>1. q \in QueueOf(E) /\ e \in E BY DEF QueueOK, QueueOf
  <1>2. /\ r \in QueueOf(E) /\ r.dirty = q.dirty /\ r.running = q.running
        /\ r.later = q.later \ {e}
    BY <1>1 DEF QueueOf
  <1>3. Expire(q, e) = Add(r, e) BY DEF Expire
  <1> HIDE DEF r
  <1>4. Pending(r) \cup {e} = Pending(q) BY <1>2 DEF Pending
  <1>5. Pending(Add(r, e)) = Pending(r) \cup {e} BY <1>1, <1>2, AddPending
  <1> QED BY <1>3, <1>4, <1>5

LEMMA GetPending ==
  ASSUME NEW E, NEW q, QueueOK(q, E), q.order # <<>>
  PROVE  Pending(Get(q)) = Pending(q)
  <1>1. q.order \in Seq(E) /\ q \in QueueOf(E) BY DEF QueueOK, QueueOf
  <1>2. Head(q.order) \in q.dirty BY <1>1, TailOnce DEF QueueOK
  <1> QED BY <1>1, <1>2 DEF Get, Pending, QueueOf

LEMMA AddAllPending ==
  ASSUME NEW E, NEW q \in QueueOf(E), NEW X, NEW order
  PROVE  Pending(AddAll(q, X, order)) = Pending(q) \cup X
  BY DEF AddAll, Pending, QueueOf

LEMMA HandledPending ==
  ASSUME NEW E, NEW q, QueueOK(q, E), NEW e \in q.running, NEW failed \in BOOLEAN
  PROVE  /\ Pending(q) \ {e} \subseteq Pending(Handled(q, e, failed))
         /\ Pending(Handled(q, e, failed)) \subseteq Pending(q)
         /\ failed => e \in Pending(Handled(q, e, failed))
  BY DEF Handled, Done, AddRateLimited, Pending, QueueOK, QueueOf

-----------------------------------------------------------------------------
(***************************************************************************)
(* What waits: the items that are dirty and those in a timer.              *)
(***************************************************************************)
Waiting(q) == q.dirty \cup q.later

\* The members of two sequences one after the other.
LEMMA ConcatSet ==
  ASSUME NEW E, NEW s \in Seq(E), NEW t \in Seq(E)
  PROVE  ToSet(s \o t) = ToSet(s) \cup ToSet(t) /\ Len(s \o t) = Len(s) + Len(t)
  <1> DEFINE u == s \o t
  <1>1. /\ Len(s) \in Nat /\ Len(t) \in Nat /\ Len(u) = Len(s) + Len(t)
        /\ DOMAIN s = 1 .. Len(s) /\ DOMAIN t = 1 .. Len(t) /\ DOMAIN u = 1 .. Len(u)
        /\ (\A i \in 1 .. Len(s) : u[i] = s[i]) /\ \A i \in 1 .. Len(t) : u[Len(s) + i] = t[i]
    OBVIOUS
  <1> HIDE DEF u
  <1>2. \A i \in 1 .. Len(u) : i \in 1 .. Len(s) \/ (i - Len(s) \in 1 .. Len(t) /\ i = Len(s) + (i - Len(s)))
    BY <1>1
  <1>3. \A i \in 1 .. Len(t) : Len(s) + i \in 1 .. Len(u) BY <1>1
  <1>4. \A i \in 1 .. Len(s) : i \in 1 .. Len(u) BY <1>1
  <1>5. \A e \in ToSet(u) : e \in ToSet(s) \cup ToSet(t)
    <2> SUFFICES ASSUME NEW i \in 1 .. Len(u) PROVE u[i] \in ToSet(s) \cup ToSet(t)
      BY <1>1 DEF ToSet
    <2> QED BY <1>1, <1>2 DEF ToSet
  <1>6. \A e \in ToSet(s) \cup ToSet(t) : e \in ToSet(u)
    BY <1>1, <1>3, <1>4 DEF ToSet
  <1> QED BY <1>1, <1>5, <1>6 DEF u

LEMMA AddSets ==
  ASSUME NEW E, NEW q \in QueueOf(E), NEW e \in E
  PROVE  LET r == Add(q, e) IN
           r.dirty = q.dirty \cup {e} /\ r.later = q.later /\ r.running = q.running
  BY DEF Add, QueueOf

\* Adding the events of a change adds all of them.
LEMMA AddEachSets ==
  ASSUME NEW E, NEW q, QueueOK(q, E), NEW events \in Seq(E), Len(events) <= 2
  PROVE  LET r == AddEach(q, events) IN
           /\ r.dirty = q.dirty \cup ToSet(events) /\ r.later = q.later
           /\ r.running = q.running
  <1>1. CASE events = <<>> BY <1>1 DEF AddEach, ToSet
  <1>2. CASE events # <<>>
    <2>1. events[1] \in E /\ (Len(events) # 1 => events[2] \in E) BY <1>2, FirstTwo
    <2>2. QueueOK(Add(q, events[1]), E) BY <2>1, AddOK
    <2>3. Len(events) \in {1, 2} /\ DOMAIN events = 1 .. Len(events)
      <3>1. Len(events) \in Nat /\ Len(events) # 0 /\ DOMAIN events = 1 .. Len(events) BY <1>2
      <3> QED BY <3>1
    <2>4. CASE Len(events) = 1
      <3>1. ToSet(events) = {events[1]} BY <2>3, <2>4 DEF ToSet
      <3> QED BY <1>2, <2>1, <2>4, <3>1, AddSets DEF AddEach, QueueOK
    <2>5. CASE Len(events) = 2
      <3>1. ToSet(events) = {events[1], events[2]} BY <2>3, <2>5 DEF ToSet
      <3>2. AddEach(q, events) = Add(Add(q, events[1]), events[2]) BY <1>2, <2>5 DEF AddEach
      <3> QED BY <2>1, <2>2, <2>5, <3>1, <3>2, AddSets DEF QueueOK
    <2> QED BY <2>3, <2>4, <2>5
  <1> QED BY <1>1, <1>2

LEMMA ExpireSets ==
  ASSUME NEW E, NEW q, QueueOK(q, E), NEW e \in q.later
  PROVE  LET r == Expire(q, e) IN
           r.dirty = q.dirty \cup {e} /\ r.later = q.later \ {e} /\ r.running = q.running
  <1> DEFINE r == [q EXCEPT !.later = q.later \ {e}]
  <1>1. r \in QueueOf(E) /\ e \in E /\ r.dirty = q.dirty /\ r.later = q.later \ {e} /\ r.running = q.running
    BY DEF QueueOK, QueueOf
  <1>2. Expire(q, e) = Add(r, e) BY DEF Expire
  <1> HIDE DEF r
  <1> QED BY <1>1, <1>2, AddSets

LEMMA GetSets ==
  ASSUME NEW E, NEW q, QueueOK(q, E), q.order # <<>>
  PROVE  LET r == Get(q) IN
           /\ Head(q.order) \in q.dirty /\ r.dirty = q.dirty \ {Head(q.order)}
           /\ r.later = q.later /\ r.running = q.running \cup {Head(q.order)}
           /\ r.order = Tail(q.order)
  <1>1. q.order \in Seq(E) /\ q \in QueueOf(E) BY DEF QueueOK, QueueOf
  <1>2. Head(q.order) \in q.dirty BY <1>1, TailOnce DEF QueueOK
  <1> QED BY <1>1, <1>2 DEF Get, QueueOf

LEMMA HandledSets ==
  ASSUME NEW E, NEW q, QueueOK(q, E), NEW e, NEW failed \in BOOLEAN
  PROVE  LET r == Handled(q, e, failed) IN
           /\ r.dirty = q.dirty /\ r.later = q.later \cup (IF failed THEN {e} ELSE {})
           /\ r.running = q.running \ {e}
           /\ r.order = IF e \in q.dirty THEN Append(q.order, e) ELSE q.order
  BY DEF Handled, Done, AddRateLimited, QueueOK, QueueOf

-----------------------------------------------------------------------------
(***************************************************************************)
(* The order of two items.                                                 *)
(***************************************************************************)
\* The item d does not come after g.
Precedes(order, d, g) == \A i, j \in DOMAIN order : order[i] = d /\ order[j] = g => i < j

LEMMA AppendPrecedes ==
  ASSUME NEW E, NEW s \in Seq(E), NEW e \in E, NEW d, NEW g, d # g, Precedes(s, d, g),
         e = d => g \notin ToSet(s)
  PROVE  Precedes(Append(s, e), d, g)
  <1> DEFINE t == Append(s, e)
  <1>1. /\ DOMAIN s = 1 .. Len(s) /\ DOMAIN t = 1 .. Len(s) + 1 /\ Len(s) \in Nat
        /\ (\A i \in 1 .. Len(s) : t[i] = s[i]) /\ t[Len(s) + 1] = e
    OBVIOUS
  <1> HIDE DEF t
  <1> SUFFICES ASSUME NEW i \in 1 .. Len(s) + 1, NEW j \in 1 .. Len(s) + 1, t[i] = d, t[j] = g
               PROVE  i < j
    BY <1>1 DEF Precedes, t
  <1>2. CASE i \in 1 .. Len(s) /\ j \in 1 .. Len(s) BY <1>1, <1>2 DEF Precedes
  <1>3. CASE i \in 1 .. Len(s) /\ j = Len(s) + 1 BY <1>1, <1>3
  <1>4. CASE i = Len(s) + 1 /\ j \in 1 .. Len(s) BY <1>1, <1>4 DEF ToSet
  <1>5. CASE i = Len(s) + 1 /\ j = Len(s) + 1 BY <1>1, <1>5
  <1> QED BY <1>1, <1>2, <1>3, <1>4, <1>5

LEMMA TailPrecedes ==
  ASSUME NEW E, NEW s \in Seq(E), s # <<>>, NEW d, NEW g, Precedes(s, d, g)
  PROVE  Precedes(Tail(s), d, g)
  <1> DEFINE t == Tail(s)
  <1>1. /\ DOMAIN s = 1 .. Len(s) /\ DOMAIN t = 1 .. Len(s) - 1 /\ Len(s) \in Nat \ {0}
        /\ \A i \in 1 .. Len(s) - 1 : t[i] = s[i + 1]
    OBVIOUS
  <1> HIDE DEF t
  <1> SUFFICES ASSUME NEW i \in 1 .. Len(s) - 1, NEW j \in 1 .. Len(s) - 1, t[i] = d, t[j] = g
               PROVE  i < j
    BY <1>1 DEF Precedes, t
  <1>2. s[i + 1] = d /\ s[j + 1] = g /\ i + 1 \in 1 .. Len(s) /\ j + 1 \in 1 .. Len(s) BY <1>1
  <1>3. i + 1 < j + 1 BY <1>1, <1>2 DEF Precedes
  <1> QED BY <1>3

LEMMA HeadPrecedes ==
  ASSUME NEW E, NEW s \in Seq(E), s # <<>>, NEW d, NEW g, Precedes(s, d, g), Head(s) = g
  PROVE  d \notin ToSet(s)
  <1>1. DOMAIN s = 1 .. Len(s) /\ Len(s) \in Nat \ {0} /\ Head(s) = s[1] OBVIOUS
  <1>2. \A i \in 1 .. Len(s) : ~(i < 1) OBVIOUS
  <1>3. 1 \in 1 .. Len(s) BY <1>1
  <1> QED BY <1>1, <1>2, <1>3 DEF Precedes, ToSet

LEMMA AddPrecedes ==
  ASSUME NEW E, NEW q, QueueOK(q, E), NEW e \in E, NEW d, NEW g, d # g, Precedes(q.order, d, g),
         e = d => g \notin ToSet(q.order)
  PROVE  Precedes(Add(q, e).order, d, g)
  <1>1. q \in QueueOf(E) /\ q.order \in Seq(E) BY DEF QueueOK, QueueOf
  <1>2. Add(q, e).order = q.order \/ Add(q, e).order = Append(q.order, e) BY <1>1 DEF Add, QueueOf
  <1>3. Precedes(Append(q.order, e), d, g) BY <1>1, AppendPrecedes
  <1> QED BY <1>2, <1>3

\* Events added in turn wait in that order.
LEMMA AddEachPrecedes ==
  ASSUME NEW E, NEW q, QueueOK(q, E), NEW events \in Seq(E), Len(events) <= 2,
         NEW d, NEW g, d # g, Precedes(q.order, d, g),
         events # <<>> /\ events[1] = d => g \notin ToSet(q.order),
         Len(events) = 2 => events[2] # d
  PROVE  Precedes(AddEach(q, events).order, d, g)
  <1>1. CASE events = <<>> BY <1>1 DEF AddEach
  <1>2. CASE events # <<>>
    <2>1. events[1] \in E /\ (Len(events) # 1 => events[2] \in E) BY <1>2, FirstTwo
    <2>2. /\ QueueOK(Add(q, events[1]), E)
          /\ Precedes(Add(q, events[1]).order, d, g)
      BY <1>2, <2>1, AddOK, AddPrecedes
    <2>3. CASE Len(events) = 1 BY <1>2, <2>2, <2>3 DEF AddEach
    <2>4. CASE Len(events) # 1
      <3>1. Len(events) \in Nat /\ Len(events) # 0 BY <1>2
      <3>2. Len(events) = 2
        <4>1. \A n \in Nat : n # 0 /\ n <= 2 /\ n # 1 => n = 2 OBVIOUS
        <4> QED BY <2>4, <3>1, <4>1
      <3>3. AddEach(q, events) = Add(Add(q, events[1]), events[2]) BY <1>2, <2>4 DEF AddEach
      <3> QED BY <2>1, <2>2, <2>4, <3>2, <3>3, AddPrecedes
    <2> QED BY <2>3, <2>4
  <1> QED BY <1>1, <1>2

LEMMA ExpirePrecedes ==
  ASSUME NEW E, NEW q, QueueOK(q, E), NEW e \in E, NEW d, NEW g, d # g, Precedes(q.order, d, g), e # d
  PROVE  Precedes(Expire(q, e).order, d, g)
  <1> DEFINE r == [q EXCEPT !.later = q.later \ {e}]
  <1>1. QueueOK(r, E) /\ r.order = q.order BY DEF QueueOK, QueueOf
  <1>2. Expire(q, e) = Add(r, e) BY DEF Expire
  <1> HIDE DEF r
  <1> QED BY <1>1, <1>2, AddPrecedes

LEMMA HandledPrecedes ==
  ASSUME NEW E, NEW q, QueueOK(q, E), NEW e \in E, NEW failed \in BOOLEAN,
         NEW d, NEW g, d # g, Precedes(q.order, d, g), e # d
  PROVE  Precedes(Handled(q, e, failed).order, d, g)
  <1>1. q.order \in Seq(E) BY DEF QueueOK, QueueOf
  <1>2. Precedes(Append(q.order, e), d, g) BY <1>1, AppendPrecedes
  <1> QED BY <1>2, HandledSets

LEMMA GetPrecedes ==
  ASSUME NEW E, NEW q, QueueOK(q, E), q.order # <<>>, NEW d, NEW g, Precedes(q.order, d, g)
  PROVE  Precedes(Get(q).order, d, g)
  <1>1. q.order \in Seq(E) BY DEF QueueOK, QueueOf
  <1> QED BY <1>1, GetSets, TailPrecedes
=============================================================================
