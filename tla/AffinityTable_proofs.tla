------------------------ MODULE AffinityTable_proofs ------------------------
(***************************************************************************)
(* For every set of nodes, keys and identities, every cap and every clock: *)
(*  - the exact index never leads to a binding the table no longer holds   *)
(*    or that does not know the key (IndexStaysSound, by IndexInv);        *)
(*  - a table stays within its cap, a task's route changes only when its   *)
(*    node failed or left, a request's repeat finds the binding that       *)
(*    served it, and a task a named response led to is never moved by an   *)
(*    operator (the theorems at the end, by RouteInv).                     *)
(* The way there: what each write leaves of a table's shape; where a       *)
(* lookup can end (Looked) and what makes a second lookup end there again; *)
(* what the caps evict; what plan makes of a table (Outcome).              *)
(***************************************************************************)
EXTENDS AffinityTable, TLAPS, FiniteSetTheorems, WellFoundedInduction

\* IndexSound of a table that is passed around as a value.
Sound(t) ==
  /\ {"b", "idx"} \subseteq DOMAIN t
  /\ \A i \in DOMAIN t.b : "keys" \in DOMAIN t.b[i]
  /\ \A k \in DOMAIN t.idx : t.idx[k] \in DOMAIN t.b /\ k \in t.b[t.idx[k]].keys

\* Sound is inductive once a new binding cannot replace one that is there.
IndexInv ==
  /\ Sound(table)
  /\ nextInc \in Nat \ {0}
  /\ DOMAIN table.b \subseteq 1 .. nextInc - 1

\* remove: an index entry goes exactly when the binding it points at does.
LEMMA RemoveSound ==
  ASSUME NEW t, Sound(t), NEW S
  PROVE  /\ Sound(RemoveBindings(t, S))
         /\ DOMAIN RemoveBindings(t, S).b = DOMAIN t.b \ S
  BY DEF Sound, RemoveBindings, Without

\* #detachExactKey: what is left in the index is still known to its binding.
LEMMA DetachSound ==
  ASSUME NEW t, Sound(t), NEW K
  PROVE  /\ Sound(Detach(t, K))
         /\ DOMAIN Detach(t, K).b = DOMAIN t.b
<1> DEFINE b2 == [i \in DOMAIN t.b |->
                    [t.b[i] EXCEPT !.keys = @ \ {k \in K \cap DOMAIN t.idx : t.idx[k] = i}]]
<1> DEFINE idx2 == Without(t.idx, K)
<1>1. Detach(t, K) = [b |-> b2, idx |-> idx2]
  BY DEF Detach
<1>2. DOMAIN b2 = DOMAIN t.b
  OBVIOUS
<1>3. \A i \in DOMAIN t.b :
        /\ "keys" \in DOMAIN b2[i]
        /\ b2[i].keys = t.b[i].keys \ {k \in K \cap DOMAIN t.idx : t.idx[k] = i}
  BY DEF Sound
<1>4. /\ DOMAIN idx2 = DOMAIN t.idx \ K
      /\ \A k \in DOMAIN idx2 : idx2[k] = t.idx[k]
  BY DEF Without
<1> HIDE DEF b2, idx2
<1>5. \A k \in DOMAIN idx2 : idx2[k] \in DOMAIN b2 /\ k \in b2[idx2[k]].keys
  BY <1>2, <1>3, <1>4 DEF Sound
<1> QED
  BY <1>1, <1>2, <1>3, <1>5 DEF Sound

\* #registerExactKeys for a binding the table holds.
LEMMA RegisterSound ==
  ASSUME NEW t, Sound(t), NEW K, NEW i \in DOMAIN t.b
  PROVE  /\ Sound(Register(t, i, K))
         /\ DOMAIN Register(t, i, K).b = DOMAIN t.b
<1> DEFINE b2 == [t.b EXCEPT ![i].keys = @ \cup K]
<1> DEFINE idx2 == [k \in DOMAIN t.idx \cup K |-> IF k \in K THEN i ELSE t.idx[k]]
<1>1. Register(t, i, K) = [b |-> b2, idx |-> idx2]
  BY DEF Register
<1>2. DOMAIN b2 = DOMAIN t.b
  OBVIOUS
<1>3. \A j \in DOMAIN t.b :
        /\ "keys" \in DOMAIN b2[j]
        /\ t.b[j].keys \subseteq b2[j].keys
        /\ j = i => K \subseteq b2[j].keys
  BY DEF Sound
<1>4. /\ DOMAIN idx2 = DOMAIN t.idx \cup K
      /\ \A k \in DOMAIN idx2 : 
             (k \in K /\ idx2[k] = i) \/ (k \in DOMAIN t.idx /\ idx2[k] = t.idx[k])
  OBVIOUS
<1> HIDE DEF b2, idx2
<1>5. \A k \in DOMAIN idx2 : idx2[k] \in DOMAIN b2 /\ k \in b2[idx2[k]].keys
  BY <1>2, <1>3, <1>4 DEF Sound
<1> QED
  BY <1>1, <1>2, <1>3, <1>5 DEF Sound

\* A write that leaves the index and the keys of every binding alone.
SameKeys(t, u) ==
  /\ {"b", "idx"} \subseteq DOMAIN u
  /\ u.idx = t.idx /\ DOMAIN u.b = DOMAIN t.b
  /\ \A i \in DOMAIN t.b : "keys" \in DOMAIN u.b[i] /\ u.b[i].keys = t.b[i].keys

\* Soundness only looks at the index and at the keys.
LEMMA SameKeysSound ==
  ASSUME NEW t, Sound(t), NEW u, SameKeys(t, u)
  PROVE  Sound(u)
  BY DEF Sound, SameKeys

\* #touch, rebind, noteRequestDependencies and the history leave the keys alone.
LEMMA WritesKeepKeys ==
  ASSUME NEW t, Sound(t), NEW i, NEW n, NEW id, NEW A
  PROVE  /\ SameKeys(t, Touch(t, i))
         /\ SameKeys(t, Rebind(t, i, n))
         /\ SameKeys(t, NoteDeps(t, i, id))
         /\ SameKeys(t, [t EXCEPT !.b[i].asked = @ \cup A])
<1>1. SameKeys(t, Touch(t, i))
  BY DEF Sound, SameKeys, Touch
<1>2. SameKeys(t, Rebind(t, i, n))
  BY DEF Sound, SameKeys, Rebind
<1>3. SameKeys(t, NoteDeps(t, i, id))
  BY DEF Sound, SameKeys, NoteDeps
<1>4. SameKeys(t, [t EXCEPT !.b[i].asked = @ \cup A])
  BY DEF Sound, SameKeys
<1> QED
  BY <1>1, <1>2, <1>3, <1>4

\* The exact lookup: a hit is still in the table it leaves behind, because the bindings
\* removed on the way were expired and the hit is not.
LEMMA LookupExactSound ==
  ASSUME NEW t, Sound(t), NEW id, NEW targets
  PROVE  LET l == LookupExact(t, id, targets)
         IN  /\ Sound(l.t) /\ DOMAIN l.t.b \subseteq DOMAIN t.b
             /\ l.hit # None => l.hit \in DOMAIN l.t.b
<1> DEFINE indexed == {n \in DOMAIN id.keys : id.keys[n] \in DOMAIN t.idx}
<1> DEFINE hits == {n \in indexed : Usable(t, t.idx[id.keys[n]], id, targets)}
<1> DEFINE first == {n \in hits : \A h \in hits : n <= h}
<1> DEFINE dead == {id.keys[n] : n \in {m \in indexed : \A h \in hits : m < h}}
<1> DEFINE gone == ExpiredOf(t, {t.idx[k] : k \in dead}, targets)
<1> DEFINE left == RemoveBindings(Detach(t, dead), gone)
<1> DEFINE hit == t.idx[id.keys[CHOOSE n \in first : TRUE]]
<1>1. LookupExact(t, id, targets) =
        IF first = {} THEN [t |-> left, hit |-> None] ELSE [t |-> Touch(left, hit), hit |-> hit]
  BY DEF LookupExact
<1>2. Sound(left) /\ DOMAIN left.b = DOMAIN t.b \ gone
  BY DetachSound, RemoveSound
<1>3. SameKeys(left, Touch(left, hit))
  BY <1>2, WritesKeepKeys
<1>4. Sound(Touch(left, hit)) /\ DOMAIN Touch(left, hit).b = DOMAIN left.b
  BY <1>2, <1>3, SameKeysSound DEF SameKeys
<1>5. ASSUME first # {}
      PROVE  hit \in DOMAIN t.b \ gone
  <2>1. (CHOOSE n \in first : TRUE) \in first
    BY <1>5
  <2>2. PICK n \in hits : hit = t.idx[id.keys[n]]
    BY <2>1
  <2>3. hit \in DOMAIN t.b
    BY <2>2 DEF Sound
  <2>4. ~ Expired(t.b[hit])
    BY <2>2 DEF Usable
  <2> QED
    BY <2>3, <2>4 DEF ExpiredOf
<1> HIDE DEF first, left, hit, gone
<1> QED
  BY <1>1, <1>2, <1>4, <1>5

\* The bucket lookup finds a binding of the table, or leaves a smaller one behind.
LEMMA LookupBucketSound ==
  ASSUME NEW t, Sound(t), NEW id, NEW targets
  PROVE  LET l == LookupBucket(t, id, targets)
         IN  /\ Sound(l.t) /\ DOMAIN l.t.b \subseteq DOMAIN t.b
             /\ l.hit # None => l.hit \in DOMAIN l.t.b
<1> DEFINE scan == Window(t, id.bucket)
<1> DEFINE hits == {i \in scan : /\ Usable(t, i, id, targets)
                                 /\ PrefixMatches(t.b[i].users, id.users)}
<1> DEFINE newest == {i \in hits : \A j \in hits : i = j \/ Before(t, i, j)}
<1> DEFINE left == RemoveBindings(t, ExpiredOf(t, scan, targets))
<1> DEFINE hit == CHOOSE i \in newest : TRUE
<1>1. LookupBucket(t, id, targets) =
        IF newest = {} THEN [t |-> left, hit |-> None] ELSE [t |-> Touch(t, hit), hit |-> hit]
  BY DEF LookupBucket
<1>2. Sound(left) /\ DOMAIN left.b \subseteq DOMAIN t.b
  BY RemoveSound
<1>3. SameKeys(t, Touch(t, hit))
  BY WritesKeepKeys
<1>4. Sound(Touch(t, hit)) /\ DOMAIN Touch(t, hit).b = DOMAIN t.b
  BY <1>3, SameKeysSound DEF SameKeys
<1>5. scan \subseteq DOMAIN t.b
  BY DEF Window, InBucket
<1>6. newest # {} => hit \in DOMAIN t.b
  BY <1>5
<1> HIDE DEF newest, left, hit
<1> QED
  BY <1>1, <1>2, <1>4, <1>6

\* Both halves of a lookup.
LEMMA LookupSound ==
  ASSUME NEW t, Sound(t), NEW id, NEW targets
  PROVE  LET l == Lookup(t, id, targets)
         IN  /\ Sound(l.t) /\ DOMAIN l.t.b \subseteq DOMAIN t.b
             /\ l.hit # None => l.hit \in DOMAIN l.t.b
<1> DEFINE exact == LookupExact(t, id, targets)
<1>1. /\ Sound(exact.t) /\ DOMAIN exact.t.b \subseteq DOMAIN t.b
      /\ exact.hit # None => exact.hit \in DOMAIN exact.t.b
  BY LookupExactSound
<1>2. Lookup(t, id, targets) = IF exact.hit # None THEN exact ELSE LookupBucket(exact.t, id, targets)
  BY DEF Lookup, OrInBucket
<1> DEFINE inBucket == LookupBucket(exact.t, id, targets)
<1>3. /\ Sound(inBucket.t) /\ DOMAIN inBucket.t.b \subseteq DOMAIN exact.t.b
      /\ inBucket.hit # None => inBucket.hit \in DOMAIN inBucket.t.b
  BY <1>1, LookupBucketSound
<1> HIDE DEF exact, inBucket
<1> QED
  BY <1>1, <1>2, <1>3 DEF inBucket

\* The caps only ever remove.
LEMMA CapsSound ==
  ASSUME NEW t, Sound(t), NEW bucket
  PROVE  /\ Sound(EnforceCaps(t, bucket))
         /\ DOMAIN EnforceCaps(t, bucket).b \subseteq DOMAIN t.b
<1>1. \A u, S, cap : Sound(u) => Sound(Trim(u, S, cap)) /\ DOMAIN Trim(u, S, cap).b \subseteq DOMAIN u.b
  BY RemoveSound DEF Trim
<1> DEFINE trimmed == Trim(t, InBucket(t, bucket), MaxBucket)
<1>2. Sound(trimmed) /\ DOMAIN trimmed.b \subseteq DOMAIN t.b
  BY <1>1
<1>3. EnforceCaps(t, bucket) = Trim(trimmed, DOMAIN trimmed.b, MaxBindings)
  BY DEF EnforceCaps
<1> HIDE DEF trimmed
<1> QED
  BY <1>1, <1>2, <1>3

\* What a lookup hands on.
Found(t, found) ==
  /\ Sound(found.t) /\ DOMAIN found.t.b \subseteq DOMAIN t.b
  /\ found.hit # None => found.hit \in DOMAIN found.t.b

\* What planning a request hands on: the binding it serves is the only one it may add.
Served(t, p) ==
  /\ Sound(p.t)
  /\ DOMAIN p.t.b \subseteq DOMAIN t.b \cup {p.hit}
  /\ p.hit \in DOMAIN t.b \cup {nextInc}

\* Registering the keys of a request with the binding that serves it.
LEMMA KeyedSound ==
  ASSUME NEW t, Sound(t), NEW i \in DOMAIN t.b, NEW id, NEW K
  PROVE  /\ Sound(NoteDeps(Register(t, i, K), i, id))
         /\ DOMAIN NoteDeps(Register(t, i, K), i, id).b = DOMAIN t.b
<1> DEFINE keyed == Register(t, i, K)
<1>1. Sound(keyed) /\ DOMAIN keyed.b = DOMAIN t.b
  BY RegisterSound
<1> HIDE DEF keyed
<1>2. SameKeys(keyed, NoteDeps(keyed, i, id))
  BY <1>1, WritesKeepKeys
<1>3. Sound(NoteDeps(keyed, i, id)) /\ DOMAIN NoteDeps(keyed, i, id).b = DOMAIN keyed.b
  BY <1>1, <1>2, SameKeysSound DEF SameKeys
<1> QED
  BY <1>1, <1>3 DEF keyed

\* bind: the binding it creates is new to the table, so no key is lost to it.
LEMMA BindSound ==
  ASSUME NEW t, NEW found, Found(t, found), NEW id, NEW target, nextInc \notin DOMAIN t.b
  PROVE  Served(t, BindFound(found, id, target))
<1> DEFINE K == ToSet(id.keys)
<1> DEFINE p == BindFound(found, id, target)
<1> HIDE DEF K
<1>1. CASE found.hit = None
  <2> DEFINE created == Created(found.t, id, target)
  <2> DEFINE noted == NoteDeps(Register(created, nextInc, K), nextInc, id)
  <2>1. p = [t |-> EnforceCaps(noted, id.bucket), hit |-> nextInc]
    BY <1>1 DEF BindFound, K
  <2>2. Sound(created) /\ DOMAIN created.b = DOMAIN found.t.b \cup {nextInc}
    BY DEF Found, Sound, Created, Put, NewBinding
  <2> HIDE DEF created
  <2>3. Sound(noted) /\ DOMAIN noted.b = DOMAIN created.b
    BY <2>2, KeyedSound
  <2> HIDE DEF noted
  <2>4. /\ Sound(EnforceCaps(noted, id.bucket))
        /\ DOMAIN EnforceCaps(noted, id.bucket).b \subseteq DOMAIN noted.b
    BY <2>3, CapsSound
  <2> QED
    BY <2>1, <2>2, <2>3, <2>4 DEF Found, Served
<1>2. CASE found.hit # None
  <2> DEFINE i == found.hit
  <2> DEFINE moved == Rebind(found.t, i, target)
  <2> DEFINE noted == NoteDeps(Register(moved, i, K), i, id)
  <2>1. p = [t |-> noted, hit |-> i]
    BY <1>2 DEF BindFound, K
  <2>2. SameKeys(found.t, moved)
    BY WritesKeepKeys DEF Found
  <2>3. Sound(moved) /\ DOMAIN moved.b = DOMAIN found.t.b
    BY <2>2, SameKeysSound DEF Found, SameKeys
  <2>4. i \in DOMAIN moved.b
    BY <1>2, <2>3 DEF Found
  <2> HIDE DEF moved, i
  <2>5. Sound(noted) /\ DOMAIN noted.b = DOMAIN moved.b
    BY <2>3, <2>4, KeyedSound
  <2> HIDE DEF noted
  <2> QED
    BY <2>1, <2>3, <2>4, <2>5 DEF Found, Served
<1> QED
  BY <1>1, <1>2

\* plan's use of the table.
LEMMA PlanSound ==
  ASSUME NEW t, Sound(t), NEW id, NEW bound, NEW excluded, NEW chosen, nextInc \notin DOMAIN t.b
  PROVE  Served(t, PlanFound(Lookup(t, id, bound), id, excluded, chosen))
<1> DEFINE found == Lookup(t, id, bound)
<1> DEFINE p == PlanFound(found, id, excluded, chosen)
<1>1. Found(t, found)
  BY LookupSound DEF Found
<1> SUFFICES Served(t, p)
  OBVIOUS
<1> HIDE DEF found
<1>2. CASE found.hit # None /\ found.t.b[found.hit].target \notin excluded
  <2> DEFINE noted == NoteDeps(found.t, found.hit, id)
  <2>1. p = [t |-> noted, hit |-> found.hit]
    BY <1>2 DEF PlanFound
  <2>2. SameKeys(found.t, noted)
    BY <1>1, WritesKeepKeys DEF Found
  <2>3. Sound(noted) /\ DOMAIN noted.b = DOMAIN found.t.b
    BY <1>1, <2>2, SameKeysSound DEF Found, SameKeys
  <2> HIDE DEF noted
  <2> QED
    BY <1>1, <1>2, <2>1, <2>3 DEF Found, Served
<1>3. CASE ~ (found.hit # None /\ found.t.b[found.hit].target \notin excluded)
  <2> DEFINE again == Lookup(found.t, id, Targets)
  <2>1. p = BindFound(again, id, chosen)
    BY <1>3 DEF PlanFound, Bind
  <2>2. Found(found.t, again)
    BY <1>1, LookupSound DEF Found
  <2> HIDE DEF again, p
  <2>3. Found(t, again)
    BY <1>1, <2>2 DEF Found
  <2>4. Served(t, BindFound(again, id, chosen))
    BY <2>3, BindSound
  <2> QED
    BY <2>1, <2>4
<1> QED
  BY <1>2, <1>3

\* The empty table.
LEMMA IndexInit == Init => IndexInv
  BY DEF Init, IndexInv, Sound, EmptyMap

\* One step per operation on the table.
LEMMA IndexNext ==
  ASSUME IndexInv, [Next]_vars
  PROVE  IndexInv'
<1> USE DEF IndexInv
<1>0. nextInc \notin DOMAIN table.b
  OBVIOUS
<1>1. ASSUME NEW in \in Inputs, Request(in)
      PROVE  IndexInv'
  <2> DEFINE p == Planned(in)
  <2>1. /\ Sound(p.t)
        /\ DOMAIN p.t.b \subseteq DOMAIN table.b \cup {p.hit}
        /\ p.hit \in DOMAIN table.b \cup {nextInc}
    BY <1>0, PlanSound DEF Planned, Served
  <2> DEFINE asked == [p.t EXCEPT !.b[p.hit].asked = @ \cup ToSet(in.id.keys)]
  <2>2. SameKeys(p.t, asked)
    BY <2>1, WritesKeepKeys
  <2>3. Sound(asked) /\ DOMAIN asked.b = DOMAIN p.t.b
    BY <2>1, <2>2, SameKeysSound DEF SameKeys
  <2>4. table' = asked /\ nextInc' = IF p.hit = nextInc THEN nextInc + 1 ELSE nextInc
    BY <1>1 DEF Request
  <2> HIDE DEF p, asked
  <2>5. Sound(table)'
    BY <2>3, <2>4 DEF Sound
  <2>6. DOMAIN table'.b \subseteq DOMAIN table.b \cup {p.hit}
    BY <2>1, <2>3, <2>4
  <2>7. DOMAIN table'.b \subseteq 1 .. nextInc' - 1 /\ nextInc' \in Nat \ {0}
    BY <2>1, <2>4, <2>6
  <2> QED
    BY <2>5, <2>7
<1>2. ASSUME NEW i \in Incs, NEW k \in ResponseKeys, Attach(i, k)
      PROVE  IndexInv'
  <2>1. i \in DOMAIN table.b /\ table' = Register(table, i, {k}) /\ nextInc' = nextInc
    BY <1>2 DEF Attach
  <2>2. Sound(table') /\ DOMAIN table'.b = DOMAIN table.b
    BY <2>1, RegisterSound
  <2> QED
    BY <2>1, <2>2 DEF Sound
<1>3. ASSUME NEW i \in Incs, NEW target \in Targets, Move(i, target)
      PROVE  IndexInv'
  <2>1. table' = Rebind(table, i, target) /\ nextInc' = nextInc
    BY <1>3 DEF Move
  <2>2. SameKeys(table, table')
    BY <2>1, WritesKeepKeys
  <2>3. Sound(table') /\ DOMAIN table'.b = DOMAIN table.b
    BY <2>2, SameKeysSound DEF SameKeys
  <2> QED
    BY <2>1, <2>3 DEF Sound
<1>4. ASSUME NEW S, table' = RemoveBindings(table, S), nextInc' = nextInc
      PROVE  IndexInv'
  <2>1. Sound(table') /\ DOMAIN table'.b = DOMAIN table.b \ S
    BY <1>4, RemoveSound
  <2> QED
    BY <1>4, <2>1 DEF Sound
<1>5. ASSUME NEW members \in Memberships, Reconfigure(members)
      PROVE  IndexInv'
  BY <1>4, <1>5 DEF Reconfigure
<1>6. CASE SweepExpired
  BY <1>4, <1>6 DEF SweepExpired
<1>7. CASE Tick \/ UNCHANGED vars
  BY <1>7 DEF Tick, vars, Sound
<1> QED
  BY <1>1, <1>2, <1>3, <1>5, <1>6, <1>7 DEF Next

\* No entry of the exact index outlives its binding or points at one that does not
\* know the key (load-affinity.ts 324-331, 449-467), for every cap, TTL and configuration.
THEOREM IndexStaysSound == Spec => []IndexSound
<1>1. IndexInv => IndexSound
  BY DEF IndexInv, Sound, IndexSound
<1> QED
  BY <1>1, IndexInit, IndexNext, PTL DEF Spec

\* A table value of the right shape; the clock bounds what its bindings have seen.
BindingRec == [target : Targets, rev : Nat, bucket : Buckets, endpoint : Endpoints,
               users : Seq(Nat), seen : Nat, keys : SUBSET Keys, deps : SUBSET ResponseKeys,
               asked : SUBSET Keys]

Whole(t) ==
  /\ t = [b |-> t.b, idx |-> t.idx]
  /\ t.b = [i \in DOMAIN t.b |-> t.b[i]]
  /\ t.idx = [k \in DOMAIN t.idx |-> t.idx[k]]
  /\ IsFiniteSet(DOMAIN t.b) /\ DOMAIN t.b \subseteq Nat \ {0}
  /\ DOMAIN t.idx \subseteq Keys
  /\ now \in Nat
  /\ \A i \in DOMAIN t.b : t.b[i] \in BindingRec /\ t.b[i].seen <= now

\* What a lookup leaves alone.
Alike(x, y) ==
  /\ x.target = y.target /\ x.rev = y.rev /\ x.bucket = y.bucket /\ x.endpoint = y.endpoint
  /\ x.users = y.users /\ x.deps = y.deps /\ x.asked = y.asked

Kept(t, u) == DOMAIN u.b \subseteq DOMAIN t.b /\ \A i \in DOMAIN u.b : Alike(t.b[i], u.b[i])

\* remove
LEMMA RemoveShape ==
  ASSUME NEW t, Whole(t), NEW S
  PROVE  LET u == RemoveBindings(t, S)
         IN  /\ Whole(u) /\ DOMAIN u.b = DOMAIN t.b \ S
             /\ \A i \in DOMAIN u.b : u.b[i] = t.b[i]
             /\ DOMAIN u.idx \subseteq DOMAIN t.idx
             /\ \A k \in DOMAIN u.idx : u.idx[k] = t.idx[k]
             /\ \A k \in DOMAIN t.idx : t.idx[k] \notin S => k \in DOMAIN u.idx
             /\ S = {} => u = t
<1> DEFINE b2 == Without(t.b, S)
<1> DEFINE x2 == Without(t.idx, {k \in DOMAIN t.idx : t.idx[k] \in S /\ k \in t.b[t.idx[k]].keys})
<1>1. RemoveBindings(t, S) = [b |-> b2, idx |-> x2]
  BY DEF RemoveBindings
<1>2. b2 = [i \in DOMAIN t.b \ S |-> t.b[i]]
  BY DEF Without
<1>3. /\ x2 = [k \in DOMAIN x2 |-> x2[k]]
      /\ DOMAIN x2 \subseteq DOMAIN t.idx
      /\ \A k \in DOMAIN x2 : x2[k] = t.idx[k]
      /\ \A k \in DOMAIN t.idx : t.idx[k] \notin S => k \in DOMAIN x2
  BY DEF Without
<1>4. IsFiniteSet(DOMAIN b2)
  BY <1>2, FS_Subset DEF Whole
<1>5. ASSUME S = {}
      PROVE  b2 = t.b /\ x2 = t.idx
  BY <1>5 DEF Whole, Without
<1> HIDE DEF b2, x2
<1> QED
  BY <1>1, <1>2, <1>3, <1>4, <1>5 DEF Whole

\* #detachExactKey
LEMMA DetachShape ==
  ASSUME NEW t, Whole(t), NEW K
  PROVE  LET u == Detach(t, K)
         IN  /\ Whole(u) /\ Kept(t, u) /\ DOMAIN u.b = DOMAIN t.b
             /\ \A i \in DOMAIN u.b : u.b[i].seen = t.b[i].seen
             /\ DOMAIN u.idx = DOMAIN t.idx \ K
             /\ \A k \in DOMAIN u.idx : u.idx[k] = t.idx[k]
             /\ K = {} => u = t
<1> DEFINE L(i) == {k \in K \cap DOMAIN t.idx : t.idx[k] = i}
<1> DEFINE b2 == [i \in DOMAIN t.b |-> [t.b[i] EXCEPT !.keys = @ \ L(i)]]
<1> DEFINE x2 == [k \in DOMAIN t.idx \ K |-> t.idx[k]]
<1>1. Detach(t, K) = [b |-> b2, idx |-> x2]
  BY DEF Detach, Without
<1>2. \A i \in DOMAIN t.b :
         /\ b2[i] \in BindingRec /\ Alike(t.b[i], b2[i]) /\ b2[i].seen = t.b[i].seen
         /\ L(i) = {} => b2[i] = t.b[i]
  <2> TAKE i \in DOMAIN t.b
  <2>1. t.b[i] \in BindingRec
    BY DEF Whole
  <2>2. b2[i] = [t.b[i] EXCEPT !.keys = @ \ L(i)]
    OBVIOUS
  <2> HIDE DEF L, b2
  <2>3. b2[i] \in BindingRec
    BY <2>1, <2>2 DEF BindingRec
  <2>4. Alike(t.b[i], b2[i]) /\ b2[i].seen = t.b[i].seen
    BY <2>1, <2>2 DEF BindingRec, Alike
  <2>5. L(i) = {} => b2[i] = t.b[i]
    BY <2>1, <2>2 DEF BindingRec
  <2> QED
    BY <2>3, <2>4, <2>5
<1>3. DOMAIN b2 = DOMAIN t.b /\ b2 = [i \in DOMAIN b2 |-> b2[i]]
  OBVIOUS
<1>4. K = {} => \A i \in DOMAIN t.b : L(i) = {}
  OBVIOUS
<1>5. ASSUME K = {}
      PROVE  b2 = t.b
  <2>1. \A i \in DOMAIN t.b : b2[i] = t.b[i]
    BY <1>2, <1>4, <1>5
  <2>2. [i \in DOMAIN t.b |-> b2[i]] = [i \in DOMAIN t.b |-> t.b[i]]
    BY <2>1, Zenon
  <2> QED
    BY <1>3, <2>2 DEF Whole
<1>6. K = {} => x2 = t.idx
  BY DEF Whole
<1> HIDE DEF b2, L
<1>7. Whole([b |-> b2, idx |-> x2])
  BY <1>2, <1>3 DEF Whole
<1> QED
  BY <1>1, <1>2, <1>3, <1>5, <1>6, <1>7 DEF Whole, Kept

\* Touch, Rebind, NoteDeps and the history: one binding changes, in one field or two.
LEMMA TouchShape ==
  ASSUME NEW t, Whole(t), NEW i \in DOMAIN t.b
  PROVE  LET u == Touch(t, i)
         IN  /\ Whole(u) /\ Kept(t, u) /\ DOMAIN u.b = DOMAIN t.b /\ u.idx = t.idx
             /\ \A j \in DOMAIN u.b : u.b[j].seen = IF j = i THEN now ELSE t.b[j].seen
<1> DEFINE b2 == [t.b EXCEPT ![i].seen = now]
<1>1. Touch(t, i) = [b |-> b2, idx |-> t.idx]
  BY DEF Touch, Whole
<1>2. \A j \in DOMAIN t.b :
         /\ b2[j] \in BindingRec /\ Alike(t.b[j], b2[j])
         /\ b2[j].seen = IF j = i THEN now ELSE t.b[j].seen
  BY DEF Whole, BindingRec, Alike
<1>3. DOMAIN b2 = DOMAIN t.b /\ b2 = [j \in DOMAIN b2 |-> b2[j]]
  OBVIOUS
<1> HIDE DEF b2
<1>4. Whole([b |-> b2, idx |-> t.idx])
  BY <1>2, <1>3 DEF Whole
<1> QED
  BY <1>1, <1>2, <1>3, <1>4 DEF Kept

\* rebind
LEMMA RebindShape ==
  ASSUME NEW t, Whole(t), NEW i \in DOMAIN t.b, NEW n \in Targets
  PROVE  LET u == Rebind(t, i, n)
         IN  /\ Whole(u) /\ DOMAIN u.b = DOMAIN t.b /\ u.idx = t.idx
             /\ \A j \in DOMAIN t.b \ {i} : u.b[j] = t.b[j]
             /\ u.b[i].target = n /\ u.b[i].seen = now
             /\ u.b[i].bucket = t.b[i].bucket /\ u.b[i].endpoint = t.b[i].endpoint
             /\ u.b[i].users = t.b[i].users /\ u.b[i].keys = t.b[i].keys
             /\ u.b[i].deps = t.b[i].deps /\ u.b[i].asked = t.b[i].asked
<1> DEFINE r == IF t.b[i].target = n THEN t.b[i].rev ELSE t.b[i].rev + 1
<1> DEFINE x == [t.b[i] EXCEPT !.rev = r, !.target = n, !.seen = now]
<1> DEFINE b2 == [t.b EXCEPT ![i] = x]
<1>0. Rebind(t, i, n) = [t EXCEPT !.b[i] = x]
  BY DEF Rebind
<1>1. [t EXCEPT !.b[i] = x] = [t EXCEPT !.b = b2]
  OBVIOUS
<1>2. r \in Nat
  BY DEF Whole, BindingRec
<1> HIDE DEF r
<1>3. x \in BindingRec /\ x.seen = now
  BY <1>2 DEF Whole, BindingRec
<1>7. /\ x.target = n /\ x.bucket = t.b[i].bucket /\ x.endpoint = t.b[i].endpoint
      /\ x.users = t.b[i].users /\ x.keys = t.b[i].keys
      /\ x.deps = t.b[i].deps /\ x.asked = t.b[i].asked
  BY DEF Whole, BindingRec
<1> HIDE DEF x
<1>4. /\ DOMAIN b2 = DOMAIN t.b /\ b2 = [j \in DOMAIN b2 |-> b2[j]]
      /\ b2[i] = x /\ \A j \in DOMAIN t.b \ {i} : b2[j] = t.b[j]
  OBVIOUS
<1> HIDE DEF b2
<1>5. [t EXCEPT !.b = b2] = [b |-> b2, idx |-> t.idx]
  BY DEF Whole
<1>6. Whole([b |-> b2, idx |-> t.idx])
  BY <1>3, <1>4 DEF Whole
<1> QED
  BY <1>0, <1>1, <1>3, <1>4, <1>5, <1>6, <1>7

\* noteRequestDependencies
LEMMA NoteShape ==
  ASSUME NEW t, Whole(t), NEW i \in DOMAIN t.b, NEW id
  PROVE  LET u == NoteDeps(t, i, id)
         IN  /\ Whole(u) /\ DOMAIN u.b = DOMAIN t.b /\ u.idx = t.idx
             /\ \A j \in DOMAIN t.b \ {i} : u.b[j] = t.b[j]
             /\ u.b[i] = [t.b[i] EXCEPT !.deps = @ \cup NamedResponse(id)]
<1> DEFINE x == [t.b[i] EXCEPT !.deps = @ \cup NamedResponse(id)]
<1> DEFINE b2 == [t.b EXCEPT ![i] = x]
<1>0. NamedResponse(id) \subseteq ResponseKeys
  BY DEF NamedResponse
<1>1. x \in BindingRec /\ x.seen = t.b[i].seen
  BY <1>0 DEF Whole, BindingRec
<1>2. NoteDeps(t, i, id) = [t EXCEPT !.b = b2]
  BY DEF NoteDeps
<1> HIDE DEF x
<1>3. /\ DOMAIN b2 = DOMAIN t.b /\ b2 = [j \in DOMAIN b2 |-> b2[j]]
      /\ b2[i] = x /\ \A j \in DOMAIN t.b \ {i} : b2[j] = t.b[j]
  OBVIOUS
<1> HIDE DEF b2
<1>5. [t EXCEPT !.b = b2] = [b |-> b2, idx |-> t.idx]
  BY DEF Whole
<1>4. Whole([b |-> b2, idx |-> t.idx])
  BY <1>1, <1>3 DEF Whole
<1> QED
  BY <1>2, <1>3, <1>4, <1>5 DEF x

\* #registerExactKeys
LEMMA RegisterShape ==
  ASSUME NEW t, Whole(t), NEW i \in DOMAIN t.b, NEW K \in SUBSET Keys
  PROVE  LET u == Register(t, i, K)
         IN  /\ Whole(u) /\ Kept(t, u) /\ DOMAIN u.b = DOMAIN t.b
             /\ \A j \in DOMAIN u.b : u.b[j].seen = t.b[j].seen
             /\ DOMAIN u.idx = DOMAIN t.idx \cup K
             /\ \A k \in DOMAIN u.idx : u.idx[k] = IF k \in K THEN i ELSE t.idx[k]
<1> DEFINE x == [t.b[i] EXCEPT !.keys = @ \cup K]
<1> DEFINE b2 == [t.b EXCEPT ![i] = x]
<1> DEFINE x2 == [k \in DOMAIN t.idx \cup K |-> IF k \in K THEN i ELSE t.idx[k]]
<1>1. x \in BindingRec /\ x.seen = t.b[i].seen /\ Alike(t.b[i], x)
  BY DEF Whole, BindingRec, Alike
<1>2. Register(t, i, K) = [b |-> b2, idx |-> x2]
  BY DEF Register, Whole, BindingRec
<1> HIDE DEF x
<1>3. /\ DOMAIN b2 = DOMAIN t.b /\ b2 = [j \in DOMAIN b2 |-> b2[j]]
      /\ b2[i] = x /\ \A j \in DOMAIN t.b \ {i} : b2[j] = t.b[j]
  OBVIOUS
<1> HIDE DEF b2
<1>4. Whole([b |-> b2, idx |-> x2])
  BY <1>1, <1>3 DEF Whole
<1>5. \A j \in DOMAIN t.b : Alike(t.b[j], b2[j]) /\ b2[j].seen = t.b[j].seen
  BY <1>1, <1>3 DEF Alike
<1> QED
  BY <1>2, <1>3, <1>4, <1>5 DEF Kept

\* A strict order on a finite set has a minimal element.
LEMMA FiniteMinimal ==
  ASSUME NEW S, IsFiniteSet(S), S # {}, NEW R,
         \A x \in S : <<x, x>> \notin R,
         \A x, y, z \in S : <<x, y>> \in R /\ <<y, z>> \in R => <<x, z>> \in R
  PROVE  \E x \in S : \A y \in S : <<y, x>> \notin R
<1> DEFINE Below(x) == {y \in S : <<y, x>> \in R}
<1> DEFINE T == {Below(x) : x \in S}
<1>1. IsWellFoundedOn(StrictSubsetOrdering(S), SUBSET S)
  BY FS_StrictSubsetOrderingWellFounded, FS_FiniteSubsetsOfFinite
<1>2. T \subseteq SUBSET S /\ T # {}
  <2>1. PICK x \in S : TRUE
    OBVIOUS
  <2>2. Below(x) \in T
    BY <2>1
  <2>3. \A n \in T : n \subseteq S
    <3> TAKE n \in T
    <3> PICK low \in S : n = Below(low)
      BY Zenon
    <3> QED
      OBVIOUS
  <2> QED
    BY <2>2, <2>3
<1>3. PICK m \in T : \A n \in T : <<n, m>> \notin StrictSubsetOrdering(S)
  BY <1>1, <1>2, WFMin
<1>4. PICK x \in S : m = Below(x)
  OBVIOUS
<1>5. ASSUME NEW y \in S, <<y, x>> \in R
      PROVE  FALSE
  <2>1. Below(y) \subseteq Below(x) /\ y \in Below(x) /\ y \notin Below(y)
    BY <1>5
  <2>2. <<Below(y), m>> \in StrictSubsetOrdering(S)
    BY <1>2, <1>4, <2>1 DEF StrictSubsetOrdering
  <2> QED
    BY <1>3, <2>2
<1> QED
  BY <1>5

Fits(t, i, id, targets) == Usable(t, i, id, targets) /\ PrefixMatches(t.b[i].users, id.users)

Newer(t, bucket, i) == {j \in InBucket(t, bucket) : Before(t, j, i)}

\* Where a lookup ended: at the first key the index still has, at a prefix no newer one rivals, or nowhere.
NoKey(t, id) == \A n \in DOMAIN id.keys : id.keys[n] \notin DOMAIN t.idx

ByKey(t, i, id) ==
  \E n \in DOMAIN id.keys :
    /\ id.keys[n] \in DOMAIN t.idx /\ t.idx[id.keys[n]] = i
    /\ \A m \in DOMAIN id.keys : m < n => id.keys[m] \notin DOMAIN t.idx

ByPrefix(t, i, id, targets) ==
  /\ NoKey(t, id) /\ i \in Window(t, id.bucket) /\ PrefixMatches(t.b[i].users, id.users)
  /\ \A j \in DOMAIN t.b : Fits(t, j, id, targets) /\ t.b[j].seen = now => i <= j

Nowhere(t, id, targets) ==
  NoKey(t, id) /\ \A j \in Window(t, id.bucket) : ~ Fits(t, j, id, targets)

Looked(t, id, targets, l) ==
  /\ Whole(l.t) /\ Kept(t, l.t)
  /\ \A i \in DOMAIN l.t.b : l.t.b[i].seen = IF i = l.hit THEN now ELSE t.b[i].seen
  /\ \/ /\ l.hit \in DOMAIN l.t.b /\ Usable(l.t, l.hit, id, targets)
        /\ ByKey(l.t, l.hit, id) \/ ByPrefix(l.t, l.hit, id, targets)
     \/ l.hit = None /\ Nowhere(l.t, id, targets)

\* A usable binding that was just seen stays usable, and the same for alike bindings.
LEMMA UsableTouched ==
  ASSUME NEW t, Whole(t), NEW u, Whole(u), Kept(t, u), NEW i \in DOMAIN u.b, NEW id, NEW targets,
         u.b[i].seen \in {t.b[i].seen, now}, Usable(t, i, id, targets)
  PROVE  Usable(u, i, id, targets)
<1>1. t.b[i].seen \in Nat /\ now \in Nat /\ Ttl \in Nat
  BY AffinityAssumption DEF Whole, Kept, BindingRec
<1>2. ~ Expired(t.b[i])
  BY DEF Usable
<1>3. ~ Expired(u.b[i])
  BY <1>1, <1>2 DEF Expired
<1> QED
  BY <1>3 DEF Usable, Kept, Alike

\* What #lookupExact hands on.
ExactLooked(t, id, targets, l) ==
  /\ Whole(l.t) /\ Kept(t, l.t)
  /\ \A i \in DOMAIN l.t.b : l.t.b[i].seen = IF i = l.hit THEN now ELSE t.b[i].seen
  /\ \/ l.hit \in DOMAIN l.t.b /\ Usable(l.t, l.hit, id, targets) /\ ByKey(l.t, l.hit, id)
     \/ l.hit = None /\ NoKey(l.t, id)
  /\ NoKey(t, id) => l = [t |-> t, hit |-> None]

\* #lookupExact: it ends at the first key the index still has, or has forgotten them all.
LEMMA ExactShape ==
  ASSUME NEW t, Whole(t), Sound(t), NEW id \in Identities, NEW targets
  PROVE  ExactLooked(t, id, targets, LookupExact(t, id, targets))
<1> DEFINE indexed == {n \in DOMAIN id.keys : id.keys[n] \in DOMAIN t.idx}
<1> DEFINE hits == {n \in indexed : Usable(t, t.idx[id.keys[n]], id, targets)}
<1> DEFINE first == {n \in hits : \A h \in hits : n <= h}
<1> DEFINE dead == {id.keys[n] : n \in {m \in indexed : \A h \in hits : m < h}}
<1> DEFINE gone == ExpiredOf(t, {t.idx[k] : k \in dead}, targets)
<1> DEFINE detached == Detach(t, dead)
<1> DEFINE left == RemoveBindings(detached, gone)
<1> DEFINE n0 == CHOOSE n \in first : TRUE
<1> DEFINE hit == t.idx[id.keys[n0]]
<1> DEFINE l == LookupExact(t, id, targets)
<1>1. l = IF first = {} THEN [t |-> left, hit |-> None] ELSE [t |-> Touch(left, hit), hit |-> hit]
  BY DEF LookupExact
<1>2. DOMAIN id.keys \subseteq Nat \ {0} /\ IsFiniteSet(DOMAIN id.keys)
  <2>1. id.keys \in Seq(Keys)
    BY AffinityAssumption
  <2>2. DOMAIN id.keys = 1 .. Len(id.keys) /\ Len(id.keys) \in Nat
    BY <2>1
  <2>3. IsFiniteSet(1 .. Len(id.keys))
    BY <2>2, FS_Interval
  <2> QED
    BY <2>2, <2>3
<1>3. first = {} => hits = {}
  <2> DEFINE R == {e \in hits \X hits : e[1] < e[2]}
  <2>1. IsFiniteSet(hits) /\ hits \subseteq Nat
    BY <1>2, FS_Subset
  <2>2. /\ \A x \in hits : <<x, x>> \notin R
        /\ \A x, y, z \in hits : <<x, y>> \in R /\ <<y, z>> \in R => <<x, z>> \in R
        /\ \A x, y \in hits : <<y, x>> \notin R => x <= y
    BY <2>1
  <2> HIDE DEF R, hits
  <2>3. hits # {} => \E x \in hits : \A y \in hits : <<y, x>> \notin R
    BY <2>1, <2>2, FiniteMinimal
  <2> QED
    BY <2>2, <2>3
<1>4. /\ Whole(detached) /\ Kept(t, detached) /\ DOMAIN detached.b = DOMAIN t.b
      /\ \A i \in DOMAIN detached.b : detached.b[i].seen = t.b[i].seen
      /\ DOMAIN detached.idx = DOMAIN t.idx \ dead
      /\ \A k \in DOMAIN detached.idx : detached.idx[k] = t.idx[k]
      /\ dead = {} => detached = t
  BY DetachShape
<1> HIDE DEF detached
<1>5. /\ Whole(left) /\ DOMAIN left.b = DOMAIN t.b \ gone
      /\ \A i \in DOMAIN left.b : left.b[i] = detached.b[i]
      /\ DOMAIN left.idx \subseteq DOMAIN detached.idx
      /\ \A k \in DOMAIN left.idx : left.idx[k] = t.idx[k]
      /\ \A k \in DOMAIN detached.idx : t.idx[k] \notin gone => k \in DOMAIN left.idx
      /\ gone = {} => left = detached
  BY <1>4, RemoveShape
<1> HIDE DEF left
<1>6. Kept(t, left) /\ \A i \in DOMAIN left.b : left.b[i].seen = t.b[i].seen
  BY <1>4, <1>5 DEF Kept
<1>7. CASE first = {}
  <2>1. hits = {}
    BY <1>3, <1>7
  <2>2. NoKey(left, id)
    BY <2>1, <1>4, <1>5 DEF NoKey
  <2>3. None \notin DOMAIN left.b
    BY <1>5 DEF Whole, None
  <2>4. ASSUME NoKey(t, id)
        PROVE  left = t
    <3>1. dead = {}
      BY <2>4 DEF NoKey
    <3>2. gone = {}
      BY <3>1 DEF ExpiredOf
    <3> QED
      BY <3>1, <3>2, <1>4, <1>5
  <2>5. l = [t |-> left, hit |-> None]
    BY <1>1, <1>7
  <2> HIDE DEF l
  <2>6. ExactLooked(t, id, targets, l)
    BY <1>5, <1>6, <2>2, <2>3, <2>4, <2>5 DEF ExactLooked
  <2> QED
    BY <2>6 DEF l
<1>8. CASE first # {}
  <2>1. n0 \in first
    BY <1>8
  <2>2. /\ n0 \in DOMAIN id.keys /\ id.keys[n0] \in DOMAIN t.idx
        /\ Usable(t, hit, id, targets) /\ \A h \in hits : n0 <= h
    BY <2>1
  <2> HIDE DEF n0
  <2>3. id.keys[n0] \notin dead
    <3>1. ASSUME NEW m \in indexed, \A h \in hits : m < h, id.keys[m] = id.keys[n0]
          PROVE  FALSE
      <4>1. m \in hits
        BY <2>2, <3>1
      <4> QED
        BY <3>1, <4>1, <1>2
    <3> QED
      BY <3>1
  <2>4. hit \in DOMAIN t.b /\ hit \notin gone
    BY <2>2 DEF Sound, Usable, ExpiredOf
  <2>5. id.keys[n0] \in DOMAIN left.idx /\ left.idx[id.keys[n0]] = hit
    BY <2>2, <2>3, <2>4, <1>4, <1>5
  <2>6. \A m \in DOMAIN id.keys : m < n0 => id.keys[m] \notin DOMAIN left.idx
    <3>1. ASSUME NEW m \in DOMAIN id.keys, m < n0, id.keys[m] \in DOMAIN left.idx
          PROVE  FALSE
      <4>1. m \in indexed
        BY <3>1, <1>4, <1>5
      <4>2. \A h \in hits : m < h
        BY <2>2, <3>1, <1>2
      <4>3. id.keys[m] \in dead
        BY <4>1, <4>2
      <4> QED
        BY <4>3, <3>1, <1>4, <1>5
    <3> QED
      BY <3>1
  <2> DEFINE u == Touch(left, hit)
  <2>7. hit \in DOMAIN left.b
    BY <2>4, <1>5
  <2>8. /\ Whole(u) /\ Kept(left, u) /\ DOMAIN u.b = DOMAIN left.b /\ u.idx = left.idx
        /\ \A j \in DOMAIN u.b : u.b[j].seen = IF j = hit THEN now ELSE left.b[j].seen
    BY <2>7, <1>5, TouchShape
  <2> HIDE DEF u
  <2>9. Kept(t, u)
    BY <2>8, <1>6 DEF Kept, Alike
  <2>10. Usable(u, hit, id, targets)
    BY <2>2, <2>7, <2>8, <2>9, UsableTouched
  <2>11. ByKey(u, hit, id)
    BY <2>2, <2>5, <2>6, <2>8 DEF ByKey
  <2>12. ~ NoKey(t, id)
    BY <2>2 DEF NoKey
  <2>13. l = [t |-> u, hit |-> hit]
    BY <1>1, <1>8 DEF u
  <2> HIDE DEF l, hit
  <2>14. ExactLooked(t, id, targets, l)
    BY <2>7, <2>8, <2>9, <2>10, <2>11, <2>12, <2>13, <1>6 DEF ExactLooked
  <2> QED
    BY <2>14 DEF l
<1> QED
  BY <1>7, <1>8

\* The slice of a bucket a lookup scans is closed towards newer bindings.
LEMMA NewerFinite ==
  ASSUME NEW t, Whole(t), NEW bucket, NEW i
  PROVE  /\ IsFiniteSet(Newer(t, bucket, i)) /\ Cardinality(Newer(t, bucket, i)) \in Nat
         /\ IsFiniteSet(InBucket(t, bucket)) /\ Cardinality(InBucket(t, bucket)) \in Nat
         /\ Newer(t, bucket, i) \subseteq InBucket(t, bucket) /\ InBucket(t, bucket) \subseteq DOMAIN t.b
<1>1. Newer(t, bucket, i) \subseteq InBucket(t, bucket) /\ InBucket(t, bucket) \subseteq DOMAIN t.b
  BY DEF Newer, InBucket
<1>2. IsFiniteSet(DOMAIN t.b)
  BY DEF Whole
<1>3. IsFiniteSet(Newer(t, bucket, i)) /\ IsFiniteSet(InBucket(t, bucket))
  BY <1>1, <1>2, FS_Subset
<1> QED
  BY <1>1, <1>3, FS_CardinalityType

\* The slice by the bindings that come before each of its members.
LEMMA WindowIsNewest ==
  ASSUME NEW t, NEW bucket
  PROVE  Window(t, bucket) = {i \in InBucket(t, bucket) : Cardinality(Newer(t, bucket, i)) < MaxScan}
  BY DEF Window, Newer

\* Fewer newer bindings, and a binding is still in the slice.
LEMMA WindowFrom ==
  ASSUME NEW t, Whole(t), NEW u, Whole(u), NEW bucket, NEW i \in Window(t, bucket),
         NEW j \in InBucket(u, bucket), Newer(u, bucket, j) \subseteq Newer(t, bucket, i)
  PROVE  j \in Window(u, bucket)
<1>1. Cardinality(Newer(t, bucket, i)) < MaxScan
  BY WindowIsNewest
<1>2. /\ IsFiniteSet(Newer(t, bucket, i))
      /\ Cardinality(Newer(t, bucket, i)) \in Nat /\ Cardinality(Newer(u, bucket, j)) \in Nat
  BY NewerFinite
<1>3. Cardinality(Newer(u, bucket, j)) <= Cardinality(Newer(t, bucket, i))
  BY <1>2, FS_Subset
<1>4. Cardinality(Newer(u, bucket, j)) < MaxScan
  BY <1>1, <1>2, <1>3, AffinityAssumption
<1> QED
  BY <1>4, WindowIsNewest

\* The order of a scan is a strict total order.
LEMMA BeforeOrders ==
  ASSUME NEW t, Whole(t), NEW i \in DOMAIN t.b, NEW j \in DOMAIN t.b
  PROVE  /\ ~ (Before(t, i, j) /\ Before(t, j, i))
         /\ i = j \/ Before(t, i, j) \/ Before(t, j, i)
         /\ \A k \in DOMAIN t.b : Before(t, i, j) /\ Before(t, j, k) => Before(t, i, k)
<1>1. \A k \in DOMAIN t.b : k \in Nat /\ t.b[k].seen \in Nat
  BY DEF Whole, BindingRec
<1> QED
  BY <1>1 DEF Before

\* Whoever comes before a binding of the slice is in it.
LEMMA WindowClosed ==
  ASSUME NEW t, Whole(t), NEW bucket, NEW i \in Window(t, bucket),
         NEW j \in InBucket(t, bucket), Before(t, j, i)
  PROVE  j \in Window(t, bucket)
<1>1. i \in DOMAIN t.b /\ j \in DOMAIN t.b
  BY DEF Window, InBucket
<1>2. Newer(t, bucket, j) \subseteq Newer(t, bucket, i)
  BY <1>1, BeforeOrders DEF Newer, InBucket
<1> QED
  BY <1>2, WindowFrom

\* A binding of the slice that was just seen stays in it.
LEMMA WindowTouched ==
  ASSUME NEW t, Whole(t), NEW u, Whole(u), Kept(t, u), NEW bucket, NEW i \in Window(t, bucket),
         i \in DOMAIN u.b, u.b[i].seen = now,
         \A j \in DOMAIN u.b \ {i} : u.b[j].seen = t.b[j].seen
  PROVE  i \in Window(u, bucket)
<1>1. i \in InBucket(u, bucket) /\ i \in DOMAIN t.b
  BY DEF Window, InBucket, Kept, Alike
<1>2. ASSUME NEW j \in Newer(u, bucket, i)
      PROVE  j \in Newer(t, bucket, i)
  <2>1. j \in DOMAIN u.b /\ j \in InBucket(t, bucket) /\ Before(u, j, i)
    BY DEF Newer, InBucket, Kept, Alike
  <2>2. u.b[j].seen \in Nat /\ u.b[j].seen <= now /\ i \in Nat /\ now \in Nat
    BY <2>1, <1>1 DEF Whole, BindingRec
  <2>3. j # i /\ u.b[j].seen = now /\ j < i
    BY <2>1, <2>2 DEF Before
  <2>4. t.b[i].seen \in Nat /\ t.b[i].seen <= now
    BY <1>1 DEF Whole, BindingRec
  <2>5. t.b[j].seen = now
    BY <2>1, <2>3
  <2> QED
    BY <2>1, <2>2, <2>3, <2>4, <2>5 DEF Newer, Before
<1> QED
  BY <1>1, <1>2, WindowFrom

\* When expired bindings are removed, what comes into the slice is expired too.
LEMMA WindowSwept ==
  ASSUME NEW t, Whole(t), NEW u, Whole(u), DOMAIN u.b \subseteq DOMAIN t.b,
         \A i \in DOMAIN u.b : u.b[i] = t.b[i],
         \A i \in DOMAIN t.b \ DOMAIN u.b : Expired(t.b[i]),
         NEW bucket, NEW j \in Window(u, bucket), ~ Expired(t.b[j])
  PROVE  j \in Window(t, bucket)
<1>1. j \in DOMAIN u.b /\ j \in InBucket(t, bucket)
  BY DEF Window, InBucket
<1>2. ASSUME NEW k \in Newer(t, bucket, j)
      PROVE  k \in Newer(u, bucket, j)
  <2>1. k \in DOMAIN t.b /\ k \in InBucket(t, bucket) /\ Before(t, k, j)
    BY DEF Newer, InBucket
  <2>2. /\ t.b[k].seen \in Nat /\ t.b[j].seen \in Nat /\ now \in Nat /\ Ttl \in Nat
        /\ t.b[k].seen >= t.b[j].seen
    BY <2>1, <1>1, AffinityAssumption DEF Whole, BindingRec, Before
  <2>3. ~ Expired(t.b[k])
    BY <2>2 DEF Expired
  <2> QED
    BY <2>1, <2>3, <1>1 DEF Newer, InBucket, Before
<1> QED
  BY <1>1, <1>2, WindowFrom

\* What #lookupBucket hands on when no key led anywhere.
LEMMA BucketShape ==
  ASSUME NEW t, Whole(t), NEW id \in Identities, NoKey(t, id), NEW targets
  PROVE  Looked(t, id, targets, LookupBucket(t, id, targets))
<1> DEFINE scan == Window(t, id.bucket)
<1> DEFINE hits == {i \in scan : /\ Usable(t, i, id, targets)
                                 /\ PrefixMatches(t.b[i].users, id.users)}
<1> DEFINE newest == {i \in hits : \A j \in hits : i = j \/ Before(t, i, j)}
<1> DEFINE gone == ExpiredOf(t, scan, targets)
<1> DEFINE left == RemoveBindings(t, gone)
<1> DEFINE hit == CHOOSE i \in newest : TRUE
<1> DEFINE l == LookupBucket(t, id, targets)
<1>1. l = IF newest = {} THEN [t |-> left, hit |-> None] ELSE [t |-> Touch(t, hit), hit |-> hit]
  BY DEF LookupBucket
<1>2. scan \subseteq InBucket(t, id.bucket) /\ scan \subseteq DOMAIN t.b /\ IsFiniteSet(hits)
  <2>1. scan \subseteq InBucket(t, id.bucket) /\ scan \subseteq DOMAIN t.b
    BY DEF Window, InBucket
  <2>2. IsFiniteSet(DOMAIN t.b)
    BY DEF Whole
  <2> QED
    BY <2>1, <2>2, FS_Subset
<1>3. newest = {} => hits = {}
  <2> DEFINE R == {e \in hits \X hits : Before(t, e[1], e[2])}
  <2>1. /\ \A x \in hits : <<x, x>> \notin R
        /\ \A x, y, z \in hits : <<x, y>> \in R /\ <<y, z>> \in R => <<x, z>> \in R
        /\ \A x, y \in hits : <<y, x>> \notin R => x = y \/ Before(t, x, y)
    BY <1>2, BeforeOrders
  <2> HIDE DEF R, hits
  <2>2. hits # {} => \E x \in hits : \A y \in hits : <<y, x>> \notin R
    BY <1>2, <2>1, FiniteMinimal
  <2> QED
    BY <2>1, <2>2
<1>4. CASE newest = {}
  <2>1. hits = {}
    BY <1>3, <1>4
  <2>2. /\ Whole(left) /\ DOMAIN left.b = DOMAIN t.b \ gone
        /\ \A i \in DOMAIN left.b : left.b[i] = t.b[i]
        /\ DOMAIN left.idx \subseteq DOMAIN t.idx
    BY RemoveShape
  <2> HIDE DEF left
  <2>3. Kept(t, left) /\ None \notin DOMAIN left.b
    BY <2>2 DEF Kept, Alike, Whole, None
  <2>4. NoKey(left, id)
    BY <2>2 DEF NoKey
  <2>5. ASSUME NEW j \in Window(left, id.bucket), Fits(left, j, id, targets)
        PROVE  FALSE
    <3>1. j \in DOMAIN left.b
      BY DEF Window, InBucket
    <3>2. Fits(t, j, id, targets) /\ ~ Expired(t.b[j])
      BY <2>2, <2>5, <3>1 DEF Fits, Usable
    <3>3. \A i \in DOMAIN t.b \ DOMAIN left.b : Expired(t.b[i])
      BY <2>2 DEF ExpiredOf
    <3>4. j \in Window(t, id.bucket)
      BY <2>2, <3>2, <3>3, WindowSwept
    <3> QED
      BY <2>1, <3>2, <3>4 DEF Fits
  <2>6. Nowhere(left, id, targets)
    BY <2>4, <2>5 DEF Nowhere
  <2>7. l = [t |-> left, hit |-> None]
    BY <1>1, <1>4
  <2> HIDE DEF l
  <2>8. Looked(t, id, targets, l)
    BY <2>2, <2>3, <2>6, <2>7 DEF Looked
  <2> QED
    BY <2>8 DEF l
<1>5. CASE newest # {}
  <2>1. hit \in newest
    BY <1>5
  <2>2. hit \in scan /\ hit \in DOMAIN t.b
    BY <2>1, <1>2
  <2>3. Usable(t, hit, id, targets) /\ PrefixMatches(t.b[hit].users, id.users)
    BY <2>1
  <2>4. \A j \in scan : Fits(t, j, id, targets) => hit = j \/ Before(t, hit, j)
    BY <2>1 DEF Fits
  <2> DEFINE u == Touch(t, hit)
  <2>5. l = [t |-> u, hit |-> hit]
    BY <1>1, <1>5
  <2> HIDE DEF hit
  <2>6. /\ Whole(u) /\ Kept(t, u) /\ DOMAIN u.b = DOMAIN t.b /\ u.idx = t.idx
        /\ \A j \in DOMAIN u.b : u.b[j].seen = IF j = hit THEN now ELSE t.b[j].seen
    BY <2>2, TouchShape
  <2> HIDE DEF u
  <2>7. Usable(u, hit, id, targets)
    BY <2>2, <2>3, <2>6, UsableTouched
  <2>8. hit \in Window(u, id.bucket)
    BY <2>2, <2>6, WindowTouched
  <2>9. ASSUME NEW j \in DOMAIN u.b, Fits(u, j, id, targets), u.b[j].seen = now
        PROVE  hit <= j
    <3>1. SUFFICES ASSUME j < hit
                   PROVE  FALSE
      BY <2>2, <2>6 DEF Whole
    <3>2. j # hit /\ t.b[j].seen = now
      BY <2>2, <2>6, <2>9, <3>1 DEF Whole
    <3>3. Before(t, j, hit)
      <4>1. t.b[hit].seen \in Nat /\ t.b[hit].seen <= now /\ now \in Nat
        BY <2>2 DEF Whole, BindingRec
      <4> QED
        BY <3>1, <3>2, <4>1 DEF Before
    <3>4. Fits(t, j, id, targets) /\ j \in InBucket(t, id.bucket)
      BY <2>6, <2>9, <3>2 DEF Fits, Usable, Kept, Alike, InBucket, Expired
    <3>5. j \in scan
      BY <2>2, <3>3, <3>4, WindowClosed
    <3> QED
      BY <2>2, <2>4, <2>6, <3>2, <3>3, <3>4, <3>5, BeforeOrders
  <2>10. NoKey(u, id) /\ PrefixMatches(u.b[hit].users, id.users)
    BY <2>2, <2>3, <2>6 DEF NoKey, Kept, Alike
  <2>11. ByPrefix(u, hit, id, targets)
    BY <2>8, <2>9, <2>10 DEF ByPrefix
  <2> HIDE DEF l
  <2>12. Looked(t, id, targets, l)
    BY <2>2, <2>5, <2>6, <2>7, <2>11 DEF Looked
  <2> QED
    BY <2>12 DEF l
<1> QED
  BY <1>4, <1>5

\* A lookup as a whole.
LEMMA LookupShape ==
  ASSUME NEW t, Whole(t), Sound(t), NEW id \in Identities, NEW targets
  PROVE  Looked(t, id, targets, Lookup(t, id, targets))
<1> DEFINE exact == LookupExact(t, id, targets)
<1> DEFINE inBucket == LookupBucket(exact.t, id, targets)
<1>1. ExactLooked(t, id, targets, exact)
  BY ExactShape
<1>2. Lookup(t, id, targets) = IF exact.hit # None THEN exact ELSE inBucket
  BY DEF Lookup, OrInBucket
<1> HIDE DEF exact
<1>3. CASE exact.hit # None
  BY <1>1, <1>2, <1>3 DEF ExactLooked, Looked
<1>4. CASE exact.hit = None
  <2>1. /\ Whole(exact.t) /\ Kept(t, exact.t) /\ NoKey(exact.t, id)
        /\ \A i \in DOMAIN exact.t.b : i # None /\ exact.t.b[i].seen = t.b[i].seen
    BY <1>1, <1>4 DEF ExactLooked, Whole, None
  <2>2. Looked(exact.t, id, targets, inBucket)
    BY <2>1, BucketShape
  <2> HIDE DEF inBucket
  <2>3. Kept(t, inBucket.t)
    BY <2>1, <2>2 DEF Looked, Kept, Alike
  <2>4. \A i \in DOMAIN inBucket.t.b :
          inBucket.t.b[i].seen = IF i = inBucket.hit THEN now ELSE t.b[i].seen
    BY <2>1, <2>2 DEF Looked, Kept
  <2>5. Looked(t, id, targets, inBucket)
    BY <2>2, <2>3, <2>4 DEF Looked
  <2> QED
    BY <1>2, <1>4, <2>5
<1> QED
  BY <1>3, <1>4

\* Whoever looks again where a key led is led there again.
LEMMA AgainByKey ==
  ASSUME NEW u, Whole(u), NEW id \in Identities, NEW targets, NEW i \in DOMAIN u.b,
         Usable(u, i, id, targets), ByKey(u, i, id)
  PROVE  Lookup(u, id, targets).hit = i
<1> DEFINE indexed == {n \in DOMAIN id.keys : id.keys[n] \in DOMAIN u.idx}
<1> DEFINE hits == {n \in indexed : Usable(u, u.idx[id.keys[n]], id, targets)}
<1> DEFINE first == {n \in hits : \A h \in hits : n <= h}
<1> DEFINE dead == {id.keys[n] : n \in {m \in indexed : \A h \in hits : m < h}}
<1> DEFINE left == RemoveBindings(Detach(u, dead), ExpiredOf(u, {u.idx[k] : k \in dead}, targets))
<1> DEFINE hit == u.idx[id.keys[CHOOSE n \in first : TRUE]]
<1>1. LookupExact(u, id, targets) =
        IF first = {} THEN [t |-> left, hit |-> None] ELSE [t |-> Touch(left, hit), hit |-> hit]
  BY DEF LookupExact
<1>2. PICK n \in DOMAIN id.keys :
        /\ id.keys[n] \in DOMAIN u.idx /\ u.idx[id.keys[n]] = i
        /\ \A m \in DOMAIN id.keys : m < n => id.keys[m] \notin DOMAIN u.idx
  BY DEF ByKey
<1>3. DOMAIN id.keys \subseteq Nat
  <2>1. id.keys \in Seq(Keys)
    BY AffinityAssumption
  <2> QED
    BY <2>1
<1>4. n \in hits /\ \A h \in hits : n <= h
  BY <1>2, <1>3
<1>5. first = {n}
  BY <1>3, <1>4
<1> HIDE DEF first, left
<1>6. hit = i
  BY <1>2, <1>5
<1>7. i # None
  BY DEF Whole, None
<1> QED
  BY <1>1, <1>5, <1>6, <1>7 DEF Lookup, OrInBucket

\* What the bucket's lookup chose.
LEMMA BucketChoice ==
  ASSUME NEW t, NEW id, NEW targets, LookupBucket(t, id, targets).hit # None
  PROVE  LET i == LookupBucket(t, id, targets).hit
         IN  /\ i \in Window(t, id.bucket) /\ Fits(t, i, id, targets)
             /\ \A j \in Window(t, id.bucket) : Fits(t, j, id, targets) => i = j \/ Before(t, i, j)
<1> DEFINE scan == Window(t, id.bucket)
<1> DEFINE hits == {i \in scan : /\ Usable(t, i, id, targets)
                                 /\ PrefixMatches(t.b[i].users, id.users)}
<1> DEFINE newest == {i \in hits : \A j \in hits : i = j \/ Before(t, i, j)}
<1> DEFINE left == RemoveBindings(t, ExpiredOf(t, scan, targets))
<1> DEFINE hit == CHOOSE i \in newest : TRUE
<1>1. LookupBucket(t, id, targets) =
        IF newest = {} THEN [t |-> left, hit |-> None] ELSE [t |-> Touch(t, hit), hit |-> hit]
  BY DEF LookupBucket
<1> HIDE DEF left
<1>2. newest # {} /\ LookupBucket(t, id, targets).hit = hit
  BY <1>1
<1>3. hit \in newest
  BY <1>2
<1> QED
  BY <1>2, <1>3 DEF Fits

\* Without a key in the index a lookup is the one of the bucket.
LEMMA NoKeyLookup ==
  ASSUME NEW u, Whole(u), Sound(u), NEW id \in Identities, NEW targets, NoKey(u, id)
  PROVE  Lookup(u, id, targets) = LookupBucket(u, id, targets)
<1>1. ExactLooked(u, id, targets, LookupExact(u, id, targets))
  BY ExactShape
<1>2. LookupExact(u, id, targets) = [t |-> u, hit |-> None]
  BY <1>1 DEF ExactLooked
<1> QED
  BY <1>2 DEF Lookup, OrInBucket

\* Whoever looks again where a prefix led finds it, as long as nothing newer rivals it.
LEMMA AgainByPrefix ==
  ASSUME NEW u, Whole(u), Sound(u), NEW id \in Identities, NEW targets, NEW i \in DOMAIN u.b,
         Usable(u, i, id, targets), ByPrefix(u, i, id, targets), u.b[i].seen = now
  PROVE  Lookup(u, id, targets).hit = i
<1> DEFINE scan == Window(u, id.bucket)
<1> DEFINE hits == {j \in scan : /\ Usable(u, j, id, targets)
                                 /\ PrefixMatches(u.b[j].users, id.users)}
<1> DEFINE newest == {j \in hits : \A k \in hits : j = k \/ Before(u, j, k)}
<1> DEFINE left == RemoveBindings(u, ExpiredOf(u, scan, targets))
<1> DEFINE hit == CHOOSE j \in newest : TRUE
<1>1. LookupBucket(u, id, targets) =
        IF newest = {} THEN [t |-> left, hit |-> None] ELSE [t |-> Touch(u, hit), hit |-> hit]
  BY DEF LookupBucket
<1>2. i \in hits /\ hits \subseteq DOMAIN u.b
  BY DEF ByPrefix, Window, InBucket
<1>3. ASSUME NEW j \in hits, j # i
      PROVE  Before(u, i, j) /\ ~ Before(u, j, i)
  <2>1. /\ j \in DOMAIN u.b /\ i \in Nat /\ j \in Nat
        /\ u.b[j].seen \in Nat /\ u.b[j].seen <= now /\ now \in Nat
    BY <1>2, <1>3 DEF Whole, BindingRec
  <2>2. u.b[j].seen = now => i <= j
    BY <1>3, <2>1 DEF ByPrefix, Fits
  <2> QED
    BY <1>3, <2>1, <2>2 DEF Before
<1>4. newest = {i}
  BY <1>2, <1>3
<1> HIDE DEF newest, left
<1>5. LookupBucket(u, id, targets).hit = i
  BY <1>1, <1>4
<1> QED
  BY <1>5, NoKeyLookup DEF ByPrefix

\* A second lookup that may go to any node comes back to the first one's binding, unless it
\* leads out of the group: what the first one did on the way did not make room for another.
LEMMA AgainAnywhere ==
  ASSUME NEW t, NEW id \in Identities, NEW bound, NEW l, Looked(t, id, bound, l), Sound(l.t),
         LET h == Lookup(l.t, id, Targets).hit
         IN  h \in DOMAIN l.t.b /\ l.t.b[h].target \in bound
  PROVE  Lookup(l.t, id, Targets).hit = l.hit
<1> DEFINE u == l.t
<1> DEFINE h == Lookup(u, id, Targets).hit
<1>1. Whole(u) /\ h \in DOMAIN u.b /\ u.b[h].target \in bound /\ h # None
  BY DEF Looked, Whole, None
<1>2. \A i \in DOMAIN u.b : u.b[i].target \in Targets
  BY <1>1 DEF Whole, BindingRec
<1>3. CASE l.hit \in DOMAIN u.b /\ Usable(u, l.hit, id, bound) /\ ByKey(u, l.hit, id)
  <2>1. Usable(u, l.hit, id, Targets)
    BY <1>2, <1>3 DEF Usable
  <2> QED
    BY <1>1, <1>3, <2>1, AgainByKey
<1>4. ASSUME NoKey(u, id)
      PROVE  /\ h \in Window(u, id.bucket) /\ Fits(u, h, id, bound)
             /\ \A j \in Window(u, id.bucket) : Fits(u, j, id, Targets) => h = j \/ Before(u, h, j)
  <2>1. Lookup(u, id, Targets) = LookupBucket(u, id, Targets)
    BY <1>1, <1>4, NoKeyLookup
  <2> HIDE DEF u
  <2>2. /\ h \in Window(u, id.bucket) /\ Fits(u, h, id, Targets)
        /\ \A j \in Window(u, id.bucket) : Fits(u, j, id, Targets) => h = j \/ Before(u, h, j)
    BY <1>1, <2>1, BucketChoice
  <2> QED
    BY <1>1, <2>2 DEF Fits, Usable
<1>5. CASE /\ l.hit \in DOMAIN u.b /\ Usable(u, l.hit, id, bound) /\ ByPrefix(u, l.hit, id, bound)
           /\ u.b[l.hit].seen = now
  <2> DEFINE g == l.hit
  <2>1. NoKey(u, id) /\ g \in Window(u, id.bucket) /\ Fits(u, g, id, Targets)
    BY <1>2, <1>5 DEF ByPrefix, Fits, Usable
  <2>2. h = g \/ Before(u, h, g)
    BY <1>4, <2>1
  <2>3. ASSUME Before(u, h, g)
        PROVE  FALSE
    <3>1. /\ u.b[h].seen \in Nat /\ u.b[h].seen <= now /\ now \in Nat
          /\ u.b[g].seen = now /\ h \in Nat /\ g \in Nat
      BY <1>1, <1>5 DEF Whole, BindingRec
    <3>2. u.b[h].seen = now /\ h < g
      BY <2>3, <3>1 DEF Before
    <3>3. g <= h
      BY <1>1, <1>4, <1>5, <2>1, <3>2 DEF ByPrefix
    <3> QED
      BY <3>1, <3>2, <3>3
  <2> QED
    BY <2>2, <2>3
<1>6. CASE Nowhere(u, id, bound)
  BY <1>4, <1>6 DEF Nowhere
<1> QED
  BY <1>3, <1>5, <1>6 DEF Looked

\* A binding as it is first written.
LEMMA CreatedShape ==
  ASSUME NEW t, Whole(t), NEW id \in Identities, NEW n \in Targets,
         nextInc \in Nat \ {0}, nextInc \notin DOMAIN t.b
  PROVE  LET u == Created(t, id, n)
         IN  /\ Whole(u) /\ DOMAIN u.b = DOMAIN t.b \cup {nextInc} /\ u.idx = t.idx
             /\ \A i \in DOMAIN t.b : u.b[i] = t.b[i]
             /\ u.b[nextInc] = NewBinding(id, n)
<1> DEFINE x == NewBinding(id, n)
<1> DEFINE b2 == Put(t.b, nextInc, x)
<1>1. x \in BindingRec /\ x.seen = now
  BY AffinityAssumption DEF NewBinding, BindingRec, Whole
<1>2. Created(t, id, n) = [t EXCEPT !.b = b2]
  BY DEF Created
<1> HIDE DEF x
<1>3. /\ DOMAIN b2 = DOMAIN t.b \cup {nextInc} /\ b2 = [j \in DOMAIN b2 |-> b2[j]]
      /\ b2[nextInc] = x /\ \A j \in DOMAIN t.b : b2[j] = t.b[j]
  BY DEF Put
<1>4. IsFiniteSet(DOMAIN t.b \cup {nextInc})
  BY FS_AddElement DEF Whole
<1> HIDE DEF b2
<1>5. [t EXCEPT !.b = b2] = [b |-> b2, idx |-> t.idx]
  BY DEF Whole
<1>6. Whole([b |-> b2, idx |-> t.idx])
  BY <1>1, <1>3, <1>4 DEF Whole
<1> QED
  BY <1>2, <1>3, <1>5, <1>6 DEF x

\* The binding just created: the newest of the table and the last one made.
Newest(t, n) ==
  n \in DOMAIN t.b /\ \A j \in DOMAIN t.b \ {n} : j < n /\ t.b[j].seen <= t.b[n].seen

\* What an eviction keeps: it takes one binding of S when there are more than cap, or none.
Trimmed(t, u) ==
  /\ Whole(u) /\ DOMAIN u.b \subseteq DOMAIN t.b
  /\ \A i \in DOMAIN u.b : u.b[i] = t.b[i]
  /\ DOMAIN u.idx \subseteq DOMAIN t.idx
  /\ \A k \in DOMAIN u.idx : u.idx[k] = t.idx[k]
  /\ \A k \in DOMAIN t.idx : t.idx[k] \in DOMAIN u.b => k \in DOMAIN u.idx

OneLess(t, u) == \E x \in DOMAIN t.b : DOMAIN u.b = DOMAIN t.b \ {x}

\* #enforceBucketCap and #enforceGroupCap: the newest binding is never the one to go.
LEMMA TrimShape ==
  ASSUME NEW t, Whole(t), NEW S \in SUBSET DOMAIN t.b, NEW cap \in Nat \ {0},
         NEW n, Newest(t, n)
  PROVE  /\ Trimmed(t, Trim(t, S, cap)) /\ n \in DOMAIN Trim(t, S, cap).b
         /\ IF Cardinality(S) > cap THEN OneLess(t, Trim(t, S, cap)) ELSE Trim(t, S, cap) = t
<1> DEFINE G == LeastRecent(t, S)
<1>0. \A i \in DOMAIN t.b : i \in Nat /\ t.b[i].seen \in Nat
  BY DEF Whole, BindingRec
<1>1. CASE ~ (Cardinality(S) > cap)
  <2>1. Trim(t, S, cap) = t
    BY <1>1 DEF Trim
  <2> QED
    BY <1>1, <2>1 DEF Trimmed, Newest
<1>2. CASE Cardinality(S) > cap
  <2> DEFINE u == RemoveBindings(t, G)
  <2>1. Trim(t, S, cap) = u
    BY <1>2 DEF Trim
  <2>2. /\ Whole(u) /\ DOMAIN u.b = DOMAIN t.b \ G
        /\ \A i \in DOMAIN u.b : u.b[i] = t.b[i]
        /\ DOMAIN u.idx \subseteq DOMAIN t.idx
        /\ \A k \in DOMAIN u.idx : u.idx[k] = t.idx[k]
        /\ \A k \in DOMAIN t.idx : t.idx[k] \notin G => k \in DOMAIN u.idx
    BY RemoveShape
  <2> HIDE DEF u
  <2>3. PICK x \in S : G = {x}
    <3> DEFINE Sooner(i, j) == t.b[i].seen < t.b[j].seen \/ (t.b[i].seen = t.b[j].seen /\ i < j)
    <3> DEFINE R == {e \in S \X S : Sooner(e[1], e[2])}
    <3>1. IsFiniteSet(S) /\ S # {}
      BY <1>2, FS_Subset, FS_EmptySet DEF Whole
    <3>2. \A i, j \in S : <<i, j>> \in R <=> Sooner(i, j)
      OBVIOUS
    <3> HIDE DEF R
    <3>3. /\ \A i \in S : <<i, i>> \notin R
          /\ \A i, j, k \in S : <<i, j>> \in R /\ <<j, k>> \in R => <<i, k>> \in R
      BY <1>0, <3>2
    <3>4. PICK x \in S : \A y \in S : <<y, x>> \notin R
      BY <3>1, <3>3, FiniteMinimal
    <3>5. x \in G
      <4>1. \A j \in S : ~ Sooner(j, x) /\ j \in Nat /\ x \in Nat
                          /\ t.b[j].seen \in Nat /\ t.b[x].seen \in Nat
        BY <1>0, <3>2, <3>4
      <4>2. \A j \in S : t.b[x].seen < t.b[j].seen \/ (t.b[x].seen = t.b[j].seen /\ x <= j)
        BY <4>1
      <4> QED
        BY <4>2 DEF LeastRecent
    <3>6. \A y \in G : y = x
      BY <1>0, <3>5 DEF LeastRecent
    <3> QED
      BY <3>5, <3>6
  <2>4. n \notin G
    <3> SUFFICES ASSUME n \in G
                 PROVE  FALSE
      OBVIOUS
    <3>1. \A j \in S : j = n
      BY <1>0 DEF LeastRecent, Newest
    <3>2. S = {n}
      BY <3>1 DEF LeastRecent
    <3>3. Cardinality(S) = 1
      BY <3>2, FS_Singleton, Zenon
    <3> QED
      BY <3>3, <1>2
  <2> QED
    BY <1>2, <2>1, <2>2, <2>3, <2>4 DEF Trimmed, Newest, OneLess
<1> QED
  BY <1>1, <1>2

\* Both caps after a creation: together they take one binding at most.
LEMMA CapsShape ==
  ASSUME NEW t, Whole(t), Cardinality(DOMAIN t.b) <= MaxBindings + 1,
         NEW bucket, NEW n, Newest(t, n)
  PROVE  /\ Trimmed(t, EnforceCaps(t, bucket)) /\ n \in DOMAIN EnforceCaps(t, bucket).b
         /\ EnforceCaps(t, bucket) = t \/ OneLess(t, EnforceCaps(t, bucket))
         /\ Cardinality(DOMAIN EnforceCaps(t, bucket).b) <= MaxBindings
<1> DEFINE S == InBucket(t, bucket)
<1> DEFINE m == Trim(t, S, MaxBucket)
<1> DEFINE u == Trim(m, DOMAIN m.b, MaxBindings)
<1>1. EnforceCaps(t, bucket) = u
  BY DEF EnforceCaps
<1>2. S \subseteq DOMAIN t.b
  BY DEF InBucket
<1>3. Trimmed(t, m) /\ n \in DOMAIN m.b /\ (m = t \/ OneLess(t, m))
  BY <1>2, TrimShape, AffinityAssumption
<1> HIDE DEF m
<1>4. Whole(m) /\ Newest(m, n) /\ MaxBindings \in Nat \ {0}
  BY <1>3, AffinityAssumption DEF Trimmed, Newest
<1>5. /\ Trimmed(m, u) /\ n \in DOMAIN u.b
      /\ IF Cardinality(DOMAIN m.b) > MaxBindings THEN OneLess(m, u) ELSE u = m
  BY <1>4, TrimShape
<1> HIDE DEF u, S
<1>6. Trimmed(t, u)
  BY <1>3, <1>5 DEF Trimmed
<1>7. ASSUME NEW v, Whole(v), NEW w, OneLess(v, w)
      PROVE  Cardinality(DOMAIN w.b) = Cardinality(DOMAIN v.b) - 1
  <2>1. PICK x \in DOMAIN v.b : DOMAIN w.b = DOMAIN v.b \ {x}
    BY <1>7 DEF OneLess
  <2> DEFINE D == DOMAIN v.b
  <2>2. IsFiniteSet(D) /\ x \in D
    BY <1>7 DEF Whole
  <2> HIDE DEF D
  <2>3. Cardinality(D \ {x}) = Cardinality(D) - 1
    BY <2>2, FS_RemoveElement
  <2> QED
    BY <2>1, <2>3 DEF D
<1>8. /\ Cardinality(DOMAIN t.b) \in Nat /\ Cardinality(DOMAIN m.b) \in Nat
      /\ Cardinality(DOMAIN u.b) \in Nat
  BY <1>4, <1>6, FS_CardinalityType DEF Whole, Trimmed
<1>9. CASE m = t
  BY <1>1, <1>4, <1>5, <1>6, <1>7, <1>8, <1>9
<1>10. CASE OneLess(t, m)
  <2>1. Cardinality(DOMAIN m.b) <= MaxBindings
    BY <1>4, <1>7, <1>8, <1>10
  <2>2. u = m
    BY <1>4, <1>5, <1>8, <2>1
  <2> QED
    BY <1>1, <1>5, <1>6, <1>10, <2>1, <2>2
<1> QED
  BY <1>3, <1>9, <1>10

\* The keys of a request and its named response, written to the binding that serves it.
KeyedBy(t, i, id) == NoteDeps(Register(t, i, ToSet(id.keys)), i, id)

\* Everything a lookup reads, apart from the index.
SameRoute(x, y) ==
  /\ x.target = y.target /\ x.bucket = y.bucket /\ x.endpoint = y.endpoint
  /\ x.users = y.users /\ x.seen = y.seen

\* The keys of an identity, as a set.
LEMMA KeysAreKeys ==
  ASSUME NEW id \in Identities
  PROVE  /\ ToSet(id.keys) \subseteq Keys
         /\ id.keys # <<>> => 1 \in DOMAIN id.keys /\ id.keys[1] \in ToSet(id.keys)
<1>1. id.keys \in Seq(Keys)
  BY AffinityAssumption
<1>2. id.keys # <<>> => 1 \in DOMAIN id.keys
  BY <1>1
<1> QED
  BY <1>1, <1>2 DEF ToSet

\* What registering the keys of a request changes.
LEMMA KeyedShape ==
  ASSUME NEW t, Whole(t), NEW i \in DOMAIN t.b, NEW id \in Identities
  PROVE  LET u == KeyedBy(t, i, id)
         IN  /\ Whole(u) /\ DOMAIN u.b = DOMAIN t.b
             /\ \A j \in DOMAIN t.b : /\ SameRoute(t.b[j], u.b[j]) /\ u.b[j].asked = t.b[j].asked
                                      /\ t.b[j].deps \subseteq u.b[j].deps
             /\ NamedResponse(id) \subseteq u.b[i].deps
             /\ DOMAIN u.idx = DOMAIN t.idx \cup ToSet(id.keys)
             /\ \A k \in ToSet(id.keys) : u.idx[k] = i
<1> DEFINE r == Register(t, i, ToSet(id.keys))
<1> DEFINE u == NoteDeps(r, i, id)
<1>1. ToSet(id.keys) \in SUBSET Keys
  BY KeysAreKeys
<1>2. /\ Whole(r) /\ Kept(t, r) /\ DOMAIN r.b = DOMAIN t.b
      /\ \A j \in DOMAIN r.b : r.b[j].seen = t.b[j].seen
      /\ DOMAIN r.idx = DOMAIN t.idx \cup ToSet(id.keys)
      /\ \A k \in DOMAIN r.idx : r.idx[k] = IF k \in ToSet(id.keys) THEN i ELSE t.idx[k]
  BY <1>1, RegisterShape
<1> HIDE DEF r
<1>3. /\ Whole(u) /\ DOMAIN u.b = DOMAIN r.b /\ u.idx = r.idx
      /\ \A j \in DOMAIN r.b \ {i} : u.b[j] = r.b[j]
      /\ u.b[i] = [r.b[i] EXCEPT !.deps = @ \cup NamedResponse(id)]
  <2> HIDE DEF u
  <2>1. i \in DOMAIN r.b /\ Whole(r) /\ u = NoteDeps(r, i, id)
    BY <1>2 DEF u
  <2> QED
    BY <2>1, NoteShape
<1> HIDE DEF u
<1>4. r.b[i] \in BindingRec
  BY <1>2 DEF Whole
<1>5. /\ SameRoute(r.b[i], u.b[i]) /\ u.b[i].asked = r.b[i].asked
      /\ u.b[i].deps = r.b[i].deps \cup NamedResponse(id)
  BY <1>3, <1>4 DEF SameRoute, BindingRec
<1>6. \A j \in DOMAIN t.b : /\ SameRoute(t.b[j], r.b[j]) /\ r.b[j].asked = t.b[j].asked
                            /\ t.b[j].deps = r.b[j].deps
  BY <1>2 DEF Kept, Alike, SameRoute
<1>7. \A j \in DOMAIN t.b : /\ SameRoute(t.b[j], u.b[j]) /\ u.b[j].asked = t.b[j].asked
                            /\ t.b[j].deps \subseteq u.b[j].deps
  <2> TAKE j \in DOMAIN t.b
  <2>1. CASE j = i
    BY <1>5, <1>6, <2>1 DEF SameRoute
  <2>2. CASE j # i
    BY <1>2, <1>3, <1>6, <2>2
  <2> QED
    BY <2>1, <2>2
<1> QED
  BY <1>2, <1>3, <1>5, <1>7 DEF KeyedBy, u, r

\* Two tables whose bindings are routed alike give every lookup the same candidates.
LEMMA SameRoutes ==
  ASSUME NEW u, NEW v, DOMAIN v.b = DOMAIN u.b, \A j \in DOMAIN u.b : SameRoute(u.b[j], v.b[j]),
         NEW id, NEW targets
  PROVE  /\ \A j \in DOMAIN u.b : Usable(v, j, id, targets) <=> Usable(u, j, id, targets)
         /\ \A j \in DOMAIN u.b : Fits(v, j, id, targets) <=> Fits(u, j, id, targets)
         /\ Window(v, id.bucket) = Window(u, id.bucket)
<1>1. \A j \in DOMAIN u.b : Usable(v, j, id, targets) <=> Usable(u, j, id, targets)
  BY DEF Usable, SameRoute, Expired
<1>2. \A j \in DOMAIN u.b : Fits(v, j, id, targets) <=> Fits(u, j, id, targets)
  BY <1>1 DEF Fits, SameRoute
<1>3. InBucket(v, id.bucket) = InBucket(u, id.bucket) /\ InBucket(u, id.bucket) \subseteq DOMAIN u.b
  BY DEF InBucket, SameRoute
<1>4. \A i, j \in DOMAIN u.b : Before(v, i, j) <=> Before(u, i, j)
  BY DEF Before, SameRoute
<1>5. \A i \in InBucket(u, id.bucket) : Newer(v, id.bucket, i) = Newer(u, id.bucket, i)
  BY <1>3, <1>4 DEF Newer
<1>6. Window(v, id.bucket) = Window(u, id.bucket)
  BY <1>3, <1>5, WindowIsNewest
<1> QED
  BY <1>1, <1>2, <1>6

\* Planning that keeps the binding its lookup found: the repeat finds it too.
LEMMA KeptAgain ==
  ASSUME NEW t, NEW id \in Identities, NEW bound, NEW l, Looked(t, id, bound, l), l.hit # None,
         Sound(NoteDeps(l.t, l.hit, id))
  PROVE  Lookup(NoteDeps(l.t, l.hit, id), id, bound).hit = l.hit
<1> DEFINE u == l.t
<1> DEFINE h == l.hit
<1> DEFINE v == NoteDeps(u, h, id)
<1>1. /\ Whole(u) /\ h \in DOMAIN u.b /\ Usable(u, h, id, bound)
      /\ ByKey(u, h, id) \/ ByPrefix(u, h, id, bound)
      /\ u.b[h].seen = now
  BY DEF Looked
<1> HIDE DEF u, h
<1>2. /\ Whole(v) /\ DOMAIN v.b = DOMAIN u.b /\ v.idx = u.idx
      /\ \A j \in DOMAIN u.b \ {h} : v.b[j] = u.b[j]
      /\ v.b[h] = [u.b[h] EXCEPT !.deps = @ \cup NamedResponse(id)]
  BY <1>1, NoteShape
<1>3. Sound(v)
  BY DEF u, h, v
<1> HIDE DEF v
<1>4. \A j \in DOMAIN u.b : SameRoute(u.b[j], v.b[j])
  <2>1. u.b[h] \in BindingRec
    BY <1>1 DEF Whole
  <2>2. SameRoute(u.b[h], v.b[h])
    BY <1>2, <2>1 DEF SameRoute, BindingRec
  <2>3. \A j \in DOMAIN u.b \ {h} : SameRoute(u.b[j], v.b[j])
    BY <1>2 DEF SameRoute
  <2> QED
    BY <2>2, <2>3
<1>5. Usable(v, h, id, bound) /\ v.b[h].seen = now
  BY <1>1, <1>2, <1>4, SameRoutes DEF SameRoute
<1>6. CASE ByKey(u, h, id)
  <2>1. ByKey(v, h, id)
    BY <1>2, <1>6 DEF ByKey
  <2>2. Lookup(v, id, bound).hit = h
    BY <1>1, <1>2, <1>5, <2>1, AgainByKey
  <2> QED
    BY <2>2 DEF u, h, v
<1>7. CASE ByPrefix(u, h, id, bound)
  <2>1. NoKey(v, id)
    BY <1>2, <1>7 DEF ByPrefix, NoKey
  <2>2. h \in Window(v, id.bucket) /\ PrefixMatches(v.b[h].users, id.users)
    BY <1>1, <1>2, <1>4, <1>7, SameRoutes DEF ByPrefix, SameRoute
  <2>3. \A j \in DOMAIN v.b : Fits(v, j, id, bound) /\ v.b[j].seen = now => h <= j
    BY <1>2, <1>4, <1>7, SameRoutes DEF ByPrefix, SameRoute
  <2>4. Lookup(v, id, bound).hit = h
    BY <1>1, <1>2, <1>3, <1>5, <2>1, <2>2, <2>3, AgainByPrefix DEF ByPrefix
  <2> QED
    BY <2>4 DEF u, h, v
<1> QED
  BY <1>1, <1>6, <1>7

\* What bind leaves behind, whether it pointed a binding to n or created one there.
Settled(t, v, i, id, n) ==
  /\ Whole(v) /\ i \in DOMAIN v.b /\ DOMAIN v.b \subseteq DOMAIN t.b \cup {i}
  /\ \A j \in DOMAIN v.b \ {i} : /\ SameRoute(t.b[j], v.b[j]) /\ v.b[j].asked = t.b[j].asked
                                 /\ t.b[j].deps \subseteq v.b[j].deps
  /\ v.b[i].target = n /\ v.b[i].seen = now /\ v.b[i].bucket = id.bucket
  /\ v.b[i].endpoint = id.endpoint \/ "" \in {v.b[i].endpoint, id.endpoint}
  /\ NamedResponse(id) \subseteq v.b[i].deps
  /\ \A k \in ToSet(id.keys) : k \in DOMAIN v.idx /\ v.idx[k] = i

\* bind, when its own lookup found a binding.
LEMMA Rebound ==
  ASSUME NEW t, Whole(t), NEW i \in DOMAIN t.b, NEW id \in Identities, Usable(t, i, id, Targets),
         NEW n \in Targets
  PROVE  /\ Settled(t, KeyedBy(Rebind(t, i, n), i, id), i, id, n)
         /\ DOMAIN KeyedBy(Rebind(t, i, n), i, id).b = DOMAIN t.b
         /\ LET x == KeyedBy(Rebind(t, i, n), i, id).b[i]
            IN  x.users = t.b[i].users /\ x.asked = t.b[i].asked /\ t.b[i].deps \subseteq x.deps
<1> DEFINE r == Rebind(t, i, n)
<1> DEFINE v == KeyedBy(r, i, id)
<1>1. /\ Whole(r) /\ DOMAIN r.b = DOMAIN t.b /\ r.idx = t.idx
      /\ \A j \in DOMAIN t.b \ {i} : r.b[j] = t.b[j]
      /\ r.b[i].target = n /\ r.b[i].seen = now /\ r.b[i].bucket = t.b[i].bucket
      /\ r.b[i].endpoint = t.b[i].endpoint /\ r.b[i].users = t.b[i].users
      /\ r.b[i].asked = t.b[i].asked /\ r.b[i].deps = t.b[i].deps
  BY RebindShape
<1> HIDE DEF r
<1>2. /\ Whole(v) /\ DOMAIN v.b = DOMAIN r.b
      /\ \A j \in DOMAIN r.b : /\ SameRoute(r.b[j], v.b[j]) /\ v.b[j].asked = r.b[j].asked
                               /\ r.b[j].deps \subseteq v.b[j].deps
      /\ NamedResponse(id) \subseteq v.b[i].deps
      /\ DOMAIN v.idx = DOMAIN r.idx \cup ToSet(id.keys)
      /\ \A k \in ToSet(id.keys) : v.idx[k] = i
  BY <1>1, KeyedShape
<1> HIDE DEF v
<1>5. /\ v.b[i].target = n /\ v.b[i].seen = now /\ v.b[i].bucket = id.bucket
      /\ v.b[i].endpoint = id.endpoint \/ "" \in {v.b[i].endpoint, id.endpoint}
      /\ v.b[i].users = t.b[i].users
      /\ v.b[i].asked = t.b[i].asked /\ t.b[i].deps \subseteq v.b[i].deps
  BY <1>1, <1>2 DEF SameRoute, Usable
<1>6. Settled(t, v, i, id, n) /\ DOMAIN v.b = DOMAIN t.b
  BY <1>1, <1>2, <1>5 DEF Settled
<1> QED
  BY <1>5, <1>6 DEF v, r

\* bind, when its own lookup found nothing.
LEMMA Born ==
  ASSUME NEW t, Whole(t), Cardinality(DOMAIN t.b) <= MaxBindings, nextInc \in Nat \ {0},
         \A j \in DOMAIN t.b : j < nextInc, NEW id \in Identities, NEW n \in Targets
  PROVE  LET v == EnforceCaps(KeyedBy(Created(t, id, n), nextInc, id), id.bucket)
         IN  /\ Settled(t, v, nextInc, id, n)
             /\ v.b[nextInc].users = id.users /\ v.b[nextInc].asked = {}
             /\ \E x \in DOMAIN t.b \cup {nextInc} : DOMAIN t.b \ {x} \subseteq DOMAIN v.b
             /\ Cardinality(DOMAIN v.b) <= MaxBindings
<1> DEFINE c == Created(t, id, n)
<1> DEFINE w == KeyedBy(c, nextInc, id)
<1> DEFINE v == EnforceCaps(w, id.bucket)
<1>0. nextInc \notin DOMAIN t.b /\ nextInc \in Nat
  OBVIOUS
<1>1. /\ Whole(c) /\ DOMAIN c.b = DOMAIN t.b \cup {nextInc} /\ c.idx = t.idx
      /\ \A i \in DOMAIN t.b : c.b[i] = t.b[i]
      /\ c.b[nextInc] = NewBinding(id, n)
  BY <1>0, CreatedShape
<1> HIDE DEF c
<1>2. /\ Whole(w) /\ DOMAIN w.b = DOMAIN c.b
      /\ \A j \in DOMAIN c.b : /\ SameRoute(c.b[j], w.b[j]) /\ w.b[j].asked = c.b[j].asked
                               /\ c.b[j].deps \subseteq w.b[j].deps
      /\ NamedResponse(id) \subseteq w.b[nextInc].deps
      /\ DOMAIN w.idx = DOMAIN c.idx \cup ToSet(id.keys)
      /\ \A k \in ToSet(id.keys) : w.idx[k] = nextInc
  BY <1>1, KeyedShape
<1> HIDE DEF w
<1>3. /\ w.b[nextInc].target = n /\ w.b[nextInc].seen = now /\ w.b[nextInc].bucket = id.bucket
      /\ w.b[nextInc].endpoint = id.endpoint /\ w.b[nextInc].users = id.users
      /\ w.b[nextInc].asked = {}
  BY <1>1, <1>2 DEF SameRoute, NewBinding
<1>4. Newest(w, nextInc)
  BY <1>0, <1>1, <1>2, <1>3 DEF Newest, Whole
<1>5. Cardinality(DOMAIN w.b) <= MaxBindings + 1
  <2> DEFINE D == DOMAIN t.b
  <2>1. IsFiniteSet(D) /\ nextInc \notin D
    BY <1>0 DEF Whole
  <2>2. DOMAIN w.b = D \cup {nextInc} /\ Cardinality(D) <= MaxBindings
    BY <1>1, <1>2
  <2> HIDE DEF D
  <2>3. Cardinality(D \cup {nextInc}) = Cardinality(D) + 1
    BY <2>1, FS_AddElement
  <2> QED
    BY <2>1, <2>2, <2>3, FS_CardinalityType, AffinityAssumption
<1>6. /\ Trimmed(w, v) /\ nextInc \in DOMAIN v.b
      /\ v = w \/ OneLess(w, v)
      /\ Cardinality(DOMAIN v.b) <= MaxBindings
  BY <1>2, <1>4, <1>5, CapsShape
<1> HIDE DEF v
<1>7. \E x \in DOMAIN t.b \cup {nextInc} : DOMAIN t.b \ {x} \subseteq DOMAIN v.b
  BY <1>1, <1>2, <1>6 DEF OneLess
<1>8. /\ Whole(v) /\ DOMAIN v.b \subseteq DOMAIN t.b \cup {nextInc}
      /\ \A i \in DOMAIN v.b : v.b[i] = w.b[i]
      /\ \A k \in ToSet(id.keys) : k \in DOMAIN v.idx /\ v.idx[k] = nextInc
  BY <1>1, <1>2, <1>6 DEF Trimmed
<1>9. \A j \in DOMAIN v.b \ {nextInc} : /\ SameRoute(t.b[j], v.b[j]) /\ v.b[j].asked = t.b[j].asked
                                        /\ t.b[j].deps \subseteq v.b[j].deps
  BY <1>1, <1>2, <1>8
<1>10. Settled(t, v, nextInc, id, n)
  BY <1>2, <1>3, <1>6, <1>8, <1>9 DEF Settled
<1> QED
  BY <1>3, <1>6, <1>7, <1>8, <1>10 DEF v, w, c

\* A binding just pointed to a member is usable there.
LEMMA SettledUsable ==
  ASSUME NEW t, NEW v, NEW i, NEW id, NEW n, Settled(t, v, i, id, n), NEW bound, n \in bound
  PROVE  Usable(v, i, id, bound)
<1>1. now \in Nat /\ Ttl \in Nat
  BY AffinityAssumption DEF Settled, Whole
<1>2. ~ Expired(v.b[i])
  <2>1. v.b[i].seen = now
    BY DEF Settled
  <2>2. ~ (now < now - Ttl)
    BY <1>1
  <2> QED
    BY <2>1, <2>2, Zenon DEF Expired
<1> QED
  BY <1>2 DEF Settled, Usable

\* A request with a key is found by its first one.
LEMMA SettledAgain ==
  ASSUME NEW t, NEW v, NEW i, NEW id \in Identities, NEW n, Settled(t, v, i, id, n),
         NEW bound, n \in bound, id.keys # <<>>
  PROVE  Lookup(v, id, bound).hit = i
<1>1. 1 \in DOMAIN id.keys /\ id.keys[1] \in ToSet(id.keys) /\ id.keys \in Seq(Keys)
  BY KeysAreKeys, AffinityAssumption
<1>2. \A m \in DOMAIN id.keys : ~ (m < 1)
  BY <1>1
<1>3. ByKey(v, i, id)
  BY <1>1, <1>2 DEF ByKey, Settled
<1>4. Whole(v) /\ i \in DOMAIN v.b /\ Usable(v, i, id, bound)
  BY SettledUsable DEF Settled
<1> QED
  BY <1>3, <1>4, AgainByKey

\* A request without a key that pointed a binding elsewhere: its prefix leads to it again.
LEMMA ReboundAgain ==
  ASSUME NEW t, NEW id \in Identities, NEW l, Looked(t, id, Targets, l), l.hit # None,
         NEW bound \in SUBSET Targets, NEW n \in bound, NEW v, Settled(l.t, v, l.hit, id, n),
         DOMAIN v.b = DOMAIN l.t.b, v.b[l.hit].users = l.t.b[l.hit].users, Sound(v),
         id.keys = <<>>
  PROVE  Lookup(v, id, bound).hit = l.hit
<1> DEFINE u == l.t
<1> DEFINE h == l.hit
<1>0. NoKey(v, id) /\ ~ ByKey(u, h, id)
  BY DEF NoKey, ByKey
<1>1. /\ Whole(u) /\ h \in DOMAIN u.b /\ u.b[h].seen = now /\ ByPrefix(u, h, id, Targets)
      /\ Usable(u, h, id, Targets)
  BY <1>0 DEF Looked
<1>2. Usable(v, h, id, bound) /\ Whole(v) /\ v.b[h].seen = now
  BY SettledUsable DEF Settled
<1> HIDE DEF u, h
<1>3. /\ \A j \in DOMAIN u.b : v.b[j].seen = u.b[j].seen /\ v.b[j].bucket = u.b[j].bucket
      /\ v.b[h].users = u.b[h].users /\ DOMAIN v.b = DOMAIN u.b
      /\ \A j \in DOMAIN u.b \ {h} : SameRoute(u.b[j], v.b[j])
  <2>1. \A j \in DOMAIN u.b \ {h} : SameRoute(u.b[j], v.b[j])
    BY DEF u, h, Settled
  <2>2. v.b[h].seen = now /\ v.b[h].bucket = id.bucket
    BY DEF h, Settled
  <2>3. u.b[h].seen = now /\ u.b[h].bucket = id.bucket
    BY <1>1 DEF Usable
  <2> QED
    BY <2>1, <2>2, <2>3 DEF SameRoute, u, h
<1>4. InBucket(v, id.bucket) = InBucket(u, id.bucket) /\ InBucket(u, id.bucket) \subseteq DOMAIN u.b
  BY <1>3 DEF InBucket
<1>5. \A i, j \in DOMAIN u.b : Before(v, i, j) <=> Before(u, i, j)
  BY <1>3 DEF Before
<1>6. Newer(v, id.bucket, h) = Newer(u, id.bucket, h)
  BY <1>1, <1>4, <1>5 DEF Newer
<1>7. h \in Window(v, id.bucket)
  <2>1. h \in Window(u, id.bucket)
    BY <1>1 DEF ByPrefix
  <2> QED
    BY <2>1, <1>4, <1>6, WindowIsNewest
<1>8. PrefixMatches(v.b[h].users, id.users)
  BY <1>1, <1>3 DEF ByPrefix
<1>9. \A j \in DOMAIN v.b : Fits(v, j, id, bound) /\ v.b[j].seen = now => h <= j
  <2> SUFFICES ASSUME NEW j \in DOMAIN v.b, Fits(v, j, id, bound), v.b[j].seen = now
               PROVE  h <= j
    OBVIOUS
  <2>1. CASE j = h
    BY <1>1, <2>1 DEF Whole
  <2>2. CASE j # h
    <3>1. SameRoute(u.b[j], v.b[j])
      BY <1>3, <2>2
    <3>2. Fits(u, j, id, Targets) /\ u.b[j].seen = now
      BY <3>1 DEF Fits, Usable, SameRoute, Expired
    <3> QED
      BY <1>1, <1>3, <3>2 DEF ByPrefix
  <2> QED
    BY <2>1, <2>2
<1>10. ByPrefix(v, h, id, bound)
  BY <1>0, <1>7, <1>8, <1>9 DEF ByPrefix
<1>11. Lookup(v, id, bound).hit = h
  BY <1>1, <1>2, <1>3, <1>10, AgainByPrefix
<1> QED
  BY <1>11 DEF h

\* A request without a key that created its binding: no rival was overlooked, unless more
\* bindings share the bucket than one lookup scans.
LEMMA BornAgain ==
  ASSUME NEW t, NEW id \in Identities, NEW l, Looked(t, id, Targets, l), l.hit = None,
         nextInc \in Nat \ {0}, \A j \in DOMAIN l.t.b : j < nextInc,
         NEW bound \in SUBSET Targets, NEW n \in bound, NEW v, Settled(l.t, v, nextInc, id, n),
         v.b[nextInc].users = id.users, Sound(v), id.keys = <<>>, id.users # <<>>,
         \E x \in DOMAIN l.t.b \cup {nextInc} : DOMAIN l.t.b \ {x} \subseteq DOMAIN v.b,
         Cardinality(InBucket(v, id.bucket)) <= MaxScan
  PROVE  Lookup(v, id, bound).hit = nextInc
<1> DEFINE u == l.t
<1> DEFINE h == nextInc
<1> DEFINE U == InBucket(u, id.bucket)
<1> DEFINE V == InBucket(v, id.bucket)
<1>1. /\ Whole(u) /\ Nowhere(u, id, Targets) /\ Whole(v) /\ h \in DOMAIN v.b /\ h \notin DOMAIN u.b
      /\ h \in Nat /\ v.b[h].seen = now /\ v.b[h].bucket = id.bucket
      /\ DOMAIN v.b \subseteq DOMAIN u.b \cup {h}
      /\ \A j \in DOMAIN v.b \ {h} : SameRoute(u.b[j], v.b[j])
  <2>1. Whole(u)
    BY DEF Looked
  <2>2. None \notin DOMAIN u.b
    BY <2>1 DEF Whole, None
  <2>3. Nowhere(u, id, Targets)
    BY <2>2 DEF Looked
  <2>4. h \notin DOMAIN u.b /\ h \in Nat
    OBVIOUS
  <2> HIDE DEF u, h
  <2>5. Settled(u, v, h, id, n)
    BY DEF u, h
  <2> QED
    BY <2>1, <2>3, <2>4, <2>5 DEF Settled
<1>2. Usable(v, h, id, bound) /\ NoKey(v, id)
  BY SettledUsable DEF NoKey
<1>3. PrefixMatches(v.b[h].users, id.users)
  <2>1. id.users \in Seq(Nat)
    BY AffinityAssumption
  <2> QED
    BY <2>1 DEF PrefixMatches, IsPrefix, SubSeq
<1>4. /\ IsFiniteSet(U) /\ IsFiniteSet(V) /\ Cardinality(U) \in Nat /\ Cardinality(V) \in Nat
      /\ Cardinality(V) <= MaxScan /\ MaxScan \in Nat \ {0} /\ h \in V
  <2>1. /\ IsFiniteSet(U) /\ Cardinality(U) \in Nat
        /\ IsFiniteSet(V) /\ Cardinality(V) \in Nat
    BY <1>1, NewerFinite
  <2>2. h \in V
    BY <1>1 DEF InBucket
  <2> QED
    BY <2>1, <2>2, AffinityAssumption
<1>5. Cardinality(U) <= Cardinality(V)
  <2>1. PICK x \in DOMAIN u.b \cup {h} : DOMAIN u.b \ {x} \subseteq DOMAIN v.b
    OBVIOUS
  <2>2. U \ {x} \subseteq V \ {h}
    BY <1>1, <2>1 DEF InBucket, SameRoute
  <2> HIDE DEF U, V
  <2>3. /\ IsFiniteSet(V \ {h}) /\ Cardinality(V \ {h}) = Cardinality(V) - 1
        /\ IsFiniteSet(U \ {x}) /\ Cardinality(U \ {x}) \in Nat
    BY <1>4, FS_RemoveElement, FS_CardinalityType
  <2>6. Cardinality(U \ {x}) = IF x \in U THEN Cardinality(U) - 1 ELSE Cardinality(U)
    BY <1>4, FS_RemoveElement
  <2>4. Cardinality(U \ {x}) <= Cardinality(V \ {h})
    BY <2>2, <2>3, FS_Subset
  <2> QED
    BY <1>4, <2>3, <2>4, <2>6
<1>6. ASSUME NEW j \in DOMAIN v.b \ {h}
      PROVE  ~ Fits(v, j, id, bound)
  <2> SUFFICES ASSUME Fits(v, j, id, bound)
               PROVE  FALSE
    OBVIOUS
  <2>1. j \in DOMAIN u.b /\ SameRoute(u.b[j], v.b[j])
    BY <1>1
  <2>2. Fits(u, j, id, Targets)
    BY <2>1 DEF Fits, Usable, SameRoute, Expired
  <2>3. j \in U
    BY <2>1, <2>2 DEF Fits, Usable, InBucket
  <2>4. Newer(u, id.bucket, j) \subseteq U \ {j}
    <3>1. ~ Before(u, j, j)
      <4>1. u.b[j] \in BindingRec
        BY <1>1, <2>1 DEF Whole
      <4>2. u.b[j].seen \in Nat /\ j \in Nat
        <5>1. j \in Nat
          BY <1>1, <2>1 DEF Whole
        <5> QED
          BY <4>1, <5>1 DEF BindingRec
      <4> QED
        BY <4>2 DEF Before
    <3> QED
      BY <3>1 DEF Newer
  <2> HIDE DEF U, V
  <2>5. /\ IsFiniteSet(U \ {j}) /\ Cardinality(U \ {j}) = Cardinality(U) - 1
    BY <1>4, <2>3, FS_RemoveElement
  <2>6. /\ Cardinality(Newer(u, id.bucket, j)) <= Cardinality(U \ {j})
        /\ Cardinality(Newer(u, id.bucket, j)) \in Nat
    BY <1>1, <2>4, <2>5, FS_Subset, NewerFinite
  <2>7. Cardinality(Newer(u, id.bucket, j)) < MaxScan
    BY <1>4, <1>5, <2>5, <2>6
  <2>8. j \in Window(u, id.bucket)
    BY <2>3, <2>7, WindowIsNewest DEF U
  <2> QED
    BY <1>1, <2>2, <2>8 DEF Nowhere
<1>7. h \in Window(v, id.bucket)
  <2>1. Newer(v, id.bucket, h) \subseteq V \ {h}
    <3>1. ~ Before(v, h, h)
      BY <1>1 DEF Whole, BindingRec, Before
    <3> QED
      BY <3>1 DEF Newer
  <2> HIDE DEF U, V
  <2>2. IsFiniteSet(V \ {h}) /\ Cardinality(V \ {h}) = Cardinality(V) - 1
    BY <1>4, FS_RemoveElement
  <2>3. /\ Cardinality(Newer(v, id.bucket, h)) <= Cardinality(V \ {h})
        /\ Cardinality(Newer(v, id.bucket, h)) \in Nat
    BY <1>1, <2>1, <2>2, FS_Subset, NewerFinite
  <2>4. Cardinality(Newer(v, id.bucket, h)) < MaxScan
    BY <1>4, <2>2, <2>3
  <2> QED
    BY <1>4, <2>4, WindowIsNewest DEF V
<1>8. ByPrefix(v, h, id, bound)
  <2>1. \A j \in DOMAIN v.b : Fits(v, j, id, bound) /\ v.b[j].seen = now => h <= j
    BY <1>1, <1>6
  <2> QED
    BY <1>2, <1>3, <1>7, <2>1 DEF ByPrefix
<1> QED
  BY <1>1, <1>2, <1>8, AgainByPrefix

\* A table a request may be planned on.
Ready(t) ==
  /\ Sound(t) /\ Whole(t) /\ Cardinality(DOMAIN t.b) <= MaxBindings
  /\ nextInc \in Nat \ {0} /\ DOMAIN t.b \subseteq 1 .. nextInc - 1

\* What planning a request does to the table, apart from the index.
Outcome(t, p, id, bound, excluded) ==
  /\ Whole(p.t) /\ Cardinality(DOMAIN p.t.b) <= MaxBindings /\ p.hit \in DOMAIN p.t.b
  /\ DOMAIN p.t.b \subseteq DOMAIN t.b \cup {nextInc}
  /\ NamedResponse(id) \subseteq p.t.b[p.hit].deps
  /\ \A i \in DOMAIN p.t.b \cap DOMAIN t.b :
       /\ p.t.b[i].asked = t.b[i].asked /\ t.b[i].deps \subseteq p.t.b[i].deps
       /\ p.t.b[i].target # t.b[i].target => t.b[i].target \in excluded \/ t.b[i].target \notin bound
  /\ \A i \in DOMAIN p.t.b \ DOMAIN t.b : p.t.b[i].asked = {}

Evident(p, id) ==
  id.keys # <<>> \/ (id.users # <<>> /\ Cardinality(InBucket(p.t, id.bucket)) <= MaxScan)

\* Removing bindings keeps a table within its cap.
LEMMA FewerBindings ==
  ASSUME NEW t, Whole(t), Cardinality(DOMAIN t.b) <= MaxBindings, NEW u, DOMAIN u.b \subseteq DOMAIN t.b
  PROVE  Cardinality(DOMAIN u.b) <= MaxBindings
<1> DEFINE D == DOMAIN t.b
<1> DEFINE E == DOMAIN u.b
<1>1. IsFiniteSet(D) /\ E \subseteq D /\ Cardinality(D) <= MaxBindings
  BY DEF Whole
<1> HIDE DEF D, E
<1>2. IsFiniteSet(E) /\ Cardinality(E) <= Cardinality(D)
  BY <1>1, FS_Subset
<1>3. Cardinality(E) \in Nat /\ Cardinality(D) \in Nat /\ MaxBindings \in Nat
  BY <1>1, <1>2, FS_CardinalityType, AffinityAssumption
<1>4. Cardinality(E) <= MaxBindings
  BY <1>1, <1>2, <1>3
<1> QED
  BY <1>4 DEF E

\* plan: what becomes of the table, and that a request with evidence is found again.
LEMMA PlanShape ==
  ASSUME NEW t, Ready(t), NEW id \in Identities, NEW bound \in SUBSET Targets, NEW excluded,
         NEW n \in bound
  PROVE  LET p == PlanFound(Lookup(t, id, bound), id, excluded, n)
         IN  /\ Outcome(t, p, id, bound, excluded)
             /\ Evident(p, id) => Lookup(p.t, id, bound).hit = p.hit
<1> DEFINE f == Lookup(t, id, bound)
<1> DEFINE g == Lookup(f.t, id, Targets)
<1> DEFINE p == PlanFound(f, id, excluded, n)
<1>0. Whole(t) /\ Sound(t) /\ nextInc \in Nat \ {0} /\ nextInc \notin DOMAIN t.b
  BY DEF Ready
<1>1. Looked(t, id, bound, f) /\ Sound(f.t)
  BY <1>0, LookupShape, LookupSound
<1>2. Whole(f.t) /\ Kept(t, f.t)
  BY <1>1 DEF Looked
<1>3. Looked(f.t, id, Targets, g) /\ Sound(g.t)
  BY <1>1, <1>2, LookupShape, LookupSound
<1>4. Whole(g.t) /\ Kept(f.t, g.t)
  BY <1>3 DEF Looked
<1>5. Kept(t, g.t)
  BY <1>2, <1>4 DEF Kept, Alike
<1>6. Sound(p.t)
  BY <1>0, PlanSound DEF Served
<1>7. f.hit # None => f.hit \in DOMAIN f.t.b
  BY <1>1 DEF Looked
<1>8. CASE f.hit # None /\ f.t.b[f.hit].target \notin excluded
  <2> DEFINE h == f.hit
  <2> DEFINE v == NoteDeps(f.t, h, id)
  <2>1. p = [t |-> v, hit |-> h]
    BY <1>8 DEF PlanFound
  <2>2. Sound(v)
    BY <1>6, <2>1
  <2>3. Lookup(v, id, bound).hit = h
    BY <1>1, <1>8, <2>2, KeptAgain
  <2>4. h \in DOMAIN f.t.b
    BY <1>7, <1>8
  <2>5. /\ Whole(v) /\ DOMAIN v.b = DOMAIN f.t.b
        /\ \A j \in DOMAIN f.t.b \ {h} : v.b[j] = f.t.b[j]
        /\ v.b[h] = [f.t.b[h] EXCEPT !.deps = @ \cup NamedResponse(id)]
    <3> DEFINE w == f.t
    <3> HIDE DEF v, h
    <3>1. Whole(w) /\ h \in DOMAIN w.b /\ v = NoteDeps(w, h, id)
      BY <1>2, <2>4 DEF v
    <3> HIDE DEF w
    <3>2. /\ Whole(v) /\ DOMAIN v.b = DOMAIN w.b
          /\ \A j \in DOMAIN w.b \ {h} : v.b[j] = w.b[j]
          /\ v.b[h] = [w.b[h] EXCEPT !.deps = @ \cup NamedResponse(id)]
      BY <3>1, NoteShape
    <3> QED
      BY <3>2 DEF w
  <2>6. f.t.b[h] \in BindingRec
    BY <1>2, <2>4 DEF Whole
  <2> HIDE DEF v, h, p, f
  <2>7. /\ v.b[h].target = f.t.b[h].target /\ v.b[h].asked = f.t.b[h].asked
        /\ v.b[h].deps = f.t.b[h].deps \cup NamedResponse(id)
    BY <2>5, <2>6 DEF BindingRec
  <2>8. \A j \in DOMAIN v.b : /\ v.b[j].target = t.b[j].target /\ v.b[j].asked = t.b[j].asked
                              /\ t.b[j].deps \subseteq v.b[j].deps /\ j \in DOMAIN t.b
    <3> TAKE j \in DOMAIN v.b
    <3>1. j \in DOMAIN t.b /\ Alike(t.b[j], f.t.b[j])
      BY <1>2, <2>5 DEF Kept
    <3>2. CASE j = h
      BY <2>7, <3>1, <3>2 DEF Alike
    <3>3. CASE j # h
      BY <2>5, <3>1, <3>3 DEF Alike
    <3> QED
      BY <3>2, <3>3
  <2>9. Cardinality(DOMAIN v.b) <= MaxBindings
    BY <2>8, FewerBindings DEF Ready
  <2>10. p.t = v /\ p.hit = h
    BY <2>1
  <2>11. Outcome(t, p, id, bound, excluded)
    BY <2>4, <2>5, <2>7, <2>8, <2>9, <2>10 DEF Outcome
  <2>12. Lookup(p.t, id, bound).hit = p.hit
    BY <2>3, <2>10
  <2> QED
    BY <2>11, <2>12 DEF p, f
<1>9. CASE ~ (f.hit # None /\ f.t.b[f.hit].target \notin excluded)
  <2>0. p = BindFound(g, id, n) /\ n \in Targets
    BY <1>9 DEF PlanFound, Bind
  <2>1. CASE g.hit = None
    <3> DEFINE v == EnforceCaps(KeyedBy(Created(g.t, id, n), nextInc, id), id.bucket)
    <3>1. p = [t |-> v, hit |-> nextInc]
      BY <2>0, <2>1 DEF BindFound, KeyedBy
    <3>2. Cardinality(DOMAIN g.t.b) <= MaxBindings
      BY <1>5, FewerBindings DEF Kept, Ready
    <3>3. \A j \in DOMAIN g.t.b : j < nextInc /\ j \in DOMAIN t.b
      BY <1>0, <1>5 DEF Kept, Ready
    <3> HIDE DEF f, g, p
    <3>4. /\ Settled(g.t, v, nextInc, id, n)
          /\ v.b[nextInc].users = id.users /\ v.b[nextInc].asked = {}
          /\ \E x \in DOMAIN g.t.b \cup {nextInc} : DOMAIN g.t.b \ {x} \subseteq DOMAIN v.b
          /\ Cardinality(DOMAIN v.b) <= MaxBindings
      <4>1. /\ Whole(g.t) /\ nextInc \in Nat \ {0}
            /\ \A j \in DOMAIN g.t.b : j < nextInc
        BY <1>0, <1>4, <3>3
      <4> QED
        BY <2>0, <3>2, <4>1, Born
    <3> HIDE DEF v
    <3>5. p.t = v /\ p.hit = nextInc /\ Sound(v)
      BY <1>6, <3>1
    <3>6. Outcome(t, p, id, bound, excluded)
      <4>1. \A j \in DOMAIN v.b \ {nextInc} :
              /\ v.b[j].target = t.b[j].target /\ v.b[j].asked = t.b[j].asked
              /\ t.b[j].deps \subseteq v.b[j].deps /\ j \in DOMAIN t.b
        <5> TAKE j \in DOMAIN v.b \ {nextInc}
        <5>1. j \in DOMAIN g.t.b
          BY <3>4 DEF Settled
        <5>2. /\ v.b[j].target = g.t.b[j].target /\ v.b[j].asked = g.t.b[j].asked
              /\ g.t.b[j].deps \subseteq v.b[j].deps
          BY <3>4 DEF Settled, SameRoute
        <5>3. j \in DOMAIN t.b /\ Alike(t.b[j], g.t.b[j])
          BY <1>5, <5>1 DEF Kept
        <5> QED
          BY <5>2, <5>3 DEF Alike
      <4>2. /\ Whole(v) /\ nextInc \in DOMAIN v.b
            /\ NamedResponse(id) \subseteq v.b[nextInc].deps
        BY <3>4 DEF Settled
      <4> QED
        BY <1>0, <3>4, <3>5, <4>1, <4>2 DEF Outcome
    <3>7. ASSUME Evident(p, id)
          PROVE  Lookup(p.t, id, bound).hit = p.hit
      <4>1. CASE id.keys # <<>>
        BY <3>4, <3>5, <4>1, SettledAgain
      <4>2. CASE id.keys = <<>>
        <5>1. id.users # <<>> /\ Cardinality(InBucket(v, id.bucket)) <= MaxScan
          BY <3>5, <3>7, <4>2 DEF Evident
        <5>2. \A j \in DOMAIN g.t.b : j < nextInc
          BY <3>3
        <5>3. /\ Looked(f.t, id, Targets, g) /\ g.hit = None /\ nextInc \in Nat \ {0}
              /\ Settled(g.t, v, nextInc, id, n) /\ v.b[nextInc].users = id.users /\ Sound(v)
          BY <1>0, <1>3, <2>1, <3>4, <3>5
        <5>4. \E x \in DOMAIN g.t.b \cup {nextInc} : DOMAIN g.t.b \ {x} \subseteq DOMAIN v.b
          BY <3>4
        <5>5. Lookup(v, id, bound).hit = nextInc
          BY <4>2, <5>1, <5>2, <5>3, <5>4, BornAgain, ZenonT(40)
        <5> QED
          BY <3>5, <5>5
      <4> QED
        BY <4>1, <4>2
    <3> QED
      BY <3>6, <3>7 DEF p, f
  <2>2. CASE g.hit # None
    <3> DEFINE h == g.hit
    <3> DEFINE v == KeyedBy(Rebind(g.t, h, n), h, id)
    <3>1. p = [t |-> v, hit |-> h]
      BY <2>0, <2>2 DEF BindFound, KeyedBy
    <3>2. h \in DOMAIN g.t.b /\ Usable(g.t, h, id, Targets)
      BY <1>3, <2>2 DEF Looked
    <3>3. t.b[h].target \in bound => f.hit = h /\ t.b[h].target \in excluded
      <4>1. /\ h \in DOMAIN f.t.b /\ h \in DOMAIN t.b
            /\ Alike(t.b[h], f.t.b[h])
        BY <1>2, <1>4, <3>2 DEF Kept
      <4>2. ASSUME t.b[h].target \in bound
            PROVE  f.hit = h
        <5>1. f.t.b[h].target \in bound
          BY <4>1, <4>2 DEF Alike
        <5> QED
          BY <1>1, <4>1, <5>1, AgainAnywhere
      <4> QED
        BY <1>9, <2>2, <4>1, <4>2 DEF Alike
    <3> HIDE DEF f, g, p, h
    <3>4. /\ Settled(g.t, v, h, id, n) /\ DOMAIN v.b = DOMAIN g.t.b
          /\ v.b[h].users = g.t.b[h].users /\ v.b[h].asked = g.t.b[h].asked
          /\ g.t.b[h].deps \subseteq v.b[h].deps
      BY <1>4, <2>0, <3>2, Rebound
    <3> HIDE DEF v
    <3>5. p.t = v /\ p.hit = h /\ Sound(v)
      BY <1>6, <3>1
    <3>6. Outcome(t, p, id, bound, excluded)
      <4>1. \A j \in DOMAIN v.b :
              /\ v.b[j].asked = t.b[j].asked
              /\ t.b[j].deps \subseteq v.b[j].deps /\ j \in DOMAIN t.b
              /\ j # h => v.b[j].target = t.b[j].target
        <5> TAKE j \in DOMAIN v.b
        <5>1. j \in DOMAIN t.b /\ Alike(t.b[j], g.t.b[j])
          BY <1>5, <3>4 DEF Kept
        <5>2. /\ v.b[j].asked = g.t.b[j].asked /\ g.t.b[j].deps \subseteq v.b[j].deps
              /\ j # h => v.b[j].target = g.t.b[j].target
          <6>1. CASE j = h
            BY <3>4, <6>1
          <6>2. CASE j # h
            BY <3>4, <6>2 DEF Settled, SameRoute
          <6> QED
            BY <6>1, <6>2
        <5> QED
          BY <5>1, <5>2 DEF Alike
      <4>2. /\ Whole(v) /\ h \in DOMAIN v.b /\ NamedResponse(id) \subseteq v.b[h].deps
        BY <3>4 DEF Settled
      <4>3. Cardinality(DOMAIN v.b) <= MaxBindings
        BY <4>1, FewerBindings DEF Ready
      <4> QED
        BY <3>3, <3>5, <4>1, <4>2, <4>3 DEF Outcome
    <3>7. Lookup(p.t, id, bound).hit = p.hit
      <4>1. CASE id.keys # <<>>
        BY <3>4, <3>5, <4>1, SettledAgain
      <4>2. CASE id.keys = <<>>
        <5>1. Looked(f.t, id, Targets, g) /\ g.hit # None /\ Settled(g.t, v, g.hit, id, n)
              /\ v.b[g.hit].users = g.t.b[g.hit].users
          BY <1>3, <2>2, <3>4 DEF h
        <5> QED
          BY <3>4, <3>5, <4>2, <5>1, ReboundAgain DEF h
      <4> QED
        BY <4>1, <4>2
    <3> QED
      BY <3>6, <3>7 DEF p, f
  <2> QED
    BY <2>1, <2>2
<1> QED
  BY <1>8, <1>9

\* Whatever named response a binding served, it remembers to depend on.
Answered(t) == \A i \in DOMAIN t.b : t.b[i].asked \cap ResponseKeys \subseteq t.b[i].deps

\* The inductive invariant: a table of the right shape and size, whose index is sound and
\* whose bindings were made before nextInc, under configurations over the group's nodes.
RouteInv ==
  /\ Ready(table)
  /\ allowed \subseteq Targets /\ \A m \in held : m \subseteq Targets
  /\ Answered(table)

\* The history of a binding.
AskedBy(t, i, A) == [t EXCEPT !.b[i].asked = @ \cup A]

\* Remembering the keys of a request changes nothing else.
LEMMA AskedShape ==
  ASSUME NEW t, Whole(t), NEW i \in DOMAIN t.b, NEW A \in SUBSET Keys
  PROVE  LET u == AskedBy(t, i, A)
         IN  /\ Whole(u) /\ DOMAIN u.b = DOMAIN t.b /\ u.idx = t.idx
             /\ \A j \in DOMAIN t.b \ {i} : u.b[j] = t.b[j]
             /\ u.b[i].target = t.b[i].target /\ u.b[i].deps = t.b[i].deps
             /\ u.b[i].asked = t.b[i].asked \cup A
<1> DEFINE x == [t.b[i] EXCEPT !.asked = @ \cup A]
<1> DEFINE b2 == [t.b EXCEPT ![i] = x]
<1>1. /\ x \in BindingRec /\ x.seen = t.b[i].seen
      /\ x.target = t.b[i].target /\ x.deps = t.b[i].deps /\ x.asked = t.b[i].asked \cup A
  BY DEF Whole, BindingRec
<1>2. AskedBy(t, i, A) = [t EXCEPT !.b = b2]
  BY DEF AskedBy
<1> HIDE DEF x
<1>3. /\ DOMAIN b2 = DOMAIN t.b /\ b2 = [j \in DOMAIN b2 |-> b2[j]]
      /\ b2[i] = x /\ \A j \in DOMAIN t.b \ {i} : b2[j] = t.b[j]
  OBVIOUS
<1> HIDE DEF b2
<1>5. [t EXCEPT !.b = b2] = [b |-> b2, idx |-> t.idx]
  BY DEF Whole
<1>4. Whole([b |-> b2, idx |-> t.idx])
  BY <1>1, <1>3 DEF Whole
<1> QED
  BY <1>1, <1>2, <1>3, <1>4, <1>5

\* Only the first key of a request can name a response.
LEMMA NamedIsFirst ==
  ASSUME NEW id \in Identities
  PROVE  ToSet(id.keys) \cap ResponseKeys \subseteq NamedResponse(id)
<1>1. /\ id.keys \in Seq(Keys)
      /\ \A n \in DOMAIN id.keys : id.keys[n] \in ResponseKeys => n = 1
  BY AffinityAssumption
<1>2. ASSUME NEW n \in DOMAIN id.keys, id.keys[n] \in ResponseKeys
      PROVE  id.keys[n] \in NamedResponse(id)
  <2>1. n = 1 /\ Len(id.keys) > 0 /\ id.keys[1] = Head(id.keys)
    BY <1>1, <1>2
  <2> QED
    BY <1>2, <2>1 DEF NamedResponse
<1> QED
  BY <1>2 DEF ToSet

\* Requests are planned over nodes of the group.
LEMMA InputsFit ==
  ASSUME RouteInv, NEW in \in Inputs, IsInput(in)
  PROVE  in.id \in Identities /\ in.bound \in SUBSET Targets /\ in.chosen \in in.bound
  BY DEF RouteInv, Inputs, IsInput

\* What the lemmas on plan say of a request in a reachable state.
LEMMA RequestPlans ==
  ASSUME RouteInv, NEW in \in Inputs, IsInput(in)
  PROVE  /\ Outcome(table, Planned(in), in.id, in.bound, in.excluded)
         /\ Evident(Planned(in), in.id) => Lookup(Planned(in).t, in.id, in.bound).hit = Planned(in).hit
<1>1. in.id \in Identities /\ in.bound \in SUBSET Targets /\ in.chosen \in in.bound
  BY InputsFit
<1>2. Ready(table)
  BY DEF RouteInv
<1>3. Planned(in) = PlanFound(Lookup(table, in.id, in.bound), in.id, in.excluded, in.chosen)
  BY DEF Planned
<1> QED
  BY <1>1, <1>2, <1>3, PlanShape

\* The empty table satisfies the invariant.
LEMMA RouteInit == Init => RouteInv
<1> SUFFICES ASSUME Init PROVE RouteInv
  OBVIOUS
<1>1. DOMAIN table.b = {} /\ DOMAIN table.idx = {}
  BY DEF Init, EmptyMap
<1>2. IsFiniteSet(DOMAIN table.b) /\ Cardinality(DOMAIN table.b) = 0
  BY <1>1, FS_EmptySet
<1>3. Whole(table)
  BY <1>1, <1>2 DEF Init, EmptyMap, Whole
<1>4. Ready(table)
  BY <1>2, <1>3, IndexInit, AffinityAssumption DEF Ready, IndexInv, Init
<1> QED
  BY <1>1, <1>4, AffinityAssumption DEF RouteInv, Answered, Init

\* One step per operation on the table.
LEMMA RouteNext ==
  ASSUME RouteInv, [Next]_vars
  PROVE  RouteInv'
<1>1. /\ Sound(table) /\ Whole(table) /\ Cardinality(DOMAIN table.b) <= MaxBindings
      /\ nextInc \in Nat \ {0} /\ DOMAIN table.b \subseteq 1 .. nextInc - 1
      /\ allowed \subseteq Targets /\ (\A m \in held : m \subseteq Targets)
      /\ Answered(table)
  BY DEF RouteInv, Ready
<1>2. Sound(table)' /\ nextInc' \in Nat \ {0} /\ DOMAIN table'.b \subseteq 1 .. nextInc' - 1
  BY <1>1, IndexNext DEF IndexInv
<1>3. allowed' \subseteq Targets /\ \A m \in held' : m \subseteq Targets
  <2>1. CASE allowed' = allowed /\ held' = held
    BY <1>1, <2>1
  <2>2. CASE \E members \in Memberships : Reconfigure(members)
    <3>1. PICK members \in Memberships : allowed' = members /\ held' = held \cup {allowed}
      BY <2>2 DEF Reconfigure
    <3> QED
      BY <1>1, <3>1, AffinityAssumption
  <2>3. \/ allowed' = allowed /\ held' = held
        \/ \E members \in Memberships : Reconfigure(members)
    <3>1. CASE \E in \in Inputs : Request(in)
      BY <3>1 DEF Request
    <3>2. CASE \/ \E i \in Incs, k \in ResponseKeys : Attach(i, k)
              \/ \E i \in Incs, target \in Targets : Move(i, target)
      BY <3>2 DEF Attach, Move
    <3>3. CASE SweepExpired \/ Tick \/ UNCHANGED vars
      BY <3>3 DEF SweepExpired, Tick, vars
    <3> QED
      BY <3>1, <3>2, <3>3 DEF Next
  <2> QED
    BY <2>1, <2>2, <2>3
<1> DEFINE Held == Whole(table)' /\ Cardinality(DOMAIN table'.b) <= MaxBindings /\ Answered(table)'
<1>4. SUFFICES Held
  BY <1>2, <1>3 DEF RouteInv, Ready
<1>5. ASSUME NEW in \in Inputs, Request(in)
      PROVE  Held
  <2> DEFINE p == Planned(in)
  <2> DEFINE A == ToSet(in.id.keys)
  <2>1. Outcome(table, p, in.id, in.bound, in.excluded) /\ in.id \in Identities
    BY <1>5, InputsFit, RequestPlans DEF Request
  <2>2. table' = AskedBy(p.t, p.hit, A) /\ now' = now
    BY <1>5 DEF Request, AskedBy
  <2> HIDE DEF p
  <2>3. A \in SUBSET Keys /\ A \cap ResponseKeys \subseteq NamedResponse(in.id)
    BY <2>1, KeysAreKeys, NamedIsFirst
  <2> HIDE DEF A
  <2>4. Whole(p.t) /\ p.hit \in DOMAIN p.t.b
    BY <2>1 DEF Outcome
  <2>5. /\ Whole(table') /\ DOMAIN table'.b = DOMAIN p.t.b
        /\ \A j \in DOMAIN p.t.b \ {p.hit} : table'.b[j] = p.t.b[j]
        /\ table'.b[p.hit].deps = p.t.b[p.hit].deps
        /\ table'.b[p.hit].asked = p.t.b[p.hit].asked \cup A
    BY <2>2, <2>3, <2>4, AskedShape
  <2>6. Whole(table)'
    BY <2>2, <2>5 DEF Whole
  <2>7. Cardinality(DOMAIN table'.b) <= MaxBindings
    BY <2>1, <2>5 DEF Outcome
  <2>8. \A j \in DOMAIN p.t.b : p.t.b[j].asked \cap ResponseKeys \subseteq p.t.b[j].deps
    BY <1>1, <2>1 DEF Outcome, Answered
  <2>9. Answered(table)'
    <3> SUFFICES ASSUME NEW j \in DOMAIN p.t.b
                 PROVE  table'.b[j].asked \cap ResponseKeys \subseteq table'.b[j].deps
      BY <2>5 DEF Answered
    <3>1. CASE j = p.hit
      <4>1. NamedResponse(in.id) \subseteq p.t.b[p.hit].deps
        BY <2>1 DEF Outcome
      <4> QED
        BY <2>3, <2>5, <2>8, <3>1, <4>1
    <3>2. CASE j # p.hit
      BY <2>5, <2>8, <3>2
    <3> QED
      BY <3>1, <3>2
  <2> QED
    BY <2>6, <2>7, <2>9
<1>6. ASSUME NEW i \in Incs, NEW k \in ResponseKeys, Attach(i, k)
      PROVE  Held
  <2>1. i \in DOMAIN table.b /\ table' = Register(table, i, {k}) /\ now' = now
    BY <1>6 DEF Attach
  <2>2. {k} \in SUBSET Keys
    BY DEF Keys
  <2>3. Whole(table') /\ Kept(table, table') /\ DOMAIN table'.b = DOMAIN table.b
    BY <1>1, <2>1, <2>2, RegisterShape
  <2> QED
    BY <1>1, <2>1, <2>3 DEF Whole, Kept, Alike, Answered
<1>7. ASSUME NEW i \in Incs, NEW target \in Targets, Move(i, target)
      PROVE  Held
  <2>1. i \in DOMAIN table.b /\ table' = Rebind(table, i, target) /\ now' = now
    BY <1>7 DEF Move
  <2>2. /\ Whole(table') /\ DOMAIN table'.b = DOMAIN table.b
        /\ \A j \in DOMAIN table.b \ {i} : table'.b[j] = table.b[j]
        /\ table'.b[i].deps = table.b[i].deps /\ table'.b[i].asked = table.b[i].asked
    BY <1>1, <2>1, RebindShape
  <2> QED
    BY <1>1, <2>1, <2>2 DEF Whole, Answered
<1>8. ASSUME NEW S, table' = RemoveBindings(table, S), now' = now
      PROVE  Held
  <2>1. /\ Whole(table') /\ DOMAIN table'.b = DOMAIN table.b \ S
        /\ \A i \in DOMAIN table'.b : table'.b[i] = table.b[i]
    BY <1>1, <1>8, RemoveShape
  <2>2. Cardinality(DOMAIN table'.b) <= MaxBindings
    BY <1>1, <2>1, FewerBindings
  <2> QED
    BY <1>1, <1>8, <2>1, <2>2 DEF Whole, Answered
<1>9. ASSUME NEW members \in Memberships, Reconfigure(members)
      PROVE  Held
  BY <1>8, <1>9 DEF Reconfigure
<1>10. CASE SweepExpired
  BY <1>8, <1>10 DEF SweepExpired
<1>11. CASE Tick
  <2>1. table' = table /\ now' = now + 1
    BY <1>11 DEF Tick
  <2>2. \A i \in DOMAIN table.b : table.b[i].seen <= now + 1
    BY <1>1 DEF Whole, BindingRec
  <2> QED
    BY <1>1, <2>1, <2>2 DEF Whole, Answered
<1>12. CASE UNCHANGED vars
  BY <1>1, <1>12 DEF vars, Whole, Answered
<1> QED
  BY <1>5, <1>6, <1>7, <1>9, <1>10, <1>11, <1>12 DEF Next

\* A table never holds more bindings than its cap, whatever is found, moved and evicted in
\* one call (#enforceGroupCap).
THEOREM TableStaysBounded == Spec => [](Cardinality(DOMAIN table.b) <= MaxBindings)
<1>1. RouteInv => Cardinality(DOMAIN table.b) <= MaxBindings
  BY DEF RouteInv, Ready
<1> QED
  BY <1>1, RouteInit, RouteNext, PTL DEF Spec

\* Planning a request leaves every task where it is, except one whose node failed the
\* request or is no member of the group, for every configuration and every table.
THEOREM RoutesOnlyChangeWhenForced == Spec => RouteChangesAreForced
<1>1. ASSUME RouteInv, NEW in \in Inputs, Request(in),
             NEW i \in DOMAIN table.b \cap DOMAIN table'.b,
             table'.b[i].target # table.b[i].target
      PROVE  table.b[i].target \in in.excluded \/ table.b[i].target \notin in.bound
  <2> DEFINE p == Planned(in)
  <2> DEFINE A == ToSet(in.id.keys)
  <2>1. Outcome(table, p, in.id, in.bound, in.excluded) /\ in.id \in Identities
    BY <1>1, InputsFit, RequestPlans DEF Request
  <2>2. table' = AskedBy(p.t, p.hit, A)
    BY <1>1 DEF Request, AskedBy
  <2> HIDE DEF p
  <2>3. A \in SUBSET Keys
    BY <2>1, KeysAreKeys
  <2> HIDE DEF A
  <2>4. Whole(p.t) /\ p.hit \in DOMAIN p.t.b
    BY <2>1 DEF Outcome
  <2>5. /\ DOMAIN table'.b = DOMAIN p.t.b
        /\ \A j \in DOMAIN p.t.b \ {p.hit} : table'.b[j] = p.t.b[j]
        /\ table'.b[p.hit].target = p.t.b[p.hit].target
    BY <2>2, <2>3, <2>4, AskedShape
  <2>6. i \in DOMAIN p.t.b /\ table'.b[i].target = p.t.b[i].target
    BY <2>5
  <2> QED
    BY <1>1, <2>1, <2>6 DEF Outcome
<1>2. RouteInv =>
        (\A i \in DOMAIN table.b \cap DOMAIN table'.b :
           table'.b[i].target # table.b[i].target =>
             \A in \in Inputs : Request(in) =>
               table.b[i].target \in in.excluded \/ table.b[i].target \notin in.bound)
  BY <1>1
<1> QED
  BY <1>2, RouteInit, RouteNext, PTL DEF Spec, RouteChangesAreForced

\* The repeat of a request with evidence comes to the binding that served it, for every
\* cap, slice and configuration.
THEOREM RepeatsFindTheirBinding == Spec => []RepeatFindsItsBinding
<1>1. ASSUME RouteInv, NEW in \in Inputs, IsInput(in), Evident(Planned(in), in.id)
      PROVE  Lookup(Planned(in).t, in.id, in.bound).hit = Planned(in).hit
  BY <1>1, RequestPlans
<1>2. RouteInv => RepeatFindsItsBinding
  BY <1>1 DEF RepeatFindsItsBinding, Evident
<1> QED
  BY <1>2, RouteInit, RouteNext, PTL DEF Spec

\* An operator's move passes the gate only for a task no named response ever led to.
THEOREM NamedResponsesStayPut == Spec => NamedResponseIsNeverMoved
<1>1. ASSUME RouteInv, NEW i \in Incs, NEW target \in Targets, Move(i, target)
      PROVE  table.b[i].asked \cap ResponseKeys = {}
  BY <1>1 DEF RouteInv, Answered, Move, StateRejection
<1>2. RouteInv => (\A i \in Incs, target \in Targets :
                     Move(i, target) => table.b[i].asked \cap ResponseKeys = {})
  BY <1>1
<1> QED
  BY <1>2, RouteInit, RouteNext, PTL DEF Spec, NamedResponseIsNeverMoved

=============================================================================
