--------------------------- MODULE AffinityTable ---------------------------
(***************************************************************************)
(* LoadAffinityTable (src/src/proxy/load-affinity.ts): which node a task   *)
(* is bound to, found again by an exact key or by the prefix of its user   *)
(* messages, together with the two things the balancer does to it: plan()  *)
(* on a request and the rebind of an operator's move, behind the           *)
(* server-side state gate.                                                 *)
(*                                                                         *)
(* An identity is what task-identity.ts extracts from a request: its exact *)
(* keys in lookup order (a named response first), the bucket its kind,     *)
(* model and boundary hash to, its endpoint and its user message hashes.   *)
(* A binding is named by its incarnation, which is never reused; the order *)
(* of incarnations is the insertion order of the code's maps and arrays.   *)
(* Every action is one synchronous call of the event loop.                 *)
(***************************************************************************)
EXTENDS Maps, Integers, Sequences, FiniteSets, SequencesExt

CONSTANTS
  Targets,           \* node ids
  Buckets, Endpoints,  \* the endpoint "" is compatible with every other
  ResponseKeys,      \* response:<id>
  ConversationKeys,  \* conversation:<id>
  SessionKeys,       \* prompt_cache:<id>, claude_session:<id>
  KindOf,            \* bucket -> "responses", "chat" (messages, completions) or "other"
  Identities,        \* the requests clients send
  Memberships,       \* sets of enabled members a configuration may give the group
  Ttl,               \* AFFINITY_TTL_MS
  MaxBindings, MaxBucket, MaxScan,  \* the three caps
  MaxInc, MaxTime, MaxRev  \* bounds: bindings ever created, the clock, route versions

None == 0
Keys == ResponseKeys \cup ConversationKeys \cup SessionKeys
Incs == 1 .. MaxInc

ASSUME AffinityAssumption ==
  /\ KindOf \in [Buckets -> {"responses", "chat", "other"}]
  /\ \A id \in Identities :
       /\ id.keys \in Seq(Keys) /\ id.users \in Seq(Nat)
       /\ \A n \in DOMAIN id.keys : id.keys[n] \in ResponseKeys => n = 1
       /\ id.bucket \in Buckets /\ id.endpoint \in Endpoints
  /\ Memberships \subseteq SUBSET Targets
  /\ Ttl \in Nat /\ MaxInc \in Nat /\ MaxTime \in Nat /\ MaxRev \in Nat
  /\ MaxBindings \in Nat \ {0} /\ MaxBucket \in Nat \ {0} /\ MaxScan \in Nat \ {0}

VARIABLES
  now,
  table,    \* [b: incarnation -> binding, idx: exact key -> incarnation]
  nextInc,
  allowed,  \* enabled members under the configuration in force
  held      \* memberships an earlier configuration gave, which a request may still carry

vars == <<now, table, nextInc, allowed, held>>

\* `asked` is history, not code: the exact keys named by the requests the binding served.
Binding == [target : Targets, rev : 0 .. MaxRev, bucket : Buckets, endpoint : Endpoints,
            users : Seq(Nat), seen : 0 .. MaxTime, keys : SUBSET Keys, deps : SUBSET ResponseKeys,
            asked : SUBSET Keys]

-----------------------------------------------------------------------------
(* Reading the table.                                                      *)

NamedResponse(id) == {k \in ResponseKeys : Len(id.keys) > 0 /\ k = Head(id.keys)}

Expired(b) == b.seen < now - Ttl

\* #usable, without the removal it does on the way (ExpiredOf).
Usable(t, i, id, targets) ==
  /\ t.b[i].target \in targets
  /\ ~ Expired(t.b[i])
  /\ t.b[i].bucket = id.bucket
  /\ t.b[i].endpoint = id.endpoint \/ "" \in {t.b[i].endpoint, id.endpoint}

\* The bindings #usable removes when it looks at S.
ExpiredOf(t, S, targets) == {i \in S : t.b[i].target \in targets /\ Expired(t.b[i])}

\* userHashPrefixMatches
PrefixMatches(previous, current) == previous # <<>> /\ IsPrefix(previous, current)

\* Sorting by lastSeenAt, newest first, is stable over insertion order.
Before(t, i, j) == t.b[i].seen > t.b[j].seen \/ (t.b[i].seen = t.b[j].seen /\ i < j)

InBucket(t, bucket) == {i \in DOMAIN t.b : t.b[i].bucket = bucket}

\* The bounded slice of a bucket that one lookup scans.
Window(t, bucket) ==
  {i \in InBucket(t, bucket) :
     Cardinality({j \in InBucket(t, bucket) : Before(t, j, i)}) < MaxScan}

LeastRecent(t, S) ==
  {i \in S : \A j \in S : t.b[i].seen < t.b[j].seen \/ (t.b[i].seen = t.b[j].seen /\ i <= j)}

-----------------------------------------------------------------------------
(* Writing the table.                                                      *)

\* Mutant: the index entries of a removed binding stay behind.
RemoveEntryOnly(t, S) == [t EXCEPT !.b = Without(@, S)]

\* remove, for every binding of S: only entries that still point at it go with it.
RemoveBindings(t, S) ==
  [b   |-> Without(t.b, S),
   idx |-> Without(t.idx, {k \in DOMAIN t.idx : t.idx[k] \in S /\ k \in t.b[t.idx[k]].keys})]

\* #detachExactKey for each key of K
Detach(t, K) ==
  [b   |-> [i \in DOMAIN t.b |->
              [t.b[i] EXCEPT !.keys = @ \ {k \in K \cap DOMAIN t.idx : t.idx[k] = i}]],
   idx |-> Without(t.idx, K)]

\* #registerExactKeys: a key another binding holds is taken over silently.
Register(t, i, K) ==
  [b   |-> [t.b EXCEPT ![i].keys = @ \cup K],
   idx |-> [k \in DOMAIN t.idx \cup K |-> IF k \in K THEN i ELSE t.idx[k]]]

\* #touch; requestCount is a display figure.
Touch(t, i) == [t EXCEPT !.b[i].seen = now]

\* rebind: the only write of a target, and its version moves with it.
Rebind(t, i, target) ==
  LET rev == IF t.b[i].target = target THEN t.b[i].rev ELSE t.b[i].rev + 1
  IN  [t EXCEPT !.b[i] = [t.b[i] EXCEPT !.rev = rev, !.target = target, !.seen = now]]

\* noteRequestDependencies
NoteDeps(t, i, id) == [t EXCEPT !.b[i].deps = @ \cup NamedResponse(id)]

\* #enforceBucketCap and #enforceGroupCap: one binding was added, so at most one goes.
Trim(t, S, cap) == IF Cardinality(S) > cap THEN RemoveBindings(t, LeastRecent(t, S)) ELSE t

EnforceCaps(t, bucket) ==
  LET trimmed == Trim(t, InBucket(t, bucket), MaxBucket)
  IN  Trim(trimmed, DOMAIN trimmed.b, MaxBindings)

-----------------------------------------------------------------------------
(* lookup, bind and plan on a table value.                                 *)

\* #lookupExact: the first usable key wins; the keys before it let go of their binding.
LookupExact(t, id, targets) ==
  LET indexed == {n \in DOMAIN id.keys : id.keys[n] \in DOMAIN t.idx}
      hits == {n \in indexed : Usable(t, t.idx[id.keys[n]], id, targets)}
      first == {n \in hits : \A h \in hits : n <= h}
      dead == {id.keys[n] : n \in {m \in indexed : \A h \in hits : m < h}}
      left == RemoveBindings(Detach(t, dead), ExpiredOf(t, {t.idx[k] : k \in dead}, targets))
  IN  IF first = {} THEN [t |-> left, hit |-> None]
      ELSE LET i == t.idx[id.keys[CHOOSE n \in first : TRUE]] IN [t |-> Touch(left, i), hit |-> i]

\* #lookupBucket: the most recent usable prefix in the slice.  Expired bindings are the
\* oldest, so the scan only comes to them, and removes them, when nothing newer matched.
LookupBucket(t, id, targets) ==
  LET scan == Window(t, id.bucket)
      hits == {i \in scan : /\ Usable(t, i, id, targets)
                            /\ PrefixMatches(t.b[i].users, id.users)}
      newest == {i \in hits : \A j \in hits : i = j \/ Before(t, i, j)}
  IN  IF newest = {} THEN [t |-> RemoveBindings(t, ExpiredOf(t, scan, targets)), hit |-> None]
      ELSE LET i == CHOOSE i \in newest : TRUE IN [t |-> Touch(t, i), hit |-> i]

OrInBucket(exact, id, targets) ==
  IF exact.hit # None THEN exact ELSE LookupBucket(exact.t, id, targets)

Lookup(t, id, targets) == OrInBucket(LookupExact(t, id, targets), id, targets)

NewBinding(id, target) ==
  [target |-> target, rev |-> 0, bucket |-> id.bucket, endpoint |-> id.endpoint,
   users |-> id.users, seen |-> now, keys |-> {}, deps |-> {}, asked |-> {}]

Created(t, id, target) == [t EXCEPT !.b = Put(@, nextInc, NewBinding(id, target))]

\* Mutant: the keys of a request that creates its binding are not registered.
BindUnregistered(found, id, target) ==
  IF found.hit = None
  THEN [t |-> EnforceCaps(NoteDeps(Created(found.t, id, target), nextInc, id), id.bucket),
        hit |-> nextInc]
  ELSE [t |-> Register(Rebind(found.t, found.hit, target), found.hit, ToSet(id.keys)),
        hit |-> found.hit]

\* bind with allowRebind, the only way plan() calls it, once its lookup has returned.
BindFound(found, id, target) ==
  LET Keyed(t, i) == NoteDeps(Register(t, i, ToSet(id.keys)), i, id)
  IN  IF found.hit = None
      THEN [t |-> EnforceCaps(Keyed(Created(found.t, id, target), nextInc), id.bucket),
            hit |-> nextInc]
      ELSE [t |-> Keyed(Rebind(found.t, found.hit, target), found.hit), hit |-> found.hit]

\* The lookup of bind is not restricted to any set of nodes.
Bind(t, id, target) == BindFound(Lookup(t, id, Targets), id, target)

\* Mutant: a bound task follows the balancer's present preference.
PlanByPreference(found, id, excluded, chosen) == Bind(found.t, id, chosen)

\* plan, once its lookup has returned: an affinity hit on a node that is not excluded is
\* taken as it is, and anything else is bound to the node the balancer chose.
PlanFound(found, id, excluded, chosen) ==
  IF found.hit # None /\ found.t.b[found.hit].target \notin excluded
  THEN [t |-> NoteDeps(found.t, found.hit, id), hit |-> found.hit]
  ELSE Bind(found.t, id, chosen)

-----------------------------------------------------------------------------
\* Mutant: the gate looks at conversation handles and body evidence only.
StateRejectionOfHandles(b) ==
  \/ KindOf[b.bucket] = "other"
  \/ KindOf[b.bucket] = "responses" /\ b.keys \cap ConversationKeys # {}
  \/ b.users = <<>>

\* #stateRejection: what makes the server-side state of a task unsafe to leave behind.
StateRejection(b) ==
  \/ b.deps # {}
  \/ KindOf[b.bucket] = "other"
  \/ KindOf[b.bucket] = "responses" /\ b.keys \cap ConversationKeys # {}
  \/ b.users = <<>>

Init ==
  /\ now = 0 /\ nextInc = 1
  /\ table = [b |-> EmptyMap, idx |-> EmptyMap]
  /\ allowed \in Memberships
  /\ held = {}

\* What plan() may be called with: a fresh request under the configuration in force, or
\* the retry of one whose node just failed, which goes on with the group it matched.
Inputs == [id : Identities, bound : {allowed} \cup held,
           excluded : {{}} \cup {{n} : n \in Targets}, chosen : Targets]

IsInput(in) ==
  /\ in.chosen \in in.bound \ in.excluded
  /\ in.excluded \subseteq in.bound
  /\ in.excluded = {} => in.bound = allowed

Planned(in) == PlanFound(Lookup(table, in.id, in.bound), in.id, in.excluded, in.chosen)

Request(in) ==
  /\ IsInput(in)
  /\ \E p \in {Planned(in)} :
       /\ p.hit <= MaxInc /\ p.t.b[p.hit].rev <= MaxRev
       /\ table' = [p.t EXCEPT !.b[p.hit].asked = @ \cup ToSet(in.id.keys)]
       /\ nextInc' = IF p.hit = nextInc THEN nextInc + 1 ELSE nextInc
  /\ UNCHANGED <<now, allowed, held>>

\* attachResponseIds when a response ends; nothing once its binding has left the table.
Attach(i, k) ==
  /\ i \in DOMAIN table.b
  /\ table' = Register(table, i, {k})
  /\ UNCHANGED <<now, nextInc, allowed, held>>

\* moveBinding or an intent's boundary write, past the other gates (module LoadBalancer).
Move(i, target) ==
  /\ i \in DOMAIN table.b /\ table.b[i].rev < MaxRev
  /\ target \in allowed /\ target # table.b[i].target
  /\ ~ StateRejection(table.b[i])
  /\ table' = Rebind(table, i, target)
  /\ UNCHANGED <<now, nextInc, allowed, held>>

\* reconfigure: pruneTargets, then requests that matched the group before go on with it.
Reconfigure(members) ==
  /\ members \in Memberships \ {allowed}
  /\ allowed' = members
  /\ held' = held \cup {allowed}
  /\ table' = RemoveBindings(table, {i \in DOMAIN table.b : table.b[i].target \notin members})
  /\ UNCHANGED <<now, nextInc>>

SweepExpired ==
  /\ table' = RemoveBindings(table, {i \in DOMAIN table.b : Expired(table.b[i])})
  /\ UNCHANGED <<now, nextInc, allowed, held>>

Tick ==
  /\ now < MaxTime
  /\ now' = now + 1
  /\ UNCHANGED <<table, nextInc, allowed, held>>

Next ==
  \/ \E in \in Inputs : Request(in)
  \/ \E i \in Incs, k \in ResponseKeys : Attach(i, k)
  \/ \E i \in Incs, target \in Targets : Move(i, target)
  \/ \E members \in Memberships : Reconfigure(members)
  \/ SweepExpired
  \/ Tick

Spec == Init /\ [][Next]_vars

-----------------------------------------------------------------------------
\* The table is a partial function over the incarnations handed out.
TypeOK ==
  /\ now \in 0 .. MaxTime
  /\ nextInc \in 1 .. MaxInc + 1
  /\ DOMAIN table = {"b", "idx"}
  /\ DOMAIN table.b \subseteq 1 .. nextInc - 1
  /\ \A i \in DOMAIN table.b : table.b[i] \in Binding
  /\ DOMAIN table.idx \subseteq Keys
  /\ \A k \in DOMAIN table.idx : table.idx[k] \in Incs
  /\ allowed \in Memberships /\ held \subseteq Memberships

\* Every entry of the exact index leads to a binding the table still holds and that knows
\* the key, whatever removed, pruned, expired or took over in between: otherwise a request
\* would be routed by a binding nothing can sweep any more (load-affinity.ts 324-331).
IndexSound ==
  \A k \in DOMAIN table.idx :
    /\ table.idx[k] \in DOMAIN table.b
    /\ k \in table.b[table.idx[k]].keys

\* Planning a request never moves a task that is where it may stay: whatever binding its
\* lookups come to, the route changes only when the node it was on just failed the request
\* or is no member of the group it is planned in.  Load alone never moves a task
\* (load-balancing.md 4.2).
RouteChangesAreForced ==
  [][\A i \in DOMAIN table.b \cap DOMAIN table'.b :
       table'.b[i].target # table.b[i].target =>
         \A in \in Inputs : Request(in) =>
           table.b[i].target \in in.excluded \/ table.b[i].target \notin in.bound]_vars

\* A request with evidence is found again: the binding that served it is the one its own
\* repeat in the same group is sent to, whatever its planning detached, removed or evicted
\* on the way (load-balancing.md 7.2).  A request without a key is only as findable as the
\* slice of its bucket one lookup scans.
RepeatFindsItsBinding ==
  \A in \in {x \in Inputs : IsInput(x)} :
    \A p \in {Planned(in)} :
      \/ in.id.keys # <<>>
      \/ in.id.users # <<>> /\ Cardinality(InBucket(p.t, in.id.bucket)) <= MaxScan
      => Lookup(p.t, in.id, in.bound).hit = p.hit

\* An operator's move never touches a task that was addressed through a named response.
NamedResponseIsNeverMoved ==
  [][\A i \in Incs, target \in Targets :
       Move(i, target) => table.b[i].asked \cap ResponseKeys = {}]_vars

=============================================================================
