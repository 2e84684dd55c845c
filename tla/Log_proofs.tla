---------------------------- MODULE Log_proofs ----------------------------
(***************************************************************************)
(* Tasks, records, links and briefs among any number of requests, bodies,  *)
(* restarts and cleanups: a task counts its requests, the requests of a    *)
(* conversation stay together, and no brief is replaced by an older one.   *)
(* And what is logged of one response, however its bytes were cut: it is   *)
(* what the stream said, and its price is exact.                           *)
(***************************************************************************)
EXTENDS TaskLog, ResponseRelay, FiniteSetTheorems, WellFoundedInduction, TLAPS

Events == {"request_received", "request_pending_response", "request_finished"}
Pricings == {"pending", "priced", "unpriced"}

\* The provers know no literal as a string: the empty one is named.
Text == STRING \cup {""}

TaskRow ==
  [pending : BOOLEAN, kind : ModelTaskKinds \cup {"models"}, boundary : Text, user : Text,
   users : Seq(STRING), content : Text, count : Nat]

Record == [task : Nat, sequence : Nat, event : Events, pricing : Pricings]

Job == [task : Nat, source : Requests, done : BOOLEAN]

Fields(d) ==
  d = [tasks |-> d.tasks, records |-> d.records, responses |-> d.responses,
       contexts |-> d.contexts, briefs |-> d.briefs]

\* Links and briefs are of tasks that are there, and no link names a task whose body is on
\* its way.
LinksTyped(d, links) ==
  \A x \in DOMAIN links : links[x] \in DOMAIN d.tasks /\ ~d.tasks[links[x]].pending

Typed(d, n) ==
  /\ Fields(d) /\ n \in Nat /\ n >= 1
  /\ DOMAIN d.tasks \subseteq 1 .. n - 1 /\ \A t \in DOMAIN d.tasks : d.tasks[t] \in TaskRow
  /\ DOMAIN d.records \subseteq Requests
  /\ \A r \in DOMAIN d.records : d.records[r] \in Record /\ d.records[r].task \in DOMAIN d.tasks
  /\ LinksTyped(d, d.responses) /\ NoName \notin DOMAIN d.responses
  /\ LinksTyped(d, d.contexts)
  /\ DOMAIN d.briefs \subseteq DOMAIN d.tasks
  /\ \A t \in DOMAIN d.briefs : d.briefs[t] \in [source : Requests, done : BOOLEAN]

\* Every task but those of T counts its records; one whose body is on its way has one.
Counted(d, T) ==
  \A t \in DOMAIN d.tasks \ T :
    /\ d.tasks[t].count = Cardinality(RecordsOf(d, t)) /\ d.tasks[t].count >= 1
    /\ d.tasks[t].pending => d.tasks[t].count = 1

\* A request that has not come has no record, and one that is finished gets no more events.
Phased(d, ph) ==
  /\ DOMAIN ph = Requests
  /\ \A r \in DOMAIN d.records :
       /\ ph[r] # "new"
       /\ d.records[r].event = "request_finished" =>
            ph[r] \in {"answered", "refused"} /\ ~d.tasks[d.records[r].task].pending

\* A task has the boundaries of each of its requests, and a key that ties requests leads to
\* the task of every one of them.
Together(d) ==
  \A r \in DOMAIN d.records :
    LET t == d.records[r].task IN
    ~d.tasks[t].pending =>
      /\ BoundariesMatch(d.tasks[t], Shape[r])
      /\ \A k \in KeysOf(r) : TiesByKey(k) => k \in DOMAIN d.contexts /\ d.contexts[k] = t

IsFinished(d, r, t) ==
  r \in DOMAIN d.records /\ d.records[r].task = t /\ d.records[r].event = "request_finished"

\* A brief of a finished request, and the jobs that may replace it by a later one only.
Briefed(d, js, T) ==
  /\ \A t \in DOMAIN d.briefs : d.briefs[t].done => IsFinished(d, d.briefs[t].source, t)
  /\ js \subseteq Job
  /\ \A i, j \in js : i.task = j.task => i = j
  /\ \A j \in js :
       j.task \in DOMAIN d.tasks \ T =>
         /\ j.source \in DOMAIN d.records /\ d.records[j.source].task = j.task
         /\ j.done => IsFinished(d, j.source, j.task)
         /\ j.task \in DOMAIN d.briefs /\ d.briefs[j.task].done =>
              /\ j.done
              /\ d.records[j.source].sequence >= d.records[d.briefs[j.task].source].sequence

JobsKnown(js, n) == \A j \in js : j.task < n

Sound(d, n, ph, js) ==
  /\ Typed(d, n) /\ Counted(d, {}) /\ Phased(d, ph) /\ Together(d)
  /\ Briefed(d, js, {}) /\ JobsKnown(js, n)

LogInv == Sound(db, nextTask, phase, jobs)

\* What a step does not do: take a request out of its task, or a brief back.
Stays(d, u) ==
  \A r \in DOMAIN d.records \cap DOMAIN u.records :
    ~IsPending(d, TaskOf(d, r)) => TaskOf(u, r) = TaskOf(d, r)

BriefsGoOn(d, u) ==
  \A t \in DOMAIN d.briefs \cap DOMAIN u.briefs :
    d.briefs[t].done =>
      d.records[u.briefs[t].source].sequence >= d.records[d.briefs[t].source].sequence

-----------------------------------------------------------------------------
\* The greatest of finitely many numbers

LEMMA LeastNatural ==
  ASSUME NEW T \in SUBSET Nat, T # {}
  PROVE  \E x \in T : \A y \in T : x <= y
<1> DEFINE R == OpToRel(<, Nat)
<1>1. IsWellFoundedOn(R, Nat)
  BY NatLessThanWellFounded
<1>2. \A x, y \in Nat : <<y, x>> \in R <=> y < x
  BY DEF OpToRel
<1> HIDE DEF R
<1>3. PICK x \in T : \A y \in T : <<y, x>> \notin R
  BY <1>1, WFMin
<1>4. ASSUME NEW y \in T
      PROVE  x <= y
  <2>1. x \in Nat /\ y \in Nat
    OBVIOUS
  <2>2. ~(y < x)
    BY <1>2, <1>3, <2>1
  <2> QED
    BY <2>1, <2>2
<1> QED
  BY <1>4

\* The element with the fewest above it is the greatest.
LEMMA GreatestNatural ==
  ASSUME NEW T \in SUBSET Nat, T # {}, IsFiniteSet(T)
  PROVE  Max(T) \in T /\ \A y \in T : y <= Max(T)
<1> DEFINE above(x) == {y \in T : y > x}
           C == {Cardinality(above(x)) : x \in T}
<1>1. \A x \in T : IsFiniteSet(above(x)) /\ Cardinality(above(x)) \in Nat
  <2> TAKE x \in T
  <2>1. above(x) \in SUBSET T
    OBVIOUS
  <2> HIDE DEF above
  <2> QED
    BY <2>1, FS_Subset, FS_CardinalityType
<1>2. C \in SUBSET Nat /\ C # {}
  <2> HIDE DEF above
  <2> QED
    BY <1>1
<1>3. PICK c \in C : \A e \in C : c <= e
  <2> HIDE DEF C
  <2> QED
    BY <1>2, LeastNatural
<1>4. PICK x \in T : c = Cardinality(above(x))
  <2> HIDE DEF above
  <2> QED
    BY <1>3
<1>5. ASSUME NEW y \in T, y > x
      PROVE  FALSE
  <2>1. above(y) \subseteq above(x) /\ y \in above(x) /\ y \notin above(y)
    <3>1. x \in Nat /\ y \in Nat /\ \A z \in T : z \in Nat
      OBVIOUS
    <3>2. \A z \in above(y) : z \in above(x)
      <4> TAKE z \in above(y)
      <4>1. z \in T /\ z > y
        OBVIOUS
      <4>2. z > x
        BY <4>1, <3>1, <1>5
      <4> QED
        BY <4>1, <4>2
    <3>3. y \in above(x)
      BY <3>1, <1>5
    <3>4. y \notin above(y)
      BY <3>1
    <3> HIDE DEF above
    <3> QED
      BY <3>2, <3>3, <3>4
  <2>2. Cardinality(above(y)) \in C
    <3> HIDE DEF above
    <3> QED
      OBVIOUS
  <2> HIDE DEF above, C
  <2>3. /\ Cardinality(above(y)) <= Cardinality(above(x))
        /\ Cardinality(above(y)) # Cardinality(above(x))
    BY <2>1, <1>1, FS_Subset
  <2> QED
    BY <1>1, <1>3, <1>4, <2>2, <2>3
<1>6. \A y \in T : x >= y
  BY <1>5
<1> QED
  BY <1>6 DEF Max

\* Sequence numbers, or whatever natural numbers finitely many things bear.
LEMMA GreatestBorne ==
  ASSUME NEW S, S # {}, IsFiniteSet(S), NEW f \in [S -> Nat]
  PROVE  \E x \in S : \A y \in S : f[y] <= f[x]
<1> DEFINE T == {f[x] : x \in S}
<1>1. f \in Surjection(S, T)
  <2>1. f \in [S -> T] /\ \A t \in T : \E x \in S : f[x] = t
    OBVIOUS
  <2> HIDE DEF T
  <2> QED
    BY <2>1 DEF Surjection
<1>2. T \in SUBSET Nat /\ T # {}
  OBVIOUS
<1>3. IsFiniteSet(T)
  <2> HIDE DEF T
  <2> QED
    BY <1>1, FS_Surjection
<1>4. Max(T) \in T /\ \A y \in T : y <= Max(T)
  <2> HIDE DEF T
  <2> QED
    BY <1>2, <1>3, GreatestNatural
<1> QED
  BY <1>4

-----------------------------------------------------------------------------
\* The records of a task

LEMMA RecordsFinite ==
  ASSUME NEW d, DOMAIN d.records \subseteq Requests, NEW t
  PROVE  /\ IsFiniteSet(RecordsOf(d, t)) /\ Cardinality(RecordsOf(d, t)) \in Nat
         /\ Cardinality(RecordsOf(d, t)) = 0 <=> RecordsOf(d, t) = {}
<1>1. RecordsOf(d, t) \in SUBSET Requests
  BY DEF RecordsOf
<1>2. IsFiniteSet(RecordsOf(d, t))
  BY <1>1, FS_Subset, ShapeAssumption
<1> QED
  BY <1>2, FS_CardinalityType, FS_EmptySet

\* A record's place in its task is a number.
LEMMA SequenceIsNatural ==
  ASSUME NEW d, NEW n, Typed(d, n), NEW r \in Requests, NEW t, t # NoTask
  PROVE  SequenceFor(d, r, t) \in Nat
<1>1. CASE TaskOf(d, r) = t /\ r \in DOMAIN d.records
  <2>1. d.records[r] \in Record
    BY <1>1 DEF Typed
  <2> QED
    BY <2>1, <1>1 DEF SequenceFor, Record
<1>2. CASE TaskOf(d, r) # t
  <2> DEFINE S == RecordsOf(d, t)
             T == {d.records[q].sequence : q \in S}
             f == [q \in S |-> d.records[q].sequence]
  <2>1. T \in SUBSET Nat
    BY DEF RecordsOf, Typed, Record
  <2>2. IsFiniteSet(S)
    BY RecordsFinite DEF Typed
  <2>3. f \in Surjection(S, T)
    <3>1. f \in [S -> T] /\ \A x \in T : \E q \in S : f[q] = x
      OBVIOUS
    <3> HIDE DEF f, T, S
    <3> QED
      BY <3>1 DEF Surjection
  <2>4. IsFiniteSet(T)
    <3> HIDE DEF f, T, S
    <3> QED
      BY <2>2, <2>3, FS_Surjection
  <2>5. {0} \cup T \in SUBSET Nat /\ {0} \cup T # {} /\ IsFiniteSet({0} \cup T)
    <3>1. IsFiniteSet(T \cup {0})
      <4> HIDE DEF T
      <4> QED
        BY <2>4, FS_AddElement
    <3>2. {0} \cup T = T \cup {0}
      OBVIOUS
    <3> HIDE DEF T
    <3> QED
      BY <3>1, <3>2, <2>1
  <2>6. Max({0} \cup T) \in Nat
    <3> HIDE DEF T
    <3> QED
      BY <2>1, <2>5, GreatestNatural
  <2> QED
    BY <2>6, <1>2 DEF SequenceFor
<1> QED
  BY <1>1, <1>2 DEF TaskOf

-----------------------------------------------------------------------------
\* What a write leaves, before what it supersedes is removed

NewRecord(d, r, t, event, pricing) ==
  [task |-> t, sequence |-> SequenceFor(d, r, t), event |-> event,
   pricing |-> Price(d, r, pricing)]

LinkedTo(links, S, t) == [x \in DOMAIN links \cup S |-> IF x \in S THEN t ELSE links[x]]

Written(d, r, t, row, event, pricing, ids, keys) ==
  [d EXCEPT !.tasks = Put(@, t, row), !.records = Put(@, r, NewRecord(d, r, t, event, pricing)),
            !.responses = LinkedTo(@, ids, t), !.contexts = LinkedTo(@, keys, t)]

LEMMA WriteIsWrittenAndRemoved ==
  ASSUME NEW d, NEW r, NEW t, NEW row, NEW event, NEW pricing, NEW ids, NEW keys, NEW T
  PROVE  WriteTraffic(d, r, t, row, event, pricing, ids, keys, T) =
           RemoveTasks(Written(d, r, t, row, event, pricing, ids, keys), T)
BY DEF WriteTraffic, Written, NewRecord, LinkedTo

LEMMA WrittenFields ==
  ASSUME NEW d, Fields(d), NEW r, NEW t, NEW row, NEW event, NEW pricing, NEW ids, NEW keys,
         NEW u, u = Written(d, r, t, row, event, pricing, ids, keys)
  PROVE  /\ Fields(u)
         /\ u.tasks = Put(d.tasks, t, row)
         /\ u.records = Put(d.records, r, NewRecord(d, r, t, event, pricing))
         /\ u.responses = LinkedTo(d.responses, ids, t)
         /\ u.contexts = LinkedTo(d.contexts, keys, t)
         /\ u.briefs = d.briefs
<1> DEFINE a == Put(d.tasks, t, row)
           b == Put(d.records, r, NewRecord(d, r, t, event, pricing))
           e == LinkedTo(d.responses, ids, t)
           g == LinkedTo(d.contexts, keys, t)
<1>1. u = [tasks |-> a, records |-> b, responses |-> e, contexts |-> g, briefs |-> d.briefs]
  <2>1. u = [d EXCEPT !.tasks = a, !.records = b, !.responses = e, !.contexts = g]
    BY DEF Written
  <2> HIDE DEF a, b, e, g
  <2> QED
    BY <2>1 DEF Fields
<1> HIDE DEF a, b, e, g
<1>2. /\ u.tasks = a /\ u.records = b /\ u.responses = e /\ u.contexts = g
      /\ u.briefs = d.briefs /\ Fields(u)
  BY <1>1 DEF Fields
<1> QED
  BY <1>2 DEF a, b, e, g

LEMMA WrittenParts ==
  ASSUME NEW d, NEW n, Typed(d, n), NEW r, NEW t, NEW row, NEW event, NEW pricing,
         NEW ids, NEW keys, NEW u, u = Written(d, r, t, row, event, pricing, ids, keys)
  PROVE  /\ DOMAIN u.tasks = DOMAIN d.tasks \cup {t} /\ u.tasks[t] = row
         /\ \A x \in DOMAIN d.tasks : x # t => u.tasks[x] = d.tasks[x]
         /\ DOMAIN u.records = DOMAIN d.records \cup {r}
         /\ u.records[r] = NewRecord(d, r, t, event, pricing) /\ u.records[r].task = t
         /\ u.records[r].event = event
         /\ \A q \in DOMAIN d.records : q # r => u.records[q] = d.records[q]
         /\ DOMAIN u.responses = DOMAIN d.responses \cup ids
         /\ \A x \in DOMAIN u.responses : u.responses[x] = IF x \in ids THEN t ELSE d.responses[x]
         /\ DOMAIN u.contexts = DOMAIN d.contexts \cup keys
         /\ \A x \in DOMAIN u.contexts : u.contexts[x] = IF x \in keys THEN t ELSE d.contexts[x]
         /\ u.briefs = d.briefs
<1>1. /\ u.tasks = Put(d.tasks, t, row)
      /\ u.records = Put(d.records, r, NewRecord(d, r, t, event, pricing))
      /\ u.responses = LinkedTo(d.responses, ids, t)
      /\ u.contexts = LinkedTo(d.contexts, keys, t)
      /\ u.briefs = d.briefs
  BY WrittenFields DEF Typed
<1>2. /\ DOMAIN u.tasks = DOMAIN d.tasks \cup {t} /\ u.tasks[t] = row
      /\ \A x \in DOMAIN d.tasks : x # t => u.tasks[x] = d.tasks[x]
  BY <1>1 DEF Put
<1>3. /\ DOMAIN u.records = DOMAIN d.records \cup {r}
      /\ u.records[r] = NewRecord(d, r, t, event, pricing)
      /\ \A q \in DOMAIN d.records : q # r => u.records[q] = d.records[q]
  BY <1>1 DEF Put
<1>4. u.records[r].task = t /\ u.records[r].event = event
  BY <1>3 DEF NewRecord
<1>5. /\ DOMAIN u.responses = DOMAIN d.responses \cup ids
      /\ \A x \in DOMAIN u.responses : u.responses[x] = IF x \in ids THEN t ELSE d.responses[x]
  BY <1>1 DEF LinkedTo
<1>6. /\ DOMAIN u.contexts = DOMAIN d.contexts \cup keys
      /\ \A x \in DOMAIN u.contexts : u.contexts[x] = IF x \in keys THEN t ELSE d.contexts[x]
  BY <1>1 DEF LinkedTo
<1> QED
  BY <1>1, <1>2, <1>3, <1>4, <1>5, <1>6

\* What makes a row of a request fit its task.
Fits(d, r, t, row, ids, keys) ==
  /\ row \in TaskRow
  /\ row.pending => ids = {} /\ keys = {}
  /\ row.pending => t \notin DOMAIN d.tasks \/ d.tasks[t].pending
  /\ row.count = Cardinality(RecordsOf(d, t)) + IF TaskOf(d, r) = t THEN 0 ELSE 1
  /\ row.pending => row.count = 1

LEMMA WrittenTyped ==
  ASSUME NEW d, NEW n, NEW m \in Nat, Typed(d, n), n <= m, NEW r \in Requests, NEW t \in Nat,
         t >= 1, t < m, NEW row, NEW event \in Events, NEW pricing \in Pricings,
         NEW ids, NoName \notin ids, NEW keys, Fits(d, r, t, row, ids, keys),
         NEW u, u = Written(d, r, t, row, event, pricing, ids, keys)
  PROVE  Typed(u, m)
<1>1. /\ DOMAIN u.tasks = DOMAIN d.tasks \cup {t} /\ u.tasks[t] = row
      /\ \A x \in DOMAIN d.tasks : x # t => u.tasks[x] = d.tasks[x]
      /\ DOMAIN u.records = DOMAIN d.records \cup {r}
      /\ u.records[r] = NewRecord(d, r, t, event, pricing) /\ u.records[r].task = t
      /\ \A q \in DOMAIN d.records : q # r => u.records[q] = d.records[q]
      /\ DOMAIN u.responses = DOMAIN d.responses \cup ids
      /\ \A x \in DOMAIN u.responses : u.responses[x] = IF x \in ids THEN t ELSE d.responses[x]
      /\ DOMAIN u.contexts = DOMAIN d.contexts \cup keys
      /\ \A x \in DOMAIN u.contexts : u.contexts[x] = IF x \in keys THEN t ELSE d.contexts[x]
      /\ u.briefs = d.briefs
  BY WrittenParts
<1>2. Fields(u)
  BY WrittenFields DEF Typed
<1>3. u.records[r] \in Record
  <2>1. SequenceFor(d, r, t) \in Nat
    BY SequenceIsNatural DEF NoTask
  <2>2. Price(d, r, pricing) \in Pricings
    BY DEF Price, Pricings
  <2> QED
    BY <2>1, <2>2, <1>1 DEF NewRecord, Record
<1>4. /\ DOMAIN u.tasks \subseteq 1 .. m - 1 /\ m >= 1
      /\ \A x \in DOMAIN u.tasks : u.tasks[x] \in TaskRow
  BY <1>1 DEF Typed, Fits
<1>5. \A q \in DOMAIN u.records : u.records[q] \in Record /\ u.records[q].task \in DOMAIN u.tasks
  BY <1>1, <1>3 DEF Typed
<1>6. LinksTyped(u, u.responses) /\ NoName \notin DOMAIN u.responses
  <2>1. ASSUME NEW x \in DOMAIN u.responses
        PROVE  u.responses[x] \in DOMAIN u.tasks /\ ~u.tasks[u.responses[x]].pending
    <3>1. CASE x \in ids
      BY <3>1, <1>1 DEF Fits
    <3>2. CASE x \notin ids
      <4>1. d.responses[x] \in DOMAIN d.tasks /\ ~d.tasks[d.responses[x]].pending
        BY <3>2, <1>1 DEF Typed, LinksTyped
      <4> QED
        BY <4>1, <3>2, <1>1 DEF Fits
    <3> QED
      BY <3>1, <3>2
  <2> QED
    BY <2>1, <1>1 DEF LinksTyped, Typed
<1>7. LinksTyped(u, u.contexts)
  <2>1. ASSUME NEW x \in DOMAIN u.contexts
        PROVE  u.contexts[x] \in DOMAIN u.tasks /\ ~u.tasks[u.contexts[x]].pending
    <3>1. CASE x \in keys
      BY <3>1, <1>1 DEF Fits
    <3>2. CASE x \notin keys
      <4>1. d.contexts[x] \in DOMAIN d.tasks /\ ~d.tasks[d.contexts[x]].pending
        BY <3>2, <1>1 DEF Typed, LinksTyped
      <4> QED
        BY <4>1, <3>2, <1>1 DEF Fits
    <3> QED
      BY <3>1, <3>2
  <2> QED
    BY <2>1 DEF LinksTyped
<1>8. DOMAIN u.records \subseteq Requests /\ DOMAIN u.briefs \subseteq DOMAIN u.tasks
      /\ \A x \in DOMAIN u.briefs : u.briefs[x] \in [source : Requests, done : BOOLEAN]
  BY <1>1 DEF Typed
<1> QED
  BY <1>2, <1>4, <1>5, <1>6, <1>7, <1>8 DEF Typed

LEMMA WrittenCounted ==
  ASSUME NEW d, NEW n, Typed(d, n), Counted(d, {}), NEW r \in Requests, NEW t \in Nat, t >= 1,
         NEW row, NEW event, NEW pricing, NEW ids, NEW keys, NEW T,
         Fits(d, r, t, row, ids, keys), TaskOf(d, r) \in {NoTask, t} \cup T,
         NEW u, u = Written(d, r, t, row, event, pricing, ids, keys)
  PROVE  Counted(u, T)
<1>1. /\ DOMAIN u.tasks = DOMAIN d.tasks \cup {t} /\ u.tasks[t] = row
      /\ \A x \in DOMAIN d.tasks : x # t => u.tasks[x] = d.tasks[x]
      /\ DOMAIN u.records = DOMAIN d.records \cup {r} /\ u.records[r].task = t
      /\ \A q \in DOMAIN d.records : q # r => u.records[q] = d.records[q]
  BY WrittenParts
<1>2. RecordsOf(u, t) = RecordsOf(d, t) \cup {r}
  BY <1>1 DEF RecordsOf
<1>3. r \in RecordsOf(d, t) <=> TaskOf(d, r) = t
  BY DEF RecordsOf, TaskOf, NoTask
<1>4. IsFiniteSet(RecordsOf(d, t)) /\ Cardinality(RecordsOf(d, t)) \in Nat
      /\ (Cardinality(RecordsOf(d, t)) = 0 <=> RecordsOf(d, t) = {})
  BY RecordsFinite DEF Typed
<1>5. row.count = Cardinality(RecordsOf(u, t)) /\ row.count >= 1
  <2> DEFINE S == RecordsOf(d, t)
  <2>1. Cardinality(S \cup {r}) = IF r \in S THEN Cardinality(S) ELSE Cardinality(S) + 1
    BY <1>4, FS_AddElement
  <2>2. row.count = Cardinality(S) + IF r \in S THEN 0 ELSE 1
    BY <1>3 DEF Fits
  <2>3. r \in S => Cardinality(S) # 0
    BY <1>4
  <2> HIDE DEF S
  <2>4. Cardinality(S) \in Nat
    BY <1>4 DEF S
  <2>5. Cardinality(RecordsOf(u, t)) = Cardinality(S \cup {r})
    BY <1>2 DEF S
  <2> QED
    BY <2>1, <2>2, <2>3, <2>4, <2>5
<1>6. ASSUME NEW x \in DOMAIN u.tasks \ T, x # t
      PROVE  x \in DOMAIN d.tasks /\ u.tasks[x] = d.tasks[x] /\ RecordsOf(u, x) = RecordsOf(d, x)
  <2>1. x \in DOMAIN d.tasks /\ x # NoTask
    BY <1>1, <1>6 DEF Typed, NoTask
  <2>2. r \notin RecordsOf(d, x) /\ r \notin RecordsOf(u, x)
    BY <2>1, <1>1, <1>6 DEF RecordsOf, TaskOf
  <2>3. RecordsOf(u, x) = RecordsOf(d, x)
    BY <2>2, <1>1 DEF RecordsOf
  <2> QED
    BY <2>1, <2>3, <1>1, <1>6
<1> QED
  BY <1>1, <1>5, <1>6 DEF Counted, Fits

LEMMA WrittenPhased ==
  ASSUME NEW d, NEW n, Typed(d, n), NEW ph, Phased(d, ph), NEW r \in Requests, NEW t,
         NEW row, NEW event, NEW pricing, NEW ids, NEW keys, Fits(d, r, t, row, ids, keys),
         NEW x, x # "new",
         event = "request_finished" => x \in {"answered", "refused"} /\ ~row.pending,
         NEW u, u = Written(d, r, t, row, event, pricing, ids, keys)
  PROVE  Phased(u, [ph EXCEPT ![r] = x])
<1> DEFINE new == [ph EXCEPT ![r] = x]
<1>1. /\ DOMAIN u.tasks = DOMAIN d.tasks \cup {t} /\ u.tasks[t] = row
      /\ \A y \in DOMAIN d.tasks : y # t => u.tasks[y] = d.tasks[y]
      /\ DOMAIN u.records = DOMAIN d.records \cup {r} /\ u.records[r].task = t
      /\ u.records[r].event = event
      /\ \A q \in DOMAIN d.records : q # r => u.records[q] = d.records[q]
  BY WrittenParts
<1>2. DOMAIN new = Requests /\ new[r] = x /\ \A q \in Requests : q # r => new[q] = ph[q]
  BY DEF Phased
<1> HIDE DEF new
<1>3. ASSUME NEW q \in DOMAIN u.records, q # r
      PROVE  /\ new[q] # "new"
             /\ u.records[q].event = "request_finished" =>
                  new[q] \in {"answered", "refused"} /\ ~u.tasks[u.records[q].task].pending
  <2>1. q \in DOMAIN d.records /\ u.records[q] = d.records[q] /\ new[q] = ph[q]
    BY <1>1, <1>2, <1>3 DEF Typed
  <2>2. d.records[q].task \in DOMAIN d.tasks
    BY <2>1 DEF Typed
  <2> QED
    BY <2>1, <2>2, <1>1 DEF Phased, Fits
<1>4. /\ new[r] # "new"
      /\ u.records[r].event = "request_finished" =>
           new[r] \in {"answered", "refused"} /\ ~u.tasks[u.records[r].task].pending
  BY <1>1, <1>2
<1>5. Phased(u, new)
  BY <1>2, <1>3, <1>4 DEF Phased
<1> QED
  BY <1>5 DEF new

LEMMA WrittenBriefed ==
  ASSUME NEW d, NEW n, Typed(d, n), NEW ph, Phased(d, ph), NEW js, Briefed(d, js, {}),
         JobsKnown(js, n), NEW r \in Requests, ph[r] \notin {"answered", "refused"},
         NEW t, t \in DOMAIN d.tasks \/ t = n,
         NEW row, NEW event, NEW pricing, NEW ids, NEW keys, NEW T,
         TaskOf(d, r) \in {NoTask, t} \cup T,
         NEW u, u = Written(d, r, t, row, event, pricing, ids, keys)
  PROVE  Briefed(u, js, T)
<1>1. /\ DOMAIN u.tasks = DOMAIN d.tasks \cup {t}
      /\ DOMAIN u.records = DOMAIN d.records \cup {r} /\ u.records[r].task = t
      /\ \A q \in DOMAIN d.records : q # r => u.records[q] = d.records[q]
      /\ u.briefs = d.briefs
  BY WrittenParts
<1>2. \A q, y : IsFinished(d, q, y) => q # r /\ q \in DOMAIN d.records /\ u.records[q] = d.records[q]
                                      /\ IsFinished(u, q, y)
  BY <1>1 DEF IsFinished, Phased
<1>3. \A y \in DOMAIN u.briefs : u.briefs[y].done => IsFinished(u, u.briefs[y].source, y)
  BY <1>1, <1>2 DEF Briefed
<1>4. ASSUME NEW j \in js, j.task \in DOMAIN u.tasks \ T
      PROVE  /\ j.source \in DOMAIN u.records /\ u.records[j.source].task = j.task
             /\ j.done => IsFinished(u, j.source, j.task)
             /\ j.task \in DOMAIN u.briefs /\ u.briefs[j.task].done =>
                  /\ j.done
                  /\ u.records[j.source].sequence >= u.records[u.briefs[j.task].source].sequence
  <2>1. j.task \in DOMAIN d.tasks
    <3>1. j.task < n /\ n \in Nat /\ j.task \in Nat
      BY DEF JobsKnown, Typed, Briefed, Job
    <3> QED
      BY <3>1, <1>1, <1>4
  <2>2. /\ j.source \in DOMAIN d.records /\ d.records[j.source].task = j.task
        /\ j.done => IsFinished(d, j.source, j.task)
        /\ j.task \in DOMAIN d.briefs /\ d.briefs[j.task].done =>
             /\ j.done
             /\ d.records[j.source].sequence >= d.records[d.briefs[j.task].source].sequence
    BY <2>1 DEF Briefed
  <2>3. u.records[j.source].task = j.task
    <3>1. CASE j.source = r
      <4>1. TaskOf(d, r) = j.task /\ j.task # NoTask
        BY <3>1, <2>1, <2>2 DEF TaskOf, Typed, NoTask
      <4> QED
        BY <4>1, <3>1, <1>1, <1>4
    <3>2. CASE j.source # r
      BY <3>2, <2>2, <1>1
    <3> QED
      BY <3>1, <3>2
  <2>4. j.task \in DOMAIN u.briefs /\ u.briefs[j.task].done =>
          /\ j.done
          /\ u.records[j.source].sequence >= u.records[u.briefs[j.task].source].sequence
    <3> HAVE j.task \in DOMAIN u.briefs /\ u.briefs[j.task].done
    <3>1. IsFinished(d, d.briefs[j.task].source, j.task) /\ IsFinished(d, j.source, j.task)
          /\ j.done
      BY <2>2, <1>1 DEF Briefed
    <3> QED
      BY <3>1, <2>2, <1>1, <1>2
  <2> QED
    BY <2>2, <2>3, <2>4, <1>1, <1>2
<1>5. js \subseteq Job /\ \A i, j \in js : i.task = j.task => i = j
  BY DEF Briefed
<1> QED
  BY <1>3, <1>4, <1>5 DEF Briefed

-----------------------------------------------------------------------------
\* Which task a request joins

LEMMA LinkedFits ==
  ASSUME NEW d, NEW n, Typed(d, n), NEW links, LinksTyped(d, links), NEW x, NEW s,
         Linked(d, links, x, s) # NoTask
  PROVE  /\ x \in DOMAIN links /\ Linked(d, links, x, s) = links[x]
         /\ links[x] \in DOMAIN d.tasks /\ ~d.tasks[links[x]].pending
         /\ BoundariesMatch(d.tasks[links[x]], s)
BY DEF Linked, LinksTyped

LEMMA FirstHit ==
  ASSUME NEW d, NEW n, Typed(d, n), NEW r \in Requests,
         TaskForContextKeys(d, Shape[r]) # NoTask
  PROVE  \E i \in DOMAIN Shape[r].keys :
           /\ Linked(d, d.contexts, Shape[r].keys[i], Shape[r]) # NoTask
           /\ TaskForContextKeys(d, Shape[r]) = d.contexts[Shape[r].keys[i]]
<1> DEFINE hits == {i \in DOMAIN Shape[r].keys :
                      Linked(d, d.contexts, Shape[r].keys[i], Shape[r]) # NoTask}
<1>1. hits # {} /\ TaskForContextKeys(d, Shape[r]) = d.contexts[Shape[r].keys[Min(hits)]]
  BY DEF TaskForContextKeys
<1>2. hits \in SUBSET Nat
  BY ShapeAssumption DEF ShapeOf
<1>3. Min(hits) \in hits
  <2> HIDE DEF hits
  <2>1. \E x \in hits : \A y \in hits : x <= y
    BY <1>1, <1>2, LeastNatural
  <2> QED
    BY <2>1 DEF Min
<1> QED
  BY <1>1, <1>3

LEMMA ContinuationFits ==
  ASSUME NEW d, NEW n, Typed(d, n), NEW r \in Requests,
         NEW match \in Continuations(d, Shape[r]), match # NoTask
  PROVE  /\ match \in DOMAIN d.tasks /\ ~d.tasks[match].pending
         /\ BoundariesMatch(d.tasks[match], Shape[r])
<1> DEFINE s == Shape[r]
<1>0. LinksTyped(d, d.responses) /\ LinksTyped(d, d.contexts)
  BY DEF Typed
<1>1. CASE TaskForPreviousResponse(d, s) # NoTask
  <2>1. match = Linked(d, d.responses, s.names, s)
    BY <1>1 DEF Continuations, TaskForPreviousResponse
  <2> HIDE DEF s
  <2>2. /\ s.names \in DOMAIN d.responses
        /\ Linked(d, d.responses, s.names, s) = d.responses[s.names]
        /\ d.responses[s.names] \in DOMAIN d.tasks
        /\ ~d.tasks[d.responses[s.names]].pending
        /\ BoundariesMatch(d.tasks[d.responses[s.names]], s)
    BY <1>0, <2>1, LinkedFits
  <2> QED
    BY <2>1, <2>2 DEF s
<1>2. CASE TaskForPreviousResponse(d, s) = NoTask /\ TaskForContextKeys(d, s) # NoTask
  <2>1. match = TaskForContextKeys(d, s)
    BY <1>2 DEF Continuations
  <2>2. PICK i \in DOMAIN s.keys : /\ Linked(d, d.contexts, s.keys[i], s) # NoTask
                                   /\ TaskForContextKeys(d, s) = d.contexts[s.keys[i]]
    BY <1>2, FirstHit
  <2> HIDE DEF s
  <2> DEFINE x == s.keys[i]
  <2>3. /\ x \in DOMAIN d.contexts /\ d.contexts[x] \in DOMAIN d.tasks
        /\ ~d.tasks[d.contexts[x]].pending
        /\ BoundariesMatch(d.tasks[d.contexts[x]], s)
    BY <1>0, <2>2, LinkedFits
  <2> QED
    BY <2>1, <2>2, <2>3 DEF s
<1>3. CASE TaskForPreviousResponse(d, s) = NoTask /\ TaskForContextKeys(d, s) = NoTask
  <2>1. match \in HeuristicTasks(d, s)
    BY <1>3 DEF Continuations
  <2> QED
    BY <2>1 DEF HeuristicTasks
<1> QED
  BY <1>1, <1>2, <1>3

\* A key that ties requests decides, once one of them is in a task.
LEMMA TieDecides ==
  ASSUME NEW d, NEW n, Typed(d, n), NEW r \in Requests, NEW k \in KeysOf(r), TiesByKey(k),
         k \in DOMAIN d.contexts, NEW q \in Requests, k \in KeysOf(q),
         BoundariesMatch(d.tasks[d.contexts[k]], Shape[q])
  PROVE  Continuations(d, Shape[r]) = {d.contexts[k]}
<1> DEFINE s == Shape[r]
           hits == {i \in DOMAIN s.keys : Linked(d, d.contexts, s.keys[i], s) # NoTask}
           t == d.contexts[k]
<1>1. /\ BoundariesMatch(Shape[r], Shape[q]) /\ s.names = NoName /\ Head(s.keys) = k
  BY DEF TiesByKey
<1>2. s.keys \in Seq(STRING) /\ s.keys # <<>>
  <2>1. s.keys \in Seq(STRING)
    BY ShapeAssumption DEF ShapeOf
  <2> QED
    BY <2>1 DEF KeysOf, Range
<1>3. 1 \in DOMAIN s.keys /\ s.keys[1] = k /\ DOMAIN s.keys \subseteq Nat \ {0}
  BY <1>1, <1>2
<1>4. t \in DOMAIN d.tasks /\ t # NoTask
  BY DEF Typed, LinksTyped, NoTask
<1>5. Linked(d, d.contexts, k, s) = t
  BY <1>1 DEF Linked, BoundariesMatch
<1>6. TaskForPreviousResponse(d, s) = NoTask
  BY <1>1 DEF TaskForPreviousResponse, Linked, Typed
<1>7. 1 \in hits /\ hits \subseteq Nat \ {0}
  BY <1>3, <1>4, <1>5
<1>8. Min(hits) = 1
  <2> HIDE DEF hits
  <2>1. \A x \in hits : 1 <= x
    BY <1>7
  <2>2. \A x \in hits : (\A y \in hits : x <= y) => x = 1
    BY <1>7
  <2> QED
    BY <1>7, <2>1, <2>2 DEF Min
<1>9. TaskForContextKeys(d, s) = t
  <2>1. TaskForContextKeys(d, s) = IF hits = {} THEN NoTask ELSE d.contexts[s.keys[Min(hits)]]
    BY DEF TaskForContextKeys
  <2> HIDE DEF hits
  <2> QED
    BY <2>1, <1>3, <1>7, <1>8
<1> QED
  BY <1>4, <1>6, <1>9 DEF Continuations

\* The task a request is saved in: the one matched, else its own, else a new one.
TaskSaved(d, r, n, match) ==
  IF match # NoTask THEN match ELSE IF TaskOf(d, r) # NoTask THEN TaskOf(d, r) ELSE n

LEMMA OwnTask ==
  ASSUME NEW d, NEW n, Typed(d, n), NEW r, TaskOf(d, r) # NoTask
  PROVE  r \in DOMAIN d.records /\ TaskOf(d, r) = d.records[r].task /\ TaskOf(d, r) \in DOMAIN d.tasks
BY DEF TaskOf, Typed

LEMMA SavedFits ==
  ASSUME NEW d, NEW n, Typed(d, n), Together(d), NEW r \in Requests,
         NEW match \in Matches(d, r), NEW t, t = TaskSaved(d, r, n, match)
  PROVE  /\ t \in DOMAIN d.tasks \/ t = n
         /\ t \in Nat /\ t >= 1
         /\ t \in DOMAIN d.tasks /\ ~d.tasks[t].pending => BoundariesMatch(d.tasks[t], Shape[r])
         /\ t \in DOMAIN d.tasks /\ d.tasks[t].pending => t = TaskOf(d, r)
         /\ TaskOf(d, r) \in {NoTask, t} \cup Superseded(d, r, match)
         /\ TaskOf(d, r) # NoTask /\ ~IsPending(d, TaskOf(d, r)) => t = TaskOf(d, r)
<1> DEFINE own == TaskOf(d, r)
<1>0. own # NoTask => r \in DOMAIN d.records /\ own = d.records[r].task /\ own \in DOMAIN d.tasks
  BY OwnTask
<1>1. CASE own # NoTask /\ ~IsPending(d, own)
  <2>1. match = own /\ t = own
    BY <1>1 DEF Matches, TaskSaved
  <2>2. ~d.tasks[own].pending
    BY <1>1 DEF IsPending
  <2>3. BoundariesMatch(d.tasks[own], Shape[r])
    BY <2>2, <1>0, <1>1 DEF Together
  <2> QED
    BY <2>1, <2>2, <2>3, <1>0, <1>1 DEF Typed
<1>2. CASE ~(own # NoTask /\ ~IsPending(d, own)) /\ match # NoTask
  <2>1. match \in Continuations(d, Shape[r]) /\ t = match
    BY <1>2 DEF Matches, TaskSaved
  <2>2. t \in DOMAIN d.tasks /\ ~d.tasks[t].pending /\ BoundariesMatch(d.tasks[t], Shape[r])
    BY <2>1, <1>2, ContinuationFits
  <2>3. own \in {NoTask, t} \cup Superseded(d, r, match)
    BY <1>2 DEF Superseded
  <2> QED
    BY <2>2, <2>3, <1>2 DEF Typed
<1>3. CASE ~(own # NoTask /\ ~IsPending(d, own)) /\ match = NoTask
  <2>1. t = IF own # NoTask THEN own ELSE n
    BY <1>3 DEF TaskSaved
  <2>2. own # NoTask => d.tasks[own].pending
    BY <1>3 DEF IsPending
  <2>3. n \in Nat /\ n >= 1 /\ DOMAIN d.tasks \subseteq 1 .. n - 1
    BY DEF Typed
  <2>4. n \notin DOMAIN d.tasks
    BY <2>3
  <2>5. CASE own # NoTask
    BY <2>1, <2>2, <2>3, <2>5, <1>0, <1>3
  <2>6. CASE own = NoTask
    BY <2>1, <2>3, <2>4, <2>6, <1>3
  <2> QED
    BY <2>5, <2>6
<1> QED
  BY <1>1, <1>2, <1>3

\* Requests stay together when one of them is saved.
LEMMA WrittenTogether ==
  ASSUME NEW d, NEW n, Typed(d, n), Counted(d, {}), Together(d), NEW r \in Requests,
         NEW match \in Matches(d, r), NEW t, t = TaskSaved(d, r, n, match),
         NEW row, row.kind = Shape[r].kind, row.boundary = Shape[r].boundary,
         NEW event, NEW pricing, NEW ids,
         NEW u, u = Written(d, r, t, row, event, pricing, ids, ContextKeys(r))
  PROVE  Together(u)
<1>1. /\ DOMAIN u.tasks = DOMAIN d.tasks \cup {t} /\ u.tasks[t] = row
      /\ \A y \in DOMAIN d.tasks : y # t => u.tasks[y] = d.tasks[y]
      /\ DOMAIN u.records = DOMAIN d.records \cup {r} /\ u.records[r].task = t
      /\ \A q \in DOMAIN d.records : q # r => u.records[q] = d.records[q]
      /\ DOMAIN u.contexts = DOMAIN d.contexts \cup ContextKeys(r)
      /\ \A x \in DOMAIN u.contexts :
           u.contexts[x] = IF x \in ContextKeys(r) THEN t ELSE d.contexts[x]
  BY WrittenParts
<1>2. /\ t \in DOMAIN d.tasks \/ t = n
      /\ t \in DOMAIN d.tasks /\ ~d.tasks[t].pending => BoundariesMatch(d.tasks[t], Shape[r])
      /\ t \in DOMAIN d.tasks /\ d.tasks[t].pending => t = TaskOf(d, r)
      /\ TaskOf(d, r) # NoTask /\ ~IsPending(d, TaskOf(d, r)) => t = TaskOf(d, r)
      /\ t # NoTask
  BY SavedFits DEF NoTask
<1>3. KeysOf(r) = ContextKeys(r)
  BY DEF KeysOf, ContextKeys
<1>4. ASSUME NEW q \in DOMAIN d.records, q # r
      PROVE  LET y == d.records[q].task IN
             /\ y = t => y \in DOMAIN d.tasks /\ ~d.tasks[y].pending
             /\ ~u.tasks[y].pending => ~d.tasks[y].pending
  <2> DEFINE y == d.records[q].task
  <2>1. y \in DOMAIN d.tasks /\ y # NoTask
    BY DEF Typed, NoTask
  <2>2. ASSUME y = t, d.tasks[y].pending
        PROVE  FALSE
    <3>1. TaskOf(d, r) = t /\ r \in DOMAIN d.records /\ d.records[r].task = t
      BY <1>2, <2>1, <2>2, OwnTask
    <3>2. q \in RecordsOf(d, t) /\ r \in RecordsOf(d, t)
      BY <3>1, <2>2 DEF RecordsOf
    <3>3. Cardinality(RecordsOf(d, t)) = 1
      BY <2>1, <2>2 DEF Counted
    <3>4. \E x : RecordsOf(d, t) = {x}
      BY <3>3, RecordsFinite, FS_Singleton DEF Typed
    <3> QED
      BY <3>2, <3>4, <1>4
  <2>3. y # t => u.tasks[y] = d.tasks[y]
    BY <2>1, <1>1
  <2> QED
    BY <2>1, <2>2, <2>3
<1>5. ASSUME NEW q \in DOMAIN u.records, ~u.tasks[u.records[q].task].pending
      PROVE  BoundariesMatch(u.tasks[u.records[q].task], Shape[q])
  <2>1. CASE q = r
    BY <2>1, <1>1 DEF BoundariesMatch
  <2>2. CASE q # r
    <3>1. q \in DOMAIN d.records /\ u.records[q] = d.records[q]
      BY <2>2, <1>1
    <3> DEFINE y == d.records[q].task
    <3>2. y \in DOMAIN d.tasks /\ ~d.tasks[y].pending /\ (y = t => ~d.tasks[t].pending)
      BY <3>1, <2>2, <1>4, <1>5 DEF Typed
    <3>3. BoundariesMatch(d.tasks[y], Shape[q])
      BY <3>1, <3>2 DEF Together
    <3>4. CASE y # t
      BY <3>1, <3>2, <3>3, <3>4, <1>1
    <3>5. CASE y = t
      <4>1. BoundariesMatch(d.tasks[t], Shape[r])
        BY <3>2, <3>5, <1>2
      <4> QED
        BY <4>1, <3>1, <3>3, <3>5, <1>1 DEF BoundariesMatch
    <3> QED
      BY <3>4, <3>5
  <2> QED
    BY <2>1, <2>2
<1>6. ASSUME NEW q \in DOMAIN u.records, ~u.tasks[u.records[q].task].pending,
             NEW k \in KeysOf(q), TiesByKey(k)
      PROVE  k \in DOMAIN u.contexts /\ u.contexts[k] = u.records[q].task
  <2>1. CASE q = r
    BY <2>1, <1>1, <1>3, <1>6
  <2>2. CASE q # r
    <3>1. q \in DOMAIN d.records /\ u.records[q] = d.records[q] /\ q \in Requests
      BY <2>2, <1>1 DEF Typed
    <3> DEFINE y == d.records[q].task
    <3>2. y \in DOMAIN d.tasks /\ ~d.tasks[y].pending
      BY <3>1, <2>2, <1>4, <1>6 DEF Typed
    <3>3. BoundariesMatch(d.tasks[y], Shape[q]) /\ k \in DOMAIN d.contexts /\ d.contexts[k] = y
      BY <3>1, <3>2, <1>6 DEF Together
    <3>4. CASE k \notin ContextKeys(r)
      BY <3>1, <3>3, <3>4, <1>1
    <3>5. CASE k \in ContextKeys(r)
      <4>1. CASE TaskOf(d, r) # NoTask /\ ~IsPending(d, TaskOf(d, r))
        <5>1. r \in DOMAIN d.records /\ d.records[r].task = t /\ ~d.tasks[t].pending
          BY <4>1, <1>2, OwnTask DEF IsPending
        <5>2. d.contexts[k] = t
          BY <5>1, <3>5, <1>3, <1>6 DEF Together
        <5> QED
          BY <5>2, <3>1, <3>3, <3>5, <1>1
      <4>2. CASE ~(TaskOf(d, r) # NoTask /\ ~IsPending(d, TaskOf(d, r)))
        <5>1. match \in Continuations(d, Shape[r])
          BY <4>2 DEF Matches
        <5>2. Continuations(d, Shape[r]) = {d.contexts[k]}
          BY <3>1, <3>3, <3>5, <1>3, <1>6, TieDecides
        <5>3. match = y /\ y # NoTask
          BY <5>1, <5>2, <3>2, <3>3 DEF Typed, NoTask
        <5>4. t = y
          BY <5>3 DEF TaskSaved
        <5> QED
          BY <5>4, <3>1, <3>3, <3>5, <1>1
      <4> QED
        BY <4>1, <4>2
    <3> QED
      BY <3>4, <3>5
  <2> QED
    BY <2>1, <2>2
<1> QED
  BY <1>5, <1>6 DEF Together

-----------------------------------------------------------------------------
\* What goes, and what an opening service does

LEMMA RemovedParts ==
  ASSUME NEW d, NEW T, NEW u, u = RemoveTasks(d, T)
  PROVE  /\ Fields(u)
         /\ DOMAIN u.tasks = DOMAIN d.tasks \ T
         /\ \A t \in DOMAIN u.tasks : u.tasks[t] = d.tasks[t]
         /\ \A r : r \in DOMAIN u.records <=> r \in DOMAIN d.records /\ d.records[r].task \notin T
         /\ \A r \in DOMAIN u.records : u.records[r] = d.records[r]
         /\ \A x : x \in DOMAIN u.responses <=> x \in DOMAIN d.responses /\ d.responses[x] \notin T
         /\ \A x \in DOMAIN u.responses : u.responses[x] = d.responses[x]
         /\ \A x : x \in DOMAIN u.contexts <=> x \in DOMAIN d.contexts /\ d.contexts[x] \notin T
         /\ \A x \in DOMAIN u.contexts : u.contexts[x] = d.contexts[x]
         /\ DOMAIN u.briefs = DOMAIN d.briefs \ T
         /\ \A t \in DOMAIN u.briefs : u.briefs[t] = d.briefs[t]
<1> DEFINE gone == {r \in DOMAIN d.records : d.records[r].task \in T}
           left(f) == Without(f, {x \in DOMAIN f : f[x] \in T})
<1>1. u = [tasks |-> Without(d.tasks, T), records |-> Without(d.records, gone),
           responses |-> left(d.responses), contexts |-> left(d.contexts),
           briefs |-> Without(d.briefs, T)]
  BY DEF RemoveTasks
<1>2. /\ u.tasks = Without(d.tasks, T) /\ u.records = Without(d.records, gone)
      /\ u.responses = left(d.responses) /\ u.contexts = left(d.contexts)
      /\ u.briefs = Without(d.briefs, T)
  <2> HIDE DEF gone, left
  <2> QED
    BY <1>1
<1>3. Fields(u)
  <2> HIDE DEF gone, left
  <2> QED
    BY <1>1, <1>2 DEF Fields
<1>4. /\ DOMAIN u.tasks = DOMAIN d.tasks \ T
      /\ \A t \in DOMAIN u.tasks : u.tasks[t] = d.tasks[t]
  BY <1>2 DEF Without
<1>5. /\ \A r : r \in DOMAIN u.records <=> r \in DOMAIN d.records /\ d.records[r].task \notin T
      /\ \A r \in DOMAIN u.records : u.records[r] = d.records[r]
  BY <1>2 DEF Without
<1>6. /\ \A x : x \in DOMAIN u.responses <=> x \in DOMAIN d.responses /\ d.responses[x] \notin T
      /\ \A x \in DOMAIN u.responses : u.responses[x] = d.responses[x]
  BY <1>2 DEF Without
<1>7. /\ \A x : x \in DOMAIN u.contexts <=> x \in DOMAIN d.contexts /\ d.contexts[x] \notin T
      /\ \A x \in DOMAIN u.contexts : u.contexts[x] = d.contexts[x]
  BY <1>2 DEF Without
<1>8. /\ DOMAIN u.briefs = DOMAIN d.briefs \ T
      /\ \A t \in DOMAIN u.briefs : u.briefs[t] = d.briefs[t]
  BY <1>2 DEF Without
<1> QED
  BY <1>3, <1>4, <1>5, <1>6, <1>7, <1>8

\* A task goes with everything of it, and nothing else.
LEMMA RemovedKeeps ==
  ASSUME NEW d, NEW n, NEW T, NEW ph, NEW js, Typed(d, n), Counted(d, T), Phased(d, ph),
         Together(d), Briefed(d, js, T), NEW u, u = RemoveTasks(d, T)
  PROVE  /\ Typed(u, n) /\ Counted(u, {}) /\ Phased(u, ph) /\ Together(u)
         /\ Briefed(u, js, {})
<1>1. /\ DOMAIN u.tasks = DOMAIN d.tasks \ T
      /\ \A t \in DOMAIN u.tasks : u.tasks[t] = d.tasks[t]
      /\ \A r : r \in DOMAIN u.records <=> r \in DOMAIN d.records /\ d.records[r].task \notin T
      /\ \A r \in DOMAIN u.records : u.records[r] = d.records[r]
      /\ \A x : x \in DOMAIN u.responses <=> x \in DOMAIN d.responses /\ d.responses[x] \notin T
      /\ \A x \in DOMAIN u.responses : u.responses[x] = d.responses[x]
      /\ \A x : x \in DOMAIN u.contexts <=> x \in DOMAIN d.contexts /\ d.contexts[x] \notin T
      /\ \A x \in DOMAIN u.contexts : u.contexts[x] = d.contexts[x]
      /\ DOMAIN u.briefs = DOMAIN d.briefs \ T
      /\ \A t \in DOMAIN u.briefs : u.briefs[t] = d.briefs[t]
      /\ Fields(u)
  BY RemovedParts
<1>2. Typed(u, n)
  <2>1. /\ DOMAIN u.tasks \subseteq 1 .. n - 1 /\ \A t \in DOMAIN u.tasks : u.tasks[t] \in TaskRow
        /\ n \in Nat /\ n >= 1
    BY <1>1 DEF Typed
  <2>2. /\ DOMAIN u.records \subseteq Requests
        /\ \A r \in DOMAIN u.records : u.records[r] \in Record /\ u.records[r].task \in DOMAIN u.tasks
    BY <1>1 DEF Typed
  <2>3. LinksTyped(u, u.responses) /\ NoName \notin DOMAIN u.responses
    BY <1>1 DEF Typed, LinksTyped
  <2>4. LinksTyped(u, u.contexts)
    BY <1>1 DEF Typed, LinksTyped
  <2>5. /\ DOMAIN u.briefs \subseteq DOMAIN u.tasks
        /\ \A t \in DOMAIN u.briefs : u.briefs[t] \in [source : Requests, done : BOOLEAN]
    BY <1>1 DEF Typed
  <2> QED
    BY <2>1, <2>2, <2>3, <2>4, <2>5, <1>1 DEF Typed
<1>3. Counted(u, {})
  <2>1. \A t \in DOMAIN u.tasks : RecordsOf(u, t) = RecordsOf(d, t)
    BY <1>1 DEF RecordsOf
  <2> QED
    BY <2>1, <1>1 DEF Counted
<1>4. Phased(u, ph)
  <2>1. \A r \in DOMAIN u.records : u.records[r].task \in DOMAIN u.tasks
    BY <1>2 DEF Typed
  <2> QED
    BY <2>1, <1>1 DEF Phased
<1>5. Together(u)
  <2>1. \A r \in DOMAIN u.records : u.records[r].task \in DOMAIN u.tasks
    BY <1>2 DEF Typed
  <2> QED
    BY <2>1, <1>1 DEF Together
<1>6. Briefed(u, js, {})
  <2>1. \A r, t : IsFinished(d, r, t) /\ t \notin T => IsFinished(u, r, t) /\ u.records[r] = d.records[r]
    BY <1>1 DEF IsFinished
  <2>2. \A t \in DOMAIN u.briefs : u.briefs[t].done => IsFinished(u, u.briefs[t].source, t)
    BY <2>1, <1>1 DEF Briefed
  <2>3. ASSUME NEW j \in js, j.task \in DOMAIN u.tasks
        PROVE  /\ j.source \in DOMAIN u.records /\ u.records[j.source].task = j.task
               /\ j.done => IsFinished(u, j.source, j.task)
               /\ j.task \in DOMAIN u.briefs /\ u.briefs[j.task].done =>
                    /\ j.done
                    /\ u.records[j.source].sequence >= u.records[u.briefs[j.task].source].sequence
    <3>1. /\ j.source \in DOMAIN d.records /\ d.records[j.source].task = j.task
          /\ j.done => IsFinished(d, j.source, j.task)
          /\ j.task \in DOMAIN d.briefs /\ d.briefs[j.task].done =>
               /\ j.done
               /\ d.records[j.source].sequence >= d.records[d.briefs[j.task].source].sequence
      BY <2>3, <1>1 DEF Briefed
    <3>2. j.source \in DOMAIN u.records /\ u.records[j.source] = d.records[j.source]
      BY <3>1, <2>3, <1>1
    <3>3. j.task \in DOMAIN u.briefs /\ u.briefs[j.task].done =>
            u.records[u.briefs[j.task].source] = d.records[d.briefs[j.task].source]
      BY <2>1, <2>3, <1>1 DEF Briefed
    <3> QED
      BY <3>1, <3>2, <3>3, <2>1, <2>3, <1>1
  <2>4. js \subseteq Job /\ \A i, j \in js : i.task = j.task => i = j
    BY DEF Briefed
  <2> QED
    BY <2>2, <2>3, <2>4 DEF Briefed
<1> QED
  BY <1>2, <1>3, <1>4, <1>5, <1>6

LEMMA RecordsReplaced ==
  ASSUME NEW d, Fields(d), NEW recs, NEW u, u = [d EXCEPT !.records = recs]
  PROVE  /\ u.tasks = d.tasks /\ u.records = recs /\ u.responses = d.responses
         /\ u.contexts = d.contexts /\ u.briefs = d.briefs /\ Fields(u)
<1>1. u = [tasks |-> d.tasks, records |-> recs, responses |-> d.responses,
           contexts |-> d.contexts, briefs |-> d.briefs]
  BY DEF Fields
<1> QED
  BY <1>1 DEF Fields

\* Records that were being priced when their service went are not priced any more.
LEMMA RepricedKeeps ==
  ASSUME NEW d, NEW n, NEW ph, NEW js, Typed(d, n), Counted(d, {}), Phased(d, ph),
         Together(d), Briefed(d, js, {}), NEW u,
         u = [d EXCEPT !.records =
               [r \in DOMAIN @ |-> IF @[r].pricing = "pending"
                                   THEN [@[r] EXCEPT !.pricing = "unpriced"] ELSE @[r]]]
  PROVE  /\ Typed(u, n) /\ Counted(u, {}) /\ Phased(u, ph) /\ Together(u)
         /\ Briefed(u, js, {})
         /\ DOMAIN u.records = DOMAIN d.records
         /\ \A r \in DOMAIN d.records : u.records[r].task = d.records[r].task
         /\ u.tasks = d.tasks /\ u.briefs = d.briefs
<1> DEFINE recs == [r \in DOMAIN d.records |->
                      IF d.records[r].pricing = "pending"
                      THEN [d.records[r] EXCEPT !.pricing = "unpriced"] ELSE d.records[r]]
<1>2. /\ u.tasks = d.tasks /\ u.records = recs /\ u.responses = d.responses
      /\ u.contexts = d.contexts /\ u.briefs = d.briefs /\ Fields(u)
  <2>1. Fields(d)
    BY DEF Typed
  <2>2. u = [d EXCEPT !.records = recs]
    OBVIOUS
  <2> HIDE DEF recs
  <2> QED
    BY <2>1, <2>2, RecordsReplaced
<1>3. DOMAIN u.records = DOMAIN d.records
  BY <1>2
<1>4. ASSUME NEW r \in DOMAIN d.records
      PROVE  /\ u.records[r] \in Record /\ u.records[r].task = d.records[r].task
             /\ u.records[r].sequence = d.records[r].sequence
             /\ u.records[r].event = d.records[r].event
  <2>1. d.records[r] \in Record
    BY DEF Typed
  <2>2. CASE u.records[r] = d.records[r]
    BY <2>1, <2>2
  <2>3. CASE u.records[r] = [d.records[r] EXCEPT !.pricing = "unpriced"]
    BY <2>1, <2>3 DEF Record, Pricings
  <2> QED
    BY <2>2, <2>3, <1>2
<1> HIDE DEF recs
<1>5. Typed(u, n)
  BY <1>2, <1>3, <1>4 DEF Typed, LinksTyped
<1>6. Counted(u, {})
  <2>1. \A t : RecordsOf(u, t) = RecordsOf(d, t)
    BY <1>3, <1>4 DEF RecordsOf
  <2> QED
    BY <2>1, <1>2 DEF Counted
<1>7. Phased(u, ph) /\ Together(u)
  <2>1. Phased(u, ph)
    BY <1>2, <1>3, <1>4 DEF Phased
  <2>2. Together(u)
    BY <1>2, <1>3, <1>4 DEF Together
  <2> QED
    BY <2>1, <2>2
<1>8. Briefed(u, js, {})
  <2>1. \A r, t : IsFinished(u, r, t) <=> IsFinished(d, r, t)
    BY <1>3, <1>4 DEF IsFinished
  <2>2. \A t \in DOMAIN d.briefs : d.briefs[t].done => d.briefs[t].source \in DOMAIN d.records
    BY DEF Briefed, IsFinished
  <2> QED
    BY <2>1, <2>2, <1>2, <1>3, <1>4 DEF Briefed
<1> QED
  BY <1>2, <1>3, <1>4, <1>5, <1>6, <1>7, <1>8

-----------------------------------------------------------------------------
\* One event of a request

LEMMA BriefsThatStay ==
  ASSUME NEW d, NEW n, NEW js, Typed(d, n), Briefed(d, js, {}), NEW u,
         \A t \in DOMAIN d.briefs \cap DOMAIN u.briefs : u.briefs[t] = d.briefs[t]
  PROVE  BriefsGoOn(d, u)
<1> SUFFICES ASSUME NEW t \in DOMAIN d.briefs \cap DOMAIN u.briefs, d.briefs[t].done
             PROVE  d.records[u.briefs[t].source].sequence >= d.records[d.briefs[t].source].sequence
  BY DEF BriefsGoOn
<1>1. d.briefs[t].source \in DOMAIN d.records
  BY DEF Briefed, IsFinished
<1>2. d.records[d.briefs[t].source] \in Record
  BY <1>1 DEF Typed
<1>3. d.records[d.briefs[t].source].sequence \in Nat
  BY <1>2 DEF Record
<1> QED
  BY <1>3

\* What a row of a request, and what is written with it, must be for the log to stay sound.
MayBeWritten(d, n, m, ph, r, t, row, event, pricing, ids, keys, T, new) ==
  /\ r \in Requests /\ ph[r] \notin {"answered", "refused"}
  /\ t \in Nat /\ t >= 1 /\ (t \in DOMAIN d.tasks \/ t = n)
  /\ m \in Nat /\ n <= m /\ t < m
  /\ event \in Events /\ pricing \in Pricings /\ NoName \notin ids
  /\ Fits(d, r, t, row, ids, keys) /\ TaskOf(d, r) \in {NoTask, t} \cup T
  /\ \E x : /\ new = [ph EXCEPT ![r] = x] /\ x # "new"
            /\ event = "request_finished" => x \in {"answered", "refused"} /\ ~row.pending
  /\ Together(Written(d, r, t, row, event, pricing, ids, keys))

Wrote(d, u, m, new, js, r, t) ==
  /\ Sound(u, m, new, js) /\ BriefsGoOn(d, u)
  /\ \A q \in DOMAIN u.records : q # r => q \in DOMAIN d.records /\ u.records[q] = d.records[q]
  /\ r \in DOMAIN u.records => u.records[r].task = t

\* A write and its removals, of a row that fits.
LEMMA WriteKeeps ==
  ASSUME NEW d, NEW n, NEW m, NEW ph, NEW js, NEW r, NEW t, NEW row, NEW event, NEW pricing,
         NEW ids, NEW keys, NEW T, NEW new, Sound(d, n, ph, js),
         MayBeWritten(d, n, m, ph, r, t, row, event, pricing, ids, keys, T, new),
         NEW u, u = WriteTraffic(d, r, t, row, event, pricing, ids, keys, T)
  PROVE  Wrote(d, u, m, new, js, r, t)
<1> DEFINE w == Written(d, r, t, row, event, pricing, ids, keys)
<1>0. /\ Typed(d, n) /\ Counted(d, {}) /\ Phased(d, ph) /\ Together(d)
      /\ Briefed(d, js, {}) /\ JobsKnown(js, n)
  BY DEF Sound
<1>a. /\ r \in Requests /\ ph[r] \notin {"answered", "refused"}
      /\ t \in Nat /\ t >= 1 /\ (t \in DOMAIN d.tasks \/ t = n)
      /\ m \in Nat /\ n <= m /\ t < m
      /\ event \in Events /\ pricing \in Pricings /\ NoName \notin ids
      /\ Fits(d, r, t, row, ids, keys) /\ TaskOf(d, r) \in {NoTask, t} \cup T
      /\ Together(w)
  BY DEF MayBeWritten
<1>b. PICK x : /\ new = [ph EXCEPT ![r] = x] /\ x # "new"
               /\ event = "request_finished" => x \in {"answered", "refused"} /\ ~row.pending
  BY DEF MayBeWritten
<1>1. u = RemoveTasks(w, T)
  BY WriteIsWrittenAndRemoved
<1>2. Typed(w, m)
  BY <1>0, <1>a, WrittenTyped
<1>3. Counted(w, T)
  BY <1>0, <1>a, WrittenCounted
<1>4. Phased(w, new)
  BY <1>0, <1>a, <1>b, WrittenPhased
<1>5. Briefed(w, js, T)
  BY <1>0, <1>a, WrittenBriefed
<1>6. Together(w)
  BY <1>a
<1>7. /\ DOMAIN w.records = DOMAIN d.records \cup {r} /\ w.records[r].task = t
      /\ \A q \in DOMAIN d.records : q # r => w.records[q] = d.records[q]
      /\ w.briefs = d.briefs
  BY <1>0, <1>a, WrittenParts
<1> HIDE DEF w
<1>8. /\ Typed(u, m) /\ Counted(u, {}) /\ Phased(u, new) /\ Together(u) /\ Briefed(u, js, {})
  BY <1>1, <1>2, <1>3, <1>4, <1>5, <1>6, RemovedKeeps
<1>9. /\ \A q : q \in DOMAIN u.records => q \in DOMAIN w.records /\ u.records[q] = w.records[q]
      /\ \A y \in DOMAIN u.briefs : y \in DOMAIN w.briefs /\ u.briefs[y] = w.briefs[y]
  BY <1>1, RemovedParts
<1>10. JobsKnown(js, m)
  BY <1>0, <1>a DEF JobsKnown, Typed, Briefed, Job
<1>11. BriefsGoOn(d, u)
  BY <1>0, <1>7, <1>9, BriefsThatStay
<1>12. Sound(u, m, new, js)
  BY <1>8, <1>10 DEF Sound
<1> QED
  BY <1>7, <1>9, <1>11, <1>12 DEF Wrote

LEMMA TaskIdsAreNew ==
  ASSUME NEW d, NEW n, Typed(d, n)
  PROVE  n \notin DOMAIN d.tasks /\ RecordsOf(d, n) = {} /\ n \in Nat /\ n >= 1
<1>1. n \in Nat /\ n >= 1 /\ DOMAIN d.tasks \subseteq 1 .. n - 1
  BY DEF Typed
<1>2. n \notin DOMAIN d.tasks
  BY <1>1
<1> QED
  BY <1>1, <1>2 DEF RecordsOf, Typed

\* A request whose body is on its way gets a task of its own.
LEMMA PendingKeeps ==
  ASSUME NEW d, NEW n, NEW ph, NEW js, Sound(d, n, ph, js), NEW r \in Requests,
         ph[r] = "new",
         NEW row \in TaskRow, row.pending, row.count = 1,
         NEW none, \A y : y \notin none,
         NEW new, new = [ph EXCEPT ![r] = "receiving"],
         NEW u, u = WriteTraffic(d, r, n, row, "request_received", "unpriced", none, none, none)
  PROVE  /\ Sound(u, n + 1, new, js) /\ BriefsGoOn(d, u)
         /\ Stays(d, u)
<1>0. Typed(d, n) /\ Phased(d, ph) /\ Together(d)
  BY DEF Sound
<1>1. r \notin DOMAIN d.records /\ TaskOf(d, r) = NoTask
  BY <1>0 DEF Phased, TaskOf
<1>2. n \notin DOMAIN d.tasks /\ RecordsOf(d, n) = {} /\ n \in Nat /\ n >= 1
  BY <1>0, TaskIdsAreNew
<1>5. Cardinality(RecordsOf(d, n)) = 0
  BY <1>2, FS_EmptySet
<1>6. Fits(d, r, n, row, none, none)
  <2>1. row.count = Cardinality(RecordsOf(d, n)) + IF TaskOf(d, r) = n THEN 0 ELSE 1
    BY <1>1, <1>2, <1>5 DEF NoTask
  <2> QED
    BY <2>1, <1>2 DEF Fits
<1>7. Together(Written(d, r, n, row, "request_received", "unpriced", none, none))
  <2> DEFINE w == Written(d, r, n, row, "request_received", "unpriced", none, none)
  <2>0. w = Written(d, r, n, row, "request_received", "unpriced", none, none)
    OBVIOUS
  <2> HIDE DEF w
  <2>1. /\ w.tasks[n] = row /\ \A y \in DOMAIN d.tasks : y # n => w.tasks[y] = d.tasks[y]
        /\ DOMAIN w.records = DOMAIN d.records \cup {r} /\ w.records[r].task = n
        /\ \A q \in DOMAIN d.records : q # r => w.records[q] = d.records[q]
        /\ DOMAIN w.contexts = DOMAIN d.contexts \cup none
        /\ \A y \in DOMAIN w.contexts : w.contexts[y] = IF y \in none THEN n ELSE d.contexts[y]
    BY <2>0, <1>0, WrittenParts
  <2>2. ASSUME NEW q \in DOMAIN w.records, ~w.tasks[w.records[q].task].pending
        PROVE  /\ q \in DOMAIN d.records /\ w.records[q] = d.records[q]
               /\ w.tasks[w.records[q].task] = d.tasks[d.records[q].task]
               /\ ~d.tasks[d.records[q].task].pending
    <3>1. q # r
      BY <2>1, <2>2
    <3>2. q \in DOMAIN d.records /\ w.records[q] = d.records[q]
      BY <3>1, <2>1
    <3>3. d.records[q].task \in DOMAIN d.tasks /\ d.records[q].task # n
      BY <3>2, <1>0, <1>2 DEF Typed
    <3> QED
      BY <3>2, <3>3, <2>1, <2>2
  <2>3. Together(w)
    BY <2>1, <2>2, <1>0 DEF Together
  <2> QED
    BY <2>3 DEF w
<1>3. "request_received" \in Events /\ "unpriced" \in Pricings
  BY DEF Events, Pricings
<1>4. n + 1 \in Nat /\ n <= n + 1 /\ n < n + 1
  BY <1>2
<1>8. /\ TaskOf(d, r) \in {NoTask, n} \cup none /\ NoName \notin none /\ ph[r] \notin {"answered", "refused"}
      /\ "request_received" # "request_finished" /\ "receiving" # "new"
  BY <1>1
<1>b. MayBeWritten(d, n, n + 1, ph, r, n, row, "request_received", "unpriced", none, none, none, new)
  BY <1>2, <1>3, <1>4, <1>6, <1>7, <1>8 DEF MayBeWritten
<1>9. Wrote(d, u, n + 1, new, js, r, n)
  BY <1>b, WriteKeeps
<1>10. Stays(d, u)
  BY <1>1, <1>9 DEF Wrote, Stays, TaskOf
<1> QED
  BY <1>9, <1>10 DEF Wrote

\* A request whose body is known, as it is saved.
MayBeSaved(d, n, m, ph, r, match, t, row, event, pricing, ids, new) ==
  /\ r \in Requests /\ ph[r] \notin {"answered", "refused"}
  /\ match \in Matches(d, r) /\ t = TaskSaved(d, r, n, match)
  /\ m = n + (IF t = n THEN 1 ELSE 0)
  /\ row \in TaskRow /\ ~row.pending /\ row.kind = Shape[r].kind
  /\ row.boundary = Shape[r].boundary /\ row.count = RequestCount(d, r, t)
  /\ event \in Events /\ pricing \in Pricings /\ NoName \notin ids
  /\ \E x : /\ new = [ph EXCEPT ![r] = x] /\ x # "new"
            /\ event = "request_finished" => x \in {"answered", "refused"}

\* It joins the task it continues, its own, or a new one.
LEMMA SavedKeeps ==
  ASSUME NEW d, NEW n, NEW m, NEW ph, NEW js, NEW r, NEW match, NEW t, NEW row, NEW event,
         NEW pricing, NEW ids, NEW new, Sound(d, n, ph, js),
         MayBeSaved(d, n, m, ph, r, match, t, row, event, pricing, ids, new),
         NEW u, u = WriteTraffic(d, r, t, row, event, pricing, ids, ContextKeys(r),
                                 Superseded(d, r, match))
  PROVE  Sound(u, m, new, js) /\ BriefsGoOn(d, u) /\ Stays(d, u)
<1>a. /\ r \in Requests /\ ph[r] \notin {"answered", "refused"}
      /\ match \in Matches(d, r) /\ t = TaskSaved(d, r, n, match)
      /\ m = n + (IF t = n THEN 1 ELSE 0)
      /\ row \in TaskRow /\ ~row.pending /\ row.kind = Shape[r].kind
      /\ row.boundary = Shape[r].boundary /\ row.count = RequestCount(d, r, t)
      /\ event \in Events /\ pricing \in Pricings /\ NoName \notin ids
  BY DEF MayBeSaved
<1>c. \E x : /\ new = [ph EXCEPT ![r] = x] /\ x # "new"
             /\ event = "request_finished" => x \in {"answered", "refused"} /\ ~row.pending
  BY DEF MayBeSaved
<1>0. Typed(d, n) /\ Counted(d, {}) /\ Phased(d, ph) /\ Together(d)
  BY DEF Sound
<1>1. /\ t \in DOMAIN d.tasks \/ t = n
      /\ t \in Nat /\ t >= 1
      /\ TaskOf(d, r) \in {NoTask, t} \cup Superseded(d, r, match)
      /\ TaskOf(d, r) # NoTask /\ ~IsPending(d, TaskOf(d, r)) => t = TaskOf(d, r)
  BY <1>0, <1>a, SavedFits
<1>2. n \in Nat /\ n >= 1 /\ DOMAIN d.tasks \subseteq 1 .. n - 1
  BY <1>0 DEF Typed
<1>3. m \in Nat /\ n <= m /\ t < m
  <2>0. m = n + (IF t = n THEN 1 ELSE 0)
    BY <1>a
  <2>1. CASE t = n
    BY <2>0, <2>1, <1>2
  <2>2. CASE t # n
    BY <2>0, <2>2, <1>1, <1>2
  <2> QED
    BY <2>1, <2>2
<1>7. Fits(d, r, t, row, ids, ContextKeys(r))
  BY <1>a DEF Fits, RequestCount
<1>8. Together(Written(d, r, t, row, event, pricing, ids, ContextKeys(r)))
  BY <1>0, <1>a, WrittenTogether
<1>b. MayBeWritten(d, n, m, ph, r, t, row, event, pricing, ids, ContextKeys(r),
                   Superseded(d, r, match), new)
  BY <1>a, <1>c, <1>1, <1>3, <1>7, <1>8 DEF MayBeWritten
<1>9. Wrote(d, u, m, new, js, r, t)
  BY <1>b, WriteKeeps
<1>10. Stays(d, u)
  <2> SUFFICES ASSUME NEW q \in DOMAIN d.records \cap DOMAIN u.records,
                      ~IsPending(d, TaskOf(d, q))
               PROVE  TaskOf(u, q) = TaskOf(d, q)
    BY DEF Stays
  <2>1. CASE q # r
    BY <2>1, <1>9 DEF Wrote, TaskOf
  <2>2. CASE q = r
    <3>1. TaskOf(d, r) # NoTask
      BY <2>2, <1>0 DEF TaskOf, Typed, NoTask
    <3> QED
      BY <3>1, <2>2, <1>1, <1>9 DEF Wrote, TaskOf
  <2> QED
    BY <2>1, <2>2
<1> QED
  BY <1>9, <1>10 DEF Wrote

-----------------------------------------------------------------------------
\* Every step keeps the invariant, the requests in their tasks and the briefs in order

Kept == LogInv' /\ Stays(db, db') /\ BriefsGoOn(db, db')

LEMMA ReceivedBeforeBodyKeeps ==
  ASSUME LogInv, NEW r \in Requests, ReceivedBeforeBody(r)
  PROVE  Kept
<1> DEFINE row == [pending |-> TRUE, kind |-> Shape[r].kind, boundary |-> "", user |-> "",
                   users |-> <<>>, content |-> "", count |-> 1]
           none == {}
<1>1. Sound(db, nextTask, phase, jobs) /\ Typed(db, nextTask) /\ Phased(db, phase)
  BY DEF LogInv, Sound
<1>2. phase[r] = "new" /\ phase' = [phase EXCEPT ![r] = "receiving"] /\ jobs' = jobs
      /\ SavePending(r)
  BY DEF ReceivedBeforeBody
<1>3. TaskOf(db, r) = NoTask
  BY <1>1, <1>2 DEF Phased, TaskOf
<1>4. ~IsPending(db, TaskOf(db, r))
  BY <1>3 DEF IsPending
<1>5. /\ db' = WriteTraffic(db, r, nextTask, row, "request_received", "unpriced", none,
                            KeysBeforeBody(r), none)
      /\ nextTask' = Fresh(nextTask)
  BY <1>2, <1>4 DEF SavePending
<1>6. nextTask' = nextTask + 1
  BY <1>5 DEF Fresh
<1>7. row \in TaskRow /\ row.pending /\ row.count = 1
  <2>1. Shape[r].kind \in ModelTaskKinds \cup {"models"}
    BY ShapeAssumption DEF ShapeOf
  <2>2. <<>> \in Seq(STRING)
    OBVIOUS
  <2>3. "" \in Text
    BY DEF Text
  <2>4. row \in TaskRow
    BY <2>1, <2>2, <2>3 DEF TaskRow
  <2> QED
    BY <2>4
<1>8. KeysBeforeBody(r) = none /\ \A y : y \notin none
  BY DEF KeysBeforeBody
<1> HIDE DEF row, none
<1>9. db' = WriteTraffic(db, r, nextTask, row, "request_received", "unpriced", none, none, none)
  BY <1>5, <1>8
<1>10. Sound(db', nextTask + 1, phase', jobs) /\ BriefsGoOn(db, db') /\ Stays(db, db')
  BY <1>1, <1>2, <1>7, <1>8, <1>9, PendingKeeps
<1> QED
  BY <1>2, <1>6, <1>10 DEF Kept, LogInv

LEMMA SaveKeeps ==
  ASSUME LogInv, NEW r \in Requests, NEW event \in Events, NEW pricing \in Pricings, NEW ids,
         Save(r, event, pricing, ids), NoName \notin ids,
         phase[r] \notin {"answered", "refused"},
         NEW x, x # "new", event = "request_finished" => x \in {"answered", "refused"},
         phase' = [phase EXCEPT ![r] = x], jobs' = jobs
  PROVE  Kept
<1>1. Sound(db, nextTask, phase, jobs) /\ Typed(db, nextTask)
  BY DEF LogInv, Sound
<1>2. PICK match \in Matches(db, r) :
        LET t == TaskSaved(db, r, nextTask, match)
            s == Shape[r]
        IN /\ db' = WriteTraffic(db, r, t,
                      [pending |-> FALSE, kind |-> s.kind, boundary |-> s.boundary,
                       user |-> s.user, users |-> s.users, content |-> s.content,
                       count |-> RequestCount(db, r, t)],
                      event, pricing, ids, ContextKeys(r), Superseded(db, r, match))
           /\ nextTask' = Fresh(t)
  BY DEF Save, TaskSaved
<1> DEFINE t == TaskSaved(db, r, nextTask, match)
           row == [pending |-> FALSE, kind |-> Shape[r].kind, boundary |-> Shape[r].boundary,
                   user |-> Shape[r].user, users |-> Shape[r].users,
                   content |-> Shape[r].content, count |-> RequestCount(db, r, t)]
           m == nextTask + (IF t = nextTask THEN 1 ELSE 0)
<1>3. /\ db' = WriteTraffic(db, r, t, row, event, pricing, ids, ContextKeys(r),
                            Superseded(db, r, match))
      /\ nextTask' = m
  BY <1>2 DEF Fresh
<1>4. RequestCount(db, r, t) \in Nat
  <2>1. Cardinality(RecordsOf(db, t)) \in Nat
    BY <1>1, RecordsFinite DEF Typed
  <2> QED
    BY <2>1 DEF RequestCount
<1>5. row \in TaskRow /\ ~row.pending /\ row.kind = Shape[r].kind
      /\ row.boundary = Shape[r].boundary /\ row.count = RequestCount(db, r, t)
  <2>1. Shape[r] \in ShapeOf
    BY ShapeAssumption
  <2>2. /\ Shape[r].kind \in ModelTaskKinds \cup {"models"} /\ Shape[r].boundary \in Text
        /\ Shape[r].user \in Text /\ Shape[r].users \in Seq(STRING)
        /\ Shape[r].content \in Text
    BY <2>1 DEF ShapeOf, Text
  <2> HIDE DEF t
  <2>3. row \in TaskRow
    BY <2>2, <1>4 DEF TaskRow
  <2> QED
    BY <2>3
<1>6. t = TaskSaved(db, r, nextTask, match)
  OBVIOUS
<1>7. m = nextTask + (IF t = nextTask THEN 1 ELSE 0)
  OBVIOUS
<1> HIDE DEF t, row, m
<1>8. MayBeSaved(db, nextTask, m, phase, r, match, t, row, event, pricing, ids, phase')
  BY <1>5, <1>6, <1>7 DEF MayBeSaved
<1>9. Sound(db', m, phase', jobs) /\ BriefsGoOn(db, db') /\ Stays(db, db')
  BY <1>1, <1>3, <1>8, SavedKeeps
<1> QED
  BY <1>3, <1>9 DEF Kept, LogInv

LEMMA EventKeeps ==
  ASSUME LogInv, NEW r \in Requests,
         \/ Received(r) \/ PendingResponse(r) \/ Answered(r) \/ Refused(r)
  PROVE  Kept
<1>0. /\ \A e : e \in {"request_received", "request_pending_response", "request_finished"}
                  => e \in Events
      /\ \A p : p \in {"pending", "priced", "unpriced"} => p \in Pricings
      /\ NoName \notin {} /\ NoName \notin {Shape[r].answers} \ {NoName}
  BY DEF Events, Pricings
<1>1. CASE Received(r)
  <2>1. /\ Save(r, "request_received", "pending", {}) /\ phase[r] = "new"
        /\ phase' = [phase EXCEPT ![r] = "received"] /\ jobs' = jobs
    BY <1>1 DEF Received
  <2> QED
    BY <2>1, <1>0, SaveKeeps
<1>2. CASE PendingResponse(r)
  <2>1. /\ Save(r, "request_pending_response", "pending", {})
        /\ phase[r] \in {"receiving", "received"}
        /\ phase' = [phase EXCEPT ![r] = "waiting"] /\ jobs' = jobs
    BY <1>2 DEF PendingResponse
  <2> QED
    BY <2>1, <1>0, SaveKeeps
<1>3. CASE Answered(r)
  <2>1. /\ Save(r, "request_finished", "priced", {Shape[r].answers} \ {NoName})
        /\ phase[r] = "waiting"
        /\ phase' = [phase EXCEPT ![r] = "answered"] /\ jobs' = jobs
    BY <1>3 DEF Answered
  <2> QED
    BY <2>1, <1>0, SaveKeeps
<1>4. CASE Refused(r)
  <2>1. /\ Save(r, "request_finished", "unpriced", {})
        /\ phase[r] \in {"receiving", "new"}
        /\ phase' = [phase EXCEPT ![r] = "refused"] /\ jobs' = jobs
    BY <1>4 DEF Refused
  <2> QED
    BY <2>1, <1>0, SaveKeeps
<1> QED
  BY <1>1, <1>2, <1>3, <1>4

LEMMA LeavesKeeps ==
  ASSUME LogInv, NEW r \in Requests, Leaves(r)
  PROVE  Kept
<1>1. /\ Typed(db, nextTask) /\ Counted(db, {}) /\ Phased(db, phase) /\ Together(db)
      /\ Briefed(db, jobs, {}) /\ JobsKnown(jobs, nextTask)
  BY DEF LogInv, Sound
<1>2. db' = db /\ nextTask' = nextTask /\ jobs' = jobs /\ phase[r] # "answered"
      /\ phase[r] # "refused" /\ phase' = [phase EXCEPT ![r] = "left"]
  BY DEF Leaves
<1>3. DOMAIN phase' = Requests /\ phase'[r] = "left" /\ \A q \in Requests : q # r => phase'[q] = phase[q]
  BY <1>1, <1>2 DEF Phased
<1>4. Phased(db, phase')
  BY <1>1, <1>2, <1>3 DEF Phased, Typed
<1>5. Sound(db, nextTask, phase', jobs)
  BY <1>1, <1>4 DEF Sound
<1>6. BriefsGoOn(db, db)
  BY <1>1, BriefsThatStay
<1> QED
  BY <1>2, <1>5, <1>6 DEF Kept, LogInv, Stays

LEMMA RepricingKeeps ==
  ASSUME LogInv, ServiceOpens \/ Restart
  PROVE  Kept
<1>0. /\ Typed(db, nextTask) /\ Counted(db, {}) /\ Phased(db, phase) /\ Together(db)
      /\ Briefed(db, jobs, {}) /\ JobsKnown(jobs, nextTask)
  BY DEF LogInv, Sound
<1>1. /\ db' = [db EXCEPT !.records =
            [r \in DOMAIN @ |-> IF @[r].pricing = "pending"
                                THEN [@[r] EXCEPT !.pricing = "unpriced"] ELSE @[r]]]
      /\ nextTask' = nextTask
  BY DEF ServiceOpens, Restart
<1>2. /\ Typed(db', nextTask) /\ Counted(db', {}) /\ Phased(db', phase) /\ Together(db')
      /\ Briefed(db', jobs, {})
      /\ DOMAIN db'.records = DOMAIN db.records
      /\ \A r \in DOMAIN db.records : db'.records[r].task = db.records[r].task
      /\ db'.tasks = db.tasks /\ db'.briefs = db.briefs
  BY <1>0, <1>1, RepricedKeeps
<1>3. Stays(db, db') /\ BriefsGoOn(db, db')
  BY <1>0, <1>2, BriefsThatStay DEF Stays, TaskOf
<1>4. CASE ServiceOpens
  BY <1>0, <1>1, <1>2, <1>3, <1>4 DEF ServiceOpens, Kept, LogInv, Sound
<1>5. CASE Restart
  <2>1. jobs' = {} /\ phase' = [r \in Requests |->
          IF phase[r] \in {"receiving", "received", "waiting"} THEN "left" ELSE phase[r]]
    BY <1>5 DEF Restart
  <2>2. Phased(db', phase')
    BY <2>1, <1>2 DEF Phased, Typed
  <2>3. Briefed(db', {}, {}) /\ JobsKnown({}, nextTask)
    BY <1>2 DEF Briefed, JobsKnown
  <2> QED
    BY <2>1, <2>2, <2>3, <1>1, <1>2, <1>3 DEF Kept, LogInv, Sound
<1> QED
  BY <1>4, <1>5

LEMMA CleanupKeeps ==
  ASSUME LogInv, NEW T, Cleanup(T)
  PROVE  Kept
<1>0. /\ Typed(db, nextTask) /\ Counted(db, {}) /\ Phased(db, phase) /\ Together(db)
      /\ Briefed(db, jobs, {}) /\ JobsKnown(jobs, nextTask)
  BY DEF LogInv, Sound
<1>1. db' = RemoveTasks(db, T) /\ nextTask' = nextTask /\ phase' = phase /\ jobs' = jobs
  BY DEF Cleanup
<1>2. Counted(db, T) /\ Briefed(db, jobs, T)
  BY <1>0 DEF Counted, Briefed
<1>3. /\ Typed(db', nextTask) /\ Counted(db', {}) /\ Phased(db', phase) /\ Together(db')
      /\ Briefed(db', jobs, {})
  BY <1>0, <1>1, <1>2, RemovedKeeps
<1>4. /\ \A r \in DOMAIN db'.records : db'.records[r] = db.records[r]
      /\ \A t \in DOMAIN db'.briefs : db'.briefs[t] = db.briefs[t]
  BY <1>1, RemovedParts
<1>5. Stays(db, db') /\ BriefsGoOn(db, db')
  BY <1>0, <1>4, BriefsThatStay DEF Stays, TaskOf
<1> QED
  BY <1>0, <1>1, <1>3, <1>5 DEF Kept, LogInv, Sound

\* A brief is made of the latest finished request, or of the latest when none has finished.
LEMMA LatestIsOfTheTask ==
  ASSUME NEW d, NEW n, NEW js, Typed(d, n), Counted(d, {}), Briefed(d, js, {}),
         NEW t \in DOMAIN d.tasks, NEW source, source = LatestRecord(d, t)
  PROVE  /\ source \in DOMAIN d.records /\ d.records[source].task = t
         /\ t \in DOMAIN d.briefs /\ d.briefs[t].done =>
              /\ d.records[source].event = "request_finished"
              /\ d.records[source].sequence >= d.records[d.briefs[t].source].sequence
<1> DEFINE finished == {r \in RecordsOf(d, t) : d.records[r].event = "request_finished"}
           S == IF finished # {} THEN finished ELSE RecordsOf(d, t)
           f == [r \in S |-> d.records[r].sequence]
<1>1. RecordsOf(d, t) # {}
  <2>1. Cardinality(RecordsOf(d, t)) >= 1
    BY DEF Counted
  <2>2. Cardinality(RecordsOf(d, t)) \in Nat
        /\ (Cardinality(RecordsOf(d, t)) = 0 <=> RecordsOf(d, t) = {})
    BY RecordsFinite DEF Typed
  <2> QED
    BY <2>1, <2>2
<1>2. IsFiniteSet(RecordsOf(d, t))
  BY RecordsFinite DEF Typed
<1>3. S \in SUBSET RecordsOf(d, t) /\ S # {}
  BY <1>1
<1>4. \A r \in RecordsOf(d, t) : r \in DOMAIN d.records /\ d.records[r].task = t
                                  /\ d.records[r].sequence \in Nat
  BY DEF RecordsOf, Typed, Record
<1>5. source = CHOOSE r \in S : \A q \in S : d.records[q].sequence <= d.records[r].sequence
  BY DEF LatestRecord
<1>6. f \in [S -> Nat] /\ \A r \in S : f[r] = d.records[r].sequence
  <2> HIDE DEF S
  <2> QED
    BY <1>3, <1>4
<1>7. \E r \in S : \A q \in S : f[q] <= f[r]
  <2> HIDE DEF S, f
  <2>1. IsFiniteSet(S)
    BY <1>2, <1>3, FS_Subset
  <2> QED
    BY <2>1, <1>3, <1>6, GreatestBorne
<1>8. source \in S /\ \A q \in S : d.records[q].sequence <= d.records[source].sequence
  <2> HIDE DEF S, f
  <2> QED
    BY <1>5, <1>6, <1>7
<1>9. ASSUME t \in DOMAIN d.briefs, d.briefs[t].done
      PROVE  /\ d.records[source].event = "request_finished"
             /\ d.records[source].sequence >= d.records[d.briefs[t].source].sequence
  <2>1. IsFinished(d, d.briefs[t].source, t)
    BY <1>9 DEF Briefed
  <2>2. d.briefs[t].source \in finished
    BY <2>1 DEF IsFinished, RecordsOf
  <2>3. S = finished
    BY <2>2
  <2>4. d.records[source].event = "request_finished"
    BY <2>3, <1>8
  <2>5. d.records[d.briefs[t].source].sequence <= d.records[source].sequence
    BY <2>2, <2>3, <1>8
  <2>6. d.records[d.briefs[t].source].sequence \in Nat /\ d.records[source].sequence \in Nat
    BY <2>2, <1>3, <1>4, <1>8
  <2> QED
    BY <2>4, <2>5, <2>6
<1> QED
  BY <1>3, <1>4, <1>8, <1>9

LEMMA GenerateBriefKeeps ==
  ASSUME LogInv, NEW t \in DOMAIN db.tasks, GenerateBrief(t)
  PROVE  Kept
<1> DEFINE source == LatestRecord(db, t)
           job == [task |-> t, source |-> source,
                   done |-> db.records[source].event = "request_finished"]
<1>0. /\ Typed(db, nextTask) /\ Counted(db, {}) /\ Phased(db, phase) /\ Together(db)
      /\ Briefed(db, jobs, {}) /\ JobsKnown(jobs, nextTask)
  BY DEF LogInv, Sound
<1>1. /\ jobs' = jobs \cup {job} /\ db' = db /\ nextTask' = nextTask /\ phase' = phase
      /\ \A j \in jobs : j.task # t
  BY DEF GenerateBrief, MayGenerate
<1>2. /\ source \in DOMAIN db.records /\ db.records[source].task = t
      /\ t \in DOMAIN db.briefs /\ db.briefs[t].done =>
           /\ db.records[source].event = "request_finished"
           /\ db.records[source].sequence >= db.records[db.briefs[t].source].sequence
  BY <1>0, LatestIsOfTheTask
<1> HIDE DEF source
<1>3. /\ job.task = t /\ job.source = source
      /\ job.done <=> db.records[source].event = "request_finished"
  OBVIOUS
<1>4. job \in Job /\ t < nextTask
  <2>1. t \in Nat /\ nextTask \in Nat /\ t < nextTask /\ source \in Requests
    BY <1>0, <1>2 DEF Typed
  <2> QED
    BY <2>1 DEF Job
<1> HIDE DEF job
<1>5. Briefed(db, jobs \cup {job}, {})
  <2>1. jobs \cup {job} \subseteq Job
    BY <1>0, <1>4 DEF Briefed
  <2>2. \A i, j \in jobs \cup {job} : i.task = j.task => i = j
    BY <1>0, <1>1, <1>3 DEF Briefed
  <2>3. job.done => IsFinished(db, job.source, job.task)
    BY <1>2, <1>3 DEF IsFinished
  <2>4. job.task \in DOMAIN db.briefs /\ db.briefs[job.task].done =>
          /\ job.done
          /\ db.records[job.source].sequence >= db.records[db.briefs[job.task].source].sequence
    BY <1>2, <1>3
  <2> QED
    BY <2>1, <2>2, <2>3, <2>4, <1>0, <1>2, <1>3 DEF Briefed
<1>6. JobsKnown(jobs \cup {job}, nextTask)
  BY <1>0, <1>3, <1>4 DEF JobsKnown
<1>7. BriefsGoOn(db, db)
  BY <1>0, BriefsThatStay
<1> QED
  BY <1>0, <1>1, <1>5, <1>6, <1>7 DEF Kept, LogInv, Sound, Stays

LEMMA BriefReplaced ==
  ASSUME NEW d, Fields(d), NEW b, NEW u, u = [d EXCEPT !.briefs = b]
  PROVE  /\ u.tasks = d.tasks /\ u.records = d.records /\ u.responses = d.responses
         /\ u.contexts = d.contexts /\ u.briefs = b /\ Fields(u)
<1>1. u = [tasks |-> d.tasks, records |-> d.records, responses |-> d.responses,
           contexts |-> d.contexts, briefs |-> b]
  BY DEF Fields
<1> QED
  BY <1>1 DEF Fields

LEMMA BriefEndsKeeps ==
  ASSUME LogInv, NEW j \in jobs, StoreBrief(j) \/ BriefFails(j)
  PROVE  Kept
<1>0. /\ Typed(db, nextTask) /\ Counted(db, {}) /\ Phased(db, phase) /\ Together(db)
      /\ Briefed(db, jobs, {}) /\ JobsKnown(jobs, nextTask)
  BY DEF LogInv, Sound
<1>1. nextTask' = nextTask /\ phase' = phase /\ jobs' = jobs \ {j}
  BY DEF StoreBrief, BriefFails
<1>2. JobsKnown(jobs \ {j}, nextTask)
  BY <1>0 DEF JobsKnown
<1>3. CASE db' = db
  <2>1. Briefed(db, jobs \ {j}, {})
    BY <1>0 DEF Briefed
  <2>2. BriefsGoOn(db, db)
    BY <1>0, BriefsThatStay
  <2> QED
    BY <2>1, <2>2, <1>0, <1>1, <1>2, <1>3 DEF Kept, LogInv, Sound, Stays
<1>4. CASE db' # db
  <2> DEFINE brief == [source |-> j.source, done |-> j.done]
             b == Put(db.briefs, j.task, brief)
  <2>1. db' = [db EXCEPT !.briefs = b] /\ j.task \in DOMAIN db.tasks
    BY <1>4 DEF StoreBrief, BriefFails
  <2>2. /\ DOMAIN b = DOMAIN db.briefs \cup {j.task} /\ b[j.task] = brief
        /\ \A t \in DOMAIN db.briefs : t # j.task => b[t] = db.briefs[t]
    BY DEF Put
  <2>3. brief.source = j.source /\ (brief.done <=> j.done)
        /\ brief \in [source : Requests, done : BOOLEAN]
    BY <1>0 DEF Briefed, Job
  <2> HIDE DEF b, brief
  <2>4. /\ db'.tasks = db.tasks /\ db'.records = db.records /\ db'.responses = db.responses
        /\ db'.contexts = db.contexts /\ db'.briefs = b /\ Fields(db')
    BY <2>1, <1>0, BriefReplaced DEF Typed
  <2>5. /\ j.source \in DOMAIN db.records /\ db.records[j.source].task = j.task
        /\ j.done => IsFinished(db, j.source, j.task)
        /\ j.task \in DOMAIN db.briefs /\ db.briefs[j.task].done =>
             /\ j.done
             /\ db.records[j.source].sequence >= db.records[db.briefs[j.task].source].sequence
    BY <2>1, <1>0 DEF Briefed
  <2>6. Typed(db', nextTask)
    <3>1. /\ DOMAIN b \subseteq DOMAIN db.tasks
          /\ \A t \in DOMAIN b : b[t] \in [source : Requests, done : BOOLEAN]
      BY <2>1, <2>2, <2>3, <1>0 DEF Typed
    <3> QED
      BY <3>1, <2>4, <1>0 DEF Typed, LinksTyped
  <2>7. Counted(db', {}) /\ Phased(db', phase) /\ Together(db')
    BY <2>4, <1>0 DEF Counted, Phased, Together, RecordsOf
  <2>8. Briefed(db', jobs \ {j}, {})
    <3>1. \A q, t : IsFinished(db', q, t) <=> IsFinished(db, q, t)
      BY <2>4 DEF IsFinished
    <3>2. \A t \in DOMAIN b : b[t].done => IsFinished(db, b[t].source, t)
      BY <2>2, <2>3, <2>5, <1>0 DEF Briefed
    <3>3. \A i \in jobs \ {j} : i.task # j.task
      BY <1>0 DEF Briefed
    <3>4. \A i \in jobs \ {j} : i.task \in DOMAIN b => i.task \in DOMAIN db.briefs /\ b[i.task] = db.briefs[i.task]
      BY <3>3, <2>2
    <3> QED
      BY <3>1, <3>2, <3>4, <2>4, <1>0 DEF Briefed
  <2>9. BriefsGoOn(db, db')
    <3>1. ASSUME NEW t \in DOMAIN db.briefs, db.briefs[t].done
          PROVE  db.records[b[t].source].sequence >= db.records[db.briefs[t].source].sequence
      <4>1. CASE t = j.task
        BY <4>1, <3>1, <2>2, <2>3, <2>5
      <4>2. CASE t # j.task
        <5>1. db.briefs[t].source \in DOMAIN db.records
          BY <3>1, <1>0 DEF Briefed, IsFinished
        <5>2. db.records[db.briefs[t].source].sequence \in Nat
          BY <5>1, <1>0 DEF Typed, Record
        <5> QED
          BY <5>2, <4>2, <2>2
      <4> QED
        BY <4>1, <4>2
    <3> QED
      BY <3>1, <2>4 DEF BriefsGoOn
  <2>10. Stays(db, db')
    BY <2>4 DEF Stays, TaskOf
  <2>11. LogInv'
    BY <2>6, <2>7, <2>8, <1>1, <1>2 DEF LogInv, Sound
  <2> QED
    BY <2>9, <2>10, <2>11 DEF Kept
<1> QED
  BY <1>3, <1>4

-----------------------------------------------------------------------------
\* The theorems

LEMMA LogInvInit == Init => LogInv
<1> SUFFICES ASSUME Init PROVE LogInv
  OBVIOUS
<1>1. /\ db = Empty /\ nextTask = 1 /\ phase = [r \in Requests |-> "new"] /\ jobs = {}
  BY DEF Init
<1>2. /\ DOMAIN db.tasks = {} /\ DOMAIN db.records = {} /\ DOMAIN db.responses = {}
      /\ DOMAIN db.contexts = {} /\ DOMAIN db.briefs = {} /\ Fields(db)
  BY <1>1 DEF Empty, EmptyMap, Fields
<1>3. Typed(db, nextTask)
  BY <1>1, <1>2 DEF Typed, LinksTyped
<1>4. Counted(db, {}) /\ Phased(db, phase) /\ Together(db)
  BY <1>1, <1>2 DEF Counted, Phased, Together
<1>5. Briefed(db, jobs, {}) /\ JobsKnown(jobs, nextTask)
  BY <1>1, <1>2 DEF Briefed, JobsKnown
<1> QED
  BY <1>3, <1>4, <1>5 DEF LogInv, Sound

LEMMA StepKeeps == LogInv /\ [Next]_vars => LogInv' /\ Stays(db, db') /\ BriefsGoOn(db, db')
<1> SUFFICES ASSUME LogInv, [Next]_vars PROVE Kept
  BY DEF Kept
<1>1. ASSUME NEW r \in Requests, ReceivedBeforeBody(r)
      PROVE  Kept
  BY <1>1, ReceivedBeforeBodyKeeps
<1>2. ASSUME NEW r \in Requests, Received(r) \/ PendingResponse(r) \/ Answered(r) \/ Refused(r)
      PROVE  Kept
  BY <1>2, EventKeeps
<1>3. ASSUME NEW r \in Requests, Leaves(r)
      PROVE  Kept
  BY <1>3, LeavesKeeps
<1>4. CASE ServiceOpens \/ Restart
  BY <1>4, RepricingKeeps
<1>5. ASSUME NEW T \in SUBSET DOMAIN db.tasks, Cleanup(T)
      PROVE  Kept
  BY <1>5, CleanupKeeps
<1>6. ASSUME NEW t \in DOMAIN db.tasks, GenerateBrief(t)
      PROVE  Kept
  BY <1>6, GenerateBriefKeeps
<1>7. ASSUME NEW j \in jobs, StoreBrief(j) \/ BriefFails(j)
      PROVE  Kept
  BY <1>7, BriefEndsKeeps
<1>8. CASE UNCHANGED vars
  <2>1. db' = db /\ nextTask' = nextTask /\ phase' = phase /\ jobs' = jobs
    BY <1>8 DEF vars
  <2>2. BriefsGoOn(db, db)
    BY BriefsThatStay DEF LogInv, Sound
  <2> QED
    BY <2>1, <2>2 DEF Kept, LogInv, Stays
<1> QED
  BY <1>1, <1>2, <1>3, <1>4, <1>5, <1>6, <1>7, <1>8 DEF Next

LEMMA LogInvAlways == Spec => []LogInv
BY LogInvInit, StepKeeps, PTL DEF Spec

(* A task counts the requests it has, whatever was received, repeated,     *)
(* moved to another task or cleaned away (task-matcher.ts #updatedTask).   *)
THEOREM TasksAlwaysCount == Spec => []CountsMatch
<1>1. LogInv => CountsMatch
  BY DEF LogInv, Sound, Counted, CountsMatch
<1> QED
  BY <1>1, LogInvAlways, PTL

\* Two requests of a tying key that are in tasks of known bodies: the link of the key is both's.
LEMMA TiedAreTogether == LogInv => KeyKeepsOneTask
<1> SUFFICES ASSUME LogInv, NEW k \in UNION {KeysOf(r) : r \in Requests}, TiesByKey(k),
                    NEW r \in DOMAIN db.records, NEW q \in DOMAIN db.records,
                    k \in KeysOf(r), k \in KeysOf(q),
                    ~IsPending(db, TaskOf(db, r)), ~IsPending(db, TaskOf(db, q))
             PROVE  TaskOf(db, r) = TaskOf(db, q)
  BY DEF KeyKeepsOneTask
<1>1. Typed(db, nextTask) /\ Together(db)
  BY DEF LogInv, Sound
<1>2. \A x \in DOMAIN db.records :
        /\ TaskOf(db, x) = db.records[x].task /\ TaskOf(db, x) # NoTask
  BY <1>1 DEF TaskOf, Typed, NoTask
<1>3. ~db.tasks[db.records[r].task].pending /\ ~db.tasks[db.records[q].task].pending
  BY <1>2 DEF IsPending
<1>4. db.contexts[k] = db.records[r].task /\ db.contexts[k] = db.records[q].task
  BY <1>1, <1>3 DEF Together
<1> QED
  BY <1>2, <1>4

(* Requests of one conversation key come together in one task once their   *)
(* bodies are known, and no request leaves the task it is in               *)
(* (task-matcher.ts assign, #taskForContextKeys).                          *)
THEOREM ConversationsStayTogether == Spec => OneTaskForGood
<1>1. LogInv /\ [Next]_vars =>
        [\A r \in DOMAIN db.records \cap DOMAIN db'.records :
           ~IsPending(db, TaskOf(db, r)) => TaskOf(db', r) = TaskOf(db, r)]_vars
  BY StepKeeps DEF Stays
<1> QED
  BY <1>1, LogInvAlways, TiedAreTogether, PTL DEF Spec, OneTaskForGood, StaysInItsTask

(* The brief of a finished request is replaced only by one of the same or  *)
(* a later request of its task (summary-generation-service.ts).            *)
THEOREM BriefsOnlyGoForward == Spec => BriefsNeverGoBack
<1>1. LogInv /\ [Next]_vars =>
        [\A t \in DOMAIN db.briefs \cap DOMAIN db'.briefs :
           db.briefs[t].done =>
             db.records[db'.briefs[t].source].sequence
               >= db.records[db.briefs[t].source].sequence]_vars
  BY StepKeeps DEF BriefsGoOn
<1> QED
  BY <1>1, LogInvAlways, PTL DEF Spec, BriefsNeverGoBack

-----------------------------------------------------------------------------
(* One response.                                                           *)

\* Induction over the numbers up to n
LEMMA UpTo ==
  ASSUME NEW n \in Nat, NEW T \in SUBSET (0 .. n), 0 \in T, \A m \in T : m < n => m + 1 \in T
  PROVE  T = 0 .. n
<1> DEFINE rest == (0 .. n) \ T
<1> SUFFICES ASSUME rest # {} PROVE FALSE
  OBVIOUS
<1>0. rest \in SUBSET Nat
  OBVIOUS
<1>1. PICK x \in rest : \A y \in rest : x <= y
  <2> HIDE DEF rest
  <2> QED
    BY <1>0, LeastNatural
<1>2. x # 0 /\ x \in 0 .. n /\ x - 1 \in 0 .. n /\ x - 1 < n
  BY <1>1
<1>3. x - 1 \notin rest
  BY <1>1, <1>2
<1> QED
  BY <1>1, <1>2, <1>3

Symbol == [e : Nat, part : Nat]

\* An answer of finitely many events, each of one symbol or more
Good(a) ==
  /\ a.events \in Seq(ToSet(a.events))
  /\ \A i \in DOMAIN a.events :
       /\ a.events[i].size \in Nat \ {0}
       /\ a.events[i].usage = None \/ IsReport(a.events[i].usage)

LEMMA AnswersAreGood ==
  ASSUME NEW a \in Answers
  PROVE  Good(a)
<1>1. a.events \in Seq(ToSet(a.events))
  BY RelayAssumption
<1>2. \A e \in ToSet(a.events) : e.size \in Nat \ {0} /\ (e.usage = None \/ IsReport(e.usage))
  BY RelayAssumption
<1>3. \A i \in DOMAIN a.events : a.events[i] \in ToSet(a.events)
  BY DEF ToSet
<1> QED
  BY <1>1, <1>2, <1>3 DEF Good

LEMMA EventsAre ==
  ASSUME NEW a, Good(a)
  PROVE  /\ Len(a.events) \in Nat /\ DOMAIN a.events = 1 .. Len(a.events)
         /\ \A i \in 1 .. Len(a.events) :
              a.events[i].size \in Nat /\ a.events[i].size >= 1
<1>1. DOMAIN a.events = 1 .. Len(a.events) /\ Len(a.events) \in Nat
  BY DEF Good
<1> QED
  BY <1>1 DEF Good

-----------------------------------------------------------------------------
\* Where events end

LEMMA EndsAre ==
  ASSUME NEW a, Good(a)
  PROVE  /\ Ends(a)[0] = 0
         /\ \A i \in 0 .. Len(a.events) : Ends(a)[i] \in Nat
         /\ \A i \in 1 .. Len(a.events) : Ends(a)[i] = Ends(a)[i - 1] + a.events[i].size + 1
<1> DEFINE N == Len(a.events)
           size(i) == a.events[i].size
           runs(g, k) == g = [i \in 0 .. k |-> IF i = 0 THEN 0 ELSE g[i - 1] + size(i) + 1]
           T == {k \in 0 .. N : \E g : runs(g, k)}
           ends == CHOOSE g : runs(g, N)
           U == {k \in 0 .. N : ends[k] \in Nat}
<1>1. N \in Nat /\ \A i \in 1 .. N : size(i) \in Nat
  BY EventsAre
<1>2. Ends(a) = ends
  BY DEF Ends
<1> HIDE DEF N, size
<1>3. 0 \in T
  <2> DEFINE g == [i \in 0 .. 0 |-> 0]
  <2>1. runs(g, 0)
    OBVIOUS
  <2> HIDE DEF g, runs
  <2> QED
    BY <1>1, <2>1
<1>4. ASSUME NEW k \in T, k < N
      PROVE  k + 1 \in T
  <2>1. PICK g : runs(g, k)
    OBVIOUS
  <2>2. k \in Nat
    BY <1>1
  <2> DEFINE h == [i \in 0 .. k + 1 |-> IF i = k + 1 THEN g[k] + size(k + 1) + 1 ELSE g[i]]
  <2>3. \A i \in 0 .. k + 1 : h[i] = IF i = 0 THEN 0 ELSE h[i - 1] + size(i) + 1
    <3> TAKE i \in 0 .. k + 1
    <3>1. CASE i = k + 1
      BY <3>1, <2>2
    <3>2. CASE i # k + 1
      <4>1. i \in 0 .. k /\ (i # 0 => i - 1 \in 0 .. k /\ i - 1 # k + 1)
        BY <3>2, <2>2
      <4>2. g[i] = IF i = 0 THEN 0 ELSE g[i - 1] + size(i) + 1
        BY <2>1, <4>1
      <4> QED
        BY <3>2, <4>1, <4>2
    <3> QED
      BY <3>1, <3>2
  <2>4. h = [i \in 0 .. k + 1 |-> h[i]]
    OBVIOUS
  <2>5. runs(h, k + 1)
    <3> HIDE DEF h
    <3> QED
      BY <2>3, <2>4
  <2>6. k + 1 \in 0 .. N
    BY <1>1, <1>4, <2>2
  <2> HIDE DEF h, runs
  <2> QED
    BY <2>5, <2>6
<1>5. runs(ends, N)
  <2>1. T = 0 .. N
    <3>1. T \in SUBSET (0 .. N)
      OBVIOUS
    <3> HIDE DEF T
    <3> QED
      BY <1>1, <1>3, <1>4, <3>1, UpTo
  <2>2. N \in T
    <3> HIDE DEF T
    <3> QED
      BY <1>1, <2>1
  <2>3. \E g : runs(g, N)
    BY <2>2
  <2> HIDE DEF runs
  <2> QED
    BY <2>3
<1> HIDE DEF ends
<1>6. \A i \in 0 .. N : ends[i] = IF i = 0 THEN 0 ELSE ends[i - 1] + size(i) + 1
  BY <1>5
<1>7. U = 0 .. N
  <2>1. 0 \in U
    BY <1>1, <1>6
  <2>2. ASSUME NEW k \in U, k < N
        PROVE  k + 1 \in U
    <3>1. k + 1 \in 0 .. N /\ k + 1 \in 1 .. N /\ k + 1 # 0 /\ (k + 1) - 1 = k
      BY <1>1, <2>2
    <3>2. ends[k + 1] = ends[k] + size(k + 1) + 1
      BY <1>6, <3>1
    <3> QED
      BY <1>1, <3>1, <3>2
  <2>3. U \in SUBSET (0 .. N)
    OBVIOUS
  <2> HIDE DEF U
  <2> QED
    BY <1>1, <2>1, <2>2, <2>3, UpTo
<1>8. \A i \in 1 .. N : ends[i] = ends[i - 1] + size(i) + 1
  BY <1>1, <1>6
<1>9. ends[0] = 0
  BY <1>1, <1>6
<1>10. \A i \in 0 .. N : ends[i] \in Nat
  BY <1>7
<1> QED
  BY <1>2, <1>8, <1>9, <1>10 DEF N, size

LEMMA EndsGrow ==
  ASSUME NEW a, Good(a), NEW i \in 0 .. Len(a.events), NEW j \in 0 .. Len(a.events), i <= j
  PROVE  Ends(a)[i] <= Ends(a)[j]
<1> DEFINE N == Len(a.events)
           T == {m \in 0 .. N - i : Ends(a)[i] <= Ends(a)[i + m]}
<1>1. N \in Nat /\ i \in 0 .. N /\ j \in 0 .. N /\ N - i \in Nat
  BY EventsAre
<1>2. /\ \A m \in 0 .. N : Ends(a)[m] \in Nat
      /\ \A m \in 1 .. N : Ends(a)[m] = Ends(a)[m - 1] + a.events[m].size + 1
      /\ \A m \in 1 .. N : a.events[m].size \in Nat
  BY EndsAre, EventsAre
<1> HIDE DEF N
<1>3. 0 \in T
  BY <1>1, <1>2
<1>4. ASSUME NEW m \in T, m < N - i
      PROVE  m + 1 \in T
  <2>1. i + (m + 1) \in 1 .. N /\ (i + (m + 1)) - 1 = i + m /\ m + 1 \in 0 .. N - i /\ i + m \in 0 .. N
    BY <1>1, <1>4
  <2>2. Ends(a)[i + (m + 1)] = Ends(a)[i + m] + a.events[i + (m + 1)].size + 1
    BY <1>2, <2>1
  <2>3. Ends(a)[i] <= Ends(a)[i + m]
    OBVIOUS
  <2>4. a.events[i + (m + 1)].size \in Nat /\ Ends(a)[i + m] \in Nat /\ Ends(a)[i] \in Nat
    BY <1>1, <1>2, <2>1
  <2>5. Ends(a)[i] <= Ends(a)[i + (m + 1)]
    BY <2>2, <2>3, <2>4
  <2> QED
    BY <2>1, <2>5
<1>5. T = 0 .. N - i
  <2>1. T \in SUBSET (0 .. N - i)
    OBVIOUS
  <2> HIDE DEF T
  <2> QED
    BY <1>1, <1>3, <1>4, <2>1, UpTo
<1>6. j - i \in T /\ i + (j - i) = j
  <2> HIDE DEF T
  <2> QED
    BY <1>1, <1>5
<1> QED
  BY <1>6

-----------------------------------------------------------------------------
\* What a body holds

\* g joins ever more of the pieces
Joins(g, pieces, N, V) ==
  /\ FlattenSeq(pieces) = g[N] /\ g[1] = pieces[1]
  /\ \A i \in 1 .. N : g[i] \in Seq(V)
  /\ \A i \in 1 .. N : i # 1 => g[i] = g[i - 1] \o pieces[i]

LEMMA FlattenIs ==
  ASSUME NEW V, NEW N \in Nat, N >= 1, NEW pieces \in [1 .. N -> Seq(V)]
  PROVE  \E g : Joins(g, pieces, N, V)
<1> DEFINE runs(g, k) == g = [i \in 1 .. k |-> IF i = 1 THEN pieces[i] ELSE g[i - 1] \o pieces[i]]
           T == {k \in 0 .. N : \E g : runs(g, k)}
           flat == CHOOSE g : runs(g, N)
           U == {k \in 0 .. N : k # 0 => flat[k] \in Seq(V)}
<1>1. Len(pieces) = N /\ pieces \in Seq(Seq(V))
  OBVIOUS
<1>2. FlattenSeq(pieces) = flat[N]
  BY <1>1 DEF FlattenSeq
<1>3. 0 \in T
  <2> DEFINE g == [i \in 1 .. 0 |-> 0]
  <2>1. runs(g, 0)
    OBVIOUS
  <2> HIDE DEF g, runs
  <2> QED
    BY <2>1
<1>4. ASSUME NEW k \in T, k < N
      PROVE  k + 1 \in T
  <2>1. PICK g : runs(g, k)
    OBVIOUS
  <2>2. k \in Nat
    OBVIOUS
  <2> DEFINE h == [i \in 1 .. k + 1 |->
                     IF i # k + 1 THEN g[i] ELSE IF i = 1 THEN pieces[i] ELSE g[k] \o pieces[k + 1]]
  <2>3. \A i \in 1 .. k + 1 : h[i] = IF i = 1 THEN pieces[i] ELSE h[i - 1] \o pieces[i]
    <3> TAKE i \in 1 .. k + 1
    <3>1. CASE i = k + 1
      <4>1. i # 1 => i - 1 \in 1 .. k + 1 /\ i - 1 # k + 1 /\ i - 1 = k
        BY <3>1, <2>2
      <4> QED
        BY <3>1, <4>1
    <3>2. CASE i # k + 1
      <4>1. i \in 1 .. k /\ (i # 1 => i - 1 \in 1 .. k /\ i - 1 # k + 1 /\ i - 1 \in 1 .. k + 1)
        BY <3>2, <2>2
      <4>2. g[i] = IF i = 1 THEN pieces[i] ELSE g[i - 1] \o pieces[i]
        BY <2>1, <4>1
      <4>3. h[i] = g[i] /\ (i # 1 => h[i - 1] = g[i - 1])
        BY <3>2, <4>1
      <4> HIDE DEF h
      <4> QED
        BY <4>2, <4>3
    <3> QED
      BY <3>1, <3>2
  <2>4. h = [i \in 1 .. k + 1 |-> h[i]]
    OBVIOUS
  <2>5. runs(h, k + 1)
    <3> HIDE DEF h
    <3> QED
      BY <2>3, <2>4
  <2>6. k + 1 \in 0 .. N
    BY <1>4, <2>2
  <2> HIDE DEF h, runs
  <2> QED
    BY <2>5, <2>6
<1>5. runs(flat, N)
  <2>1. T = 0 .. N
    <3>1. T \in SUBSET (0 .. N)
      OBVIOUS
    <3> HIDE DEF T
    <3> QED
      BY <1>3, <1>4, <3>1, UpTo
  <2>2. N \in T
    <3> HIDE DEF T
    <3> QED
      BY <2>1
  <2>3. \E g : runs(g, N)
    BY <2>2
  <2> HIDE DEF runs
  <2> QED
    BY <2>3
<1> HIDE DEF flat
<1>6. \A i \in 1 .. N : flat[i] = IF i = 1 THEN pieces[i] ELSE flat[i - 1] \o pieces[i]
  BY <1>5
<1>7. U = 0 .. N
  <2>1. 0 \in U
    OBVIOUS
  <2>2. ASSUME NEW k \in U, k < N
        PROVE  k + 1 \in U
    <3>1. k \in Nat /\ k + 1 \in 1 .. N /\ (k + 1) - 1 = k /\ (k # 0 => flat[k] \in Seq(V))
      BY <2>2
    <3>2. flat[k + 1] = IF k + 1 = 1 THEN pieces[k + 1] ELSE flat[k] \o pieces[k + 1]
      BY <1>6, <3>1
    <3>3. pieces[k + 1] \in Seq(V)
      BY <3>1
    <3>4. k + 1 # 1 => flat[k] \o pieces[k + 1] \in Seq(V)
      BY <3>1, <3>3
    <3>5. flat[k + 1] \in Seq(V)
      BY <3>2, <3>3, <3>4
    <3> QED
      BY <3>1, <3>5
  <2>3. U \in SUBSET (0 .. N)
    OBVIOUS
  <2> HIDE DEF U
  <2> QED
    BY <2>1, <2>2, <2>3, UpTo
<1>8. \A i \in 1 .. N : flat[i] \in Seq(V)
  <2> TAKE i \in 1 .. N
  <2>1. i # 0 /\ i \in 0 .. N
    OBVIOUS
  <2>2. i \in U
    BY <1>7, <2>1
  <2> QED
    BY <2>1, <2>2, Zenon
<1>9. flat[1] = pieces[1]
  BY <1>6
<1>10. \A i \in 1 .. N : i # 1 => flat[i] = flat[i - 1] \o pieces[i]
  BY <1>6
<1> QED
  BY <1>2, <1>8, <1>9, <1>10 DEF Joins

LEMMA SymbolsAre ==
  ASSUME NEW i \in Nat, NEW e, e.size \in Nat
  PROVE  /\ Symbols(i, e) \in Seq(Symbol) /\ Len(Symbols(i, e)) = e.size
         /\ \A p \in 1 .. e.size : Symbols(i, e)[p] = [e |-> i, part |-> p]
<1>1. \A p \in 1 .. e.size : [e |-> i, part |-> p] \in Symbol
  BY DEF Symbol
<1>2. Symbols(i, e) \in [1 .. e.size -> Symbol]
  BY <1>1 DEF Symbols
<1> QED
  BY <1>2 DEF Symbols

\* What an event brings
Piece(a, i) == IF a.sse THEN Append(Symbols(i, a.events[i]), Blank) ELSE Symbols(i, a.events[i])

LEMMA PieceIs ==
  ASSUME NEW a, Good(a), NEW i \in 1 .. Len(a.events)
  PROVE  /\ Piece(a, i) \in Seq(Symbol)
         /\ a.sse => /\ Len(Piece(a, i)) = a.events[i].size + 1
                     /\ \A p \in 1 .. a.events[i].size : Piece(a, i)[p] = [e |-> i, part |-> p]
                     /\ Piece(a, i)[a.events[i].size + 1] = Blank
<1> DEFINE s == Symbols(i, a.events[i])
           k == a.events[i].size
<1>1. k \in Nat /\ i \in Nat
  BY EventsAre
<1>2. s \in Seq(Symbol) /\ Len(s) = k /\ \A p \in 1 .. k : s[p] = [e |-> i, part |-> p]
  BY <1>1, SymbolsAre
<1>3. Blank \in Symbol
  BY DEF Blank, Symbol
<1>4. Piece(a, i) = IF a.sse THEN Append(s, Blank) ELSE s
  BY DEF Piece
<1> HIDE DEF s, k
<1> QED
  <2>1. /\ Append(s, Blank) \in Seq(Symbol) /\ Len(Append(s, Blank)) = k + 1
        /\ \A p \in 1 .. k : Append(s, Blank)[p] = s[p]
        /\ Append(s, Blank)[k + 1] = Blank
    BY <1>1, <1>2, <1>3
  <2> QED
    BY <1>2, <1>4, <2>1 DEF k

LEMMA JoinIs ==
  ASSUME NEW V, NEW x \in Seq(V), NEW y \in Seq(V)
  PROVE  /\ x \o y \in Seq(V) /\ Len(x \o y) = Len(x) + Len(y)
         /\ Len(x) \in Nat /\ Len(y) \in Nat
         /\ \A n \in 1 .. Len(x) : (x \o y)[n] = x[n]
         /\ \A n \in 1 .. Len(y) : (x \o y)[Len(x) + n] = y[n]
  OBVIOUS

LEMMA BodyIs ==
  ASSUME NEW a, Good(a)
  PROVE  /\ Body(a) \in Seq(Symbol)
         /\ a.sse =>
              /\ Len(Body(a)) = Ends(a)[Len(a.events)]
              /\ \A i \in 1 .. Len(a.events) :
                   /\ \A p \in 1 .. a.events[i].size :
                        Body(a)[Ends(a)[i - 1] + p] = [e |-> i, part |-> p]
                   /\ Body(a)[Ends(a)[i]] = Blank
<1> DEFINE N == Len(a.events)
           size(i) == a.events[i].size
           E == Ends(a)
           pieces == [i \in 1 .. N |-> Piece(a, i)]
<1>1. N \in Nat /\ DOMAIN a.events = 1 .. N /\ \A i \in 1 .. N : size(i) \in Nat /\ size(i) >= 1
  BY EventsAre
<1>2. E[0] = 0 /\ (\A i \in 0 .. N : E[i] \in Nat) /\ \A i \in 1 .. N : E[i] = E[i - 1] + size(i) + 1
  BY EndsAre
<1>3. Body(a) = FlattenSeq(pieces)
  BY <1>1 DEF Body, Piece
<1>4. \A i \in 1 .. N : Piece(a, i) \in Seq(Symbol)
  BY PieceIs
<1>5. pieces \in [1 .. N -> Seq(Symbol)] /\ \A i \in 1 .. N : pieces[i] = Piece(a, i)
  BY <1>4
<1>6. CASE N = 0
  <2>1. pieces = <<>> /\ Len(pieces) = 0
    BY <1>5, <1>6
  <2>2. Body(a) = <<>>
    BY <1>3, <2>1 DEF FlattenSeq
  <2> QED
    BY <2>2, <1>2, <1>6
<1>7. CASE N # 0
  <2>0. N >= 1 /\ N \in Nat
    BY <1>1, <1>7
  <2> HIDE DEF pieces, N, E, size
  <2>4. PICK g : Joins(g, pieces, N, Symbol)
    BY <2>0, <1>5, FlattenIs
  <2>1. /\ FlattenSeq(pieces) = g[N] /\ g[1] = pieces[1]
        /\ \A i \in 1 .. N : g[i] \in Seq(Symbol)
        /\ \A i \in 1 .. N : i # 1 => g[i] = g[i - 1] \o pieces[i]
    BY <2>4 DEF Joins
  <2>2. Body(a) \in Seq(Symbol)
    BY <1>1, <1>3, <1>7, <2>1
  <2>3. ASSUME a.sse
        PROVE  /\ Len(g[N]) = E[N]
               /\ \A i \in 1 .. N : /\ \A p \in 1 .. size(i) : g[N][E[i - 1] + p] = [e |-> i, part |-> p]
                                    /\ g[N][E[i]] = Blank
    <3> DEFINE holds(k, i) == /\ \A p \in 1 .. size(i) : g[k][E[i - 1] + p] = [e |-> i, part |-> p]
                              /\ g[k][E[i]] = Blank
               T == {k \in 0 .. N : k # 0 => Len(g[k]) = E[k] /\ \A i \in 1 .. k : holds(k, i)}
    <3>1. 0 \in T
      BY <1>1
    <3>2. ASSUME NEW k \in T, k < N
          PROVE  k + 1 \in T
      <4>1. k \in Nat /\ k + 1 \in 1 .. N /\ (k + 1) - 1 = k /\ k + 1 \in 0 .. N /\ k \in 0 .. N
        BY <1>1, <3>2
      <4>8. k # 0 => Len(g[k]) = E[k] /\ \A i \in 1 .. k : holds(k, i)
        OBVIOUS
      <4> DEFINE c == Piece(a, k + 1)
                 s == size(k + 1)
      <4>2. /\ c \in Seq(Symbol) /\ Len(c) = s + 1
            /\ \A p \in 1 .. s : c[p] = [e |-> k + 1, part |-> p]
            /\ c[s + 1] = Blank
        BY <4>1, <2>3, PieceIs DEF N, size
      <4>3. s \in Nat /\ E[k + 1] = E[k] + s + 1 /\ E[k] \in Nat
        BY <1>1, <1>2, <4>1
      <4>4. pieces[k + 1] = c
        BY <1>5, <4>1
      <4> HIDE DEF c, s
      <4>5. CASE k = 0
        <5>1. g[k + 1] = c /\ E[k] = 0
          BY <1>2, <2>1, <4>4, <4>5
        <5>2. Len(g[k + 1]) = E[k + 1]
          BY <4>2, <4>3, <5>1
        <5>3. \A p \in 1 .. s : g[k + 1][E[k] + p] = [e |-> k + 1, part |-> p]
          BY <4>2, <4>3, <5>1
        <5>4. g[k + 1][E[k + 1]] = Blank
          BY <4>2, <4>3, <5>1
        <5>5. holds(k + 1, k + 1)
          BY <5>3, <5>4, <4>1 DEF s
        <5>6. \A i \in 1 .. k + 1 : i = k + 1
          BY <4>5
        <5> HIDE DEF holds
        <5> QED
          BY <4>1, <5>2, <5>5, <5>6
      <4>6. CASE k # 0
        <5> HIDE DEF T, holds
        <5>1. /\ k \in 1 .. N /\ g[k] \in Seq(Symbol) /\ Len(g[k]) = E[k]
              /\ (\A i \in 1 .. k : holds(k, i)) /\ k + 1 # 1
          <6>1. k \in 1 .. N /\ k + 1 # 1
            BY <4>1, <4>6
          <6> QED
            BY <2>1, <4>6, <4>8, <6>1
        <5>2. g[k + 1] = g[k] \o c
          BY <2>1, <4>1, <4>4, <5>1
        <5>3. /\ Len(g[k] \o c) = Len(g[k]) + Len(c)
              /\ \A n \in 1 .. Len(g[k]) : (g[k] \o c)[n] = g[k][n]
              /\ \A n \in 1 .. Len(c) : (g[k] \o c)[Len(g[k]) + n] = c[n]
          <6> PICK x : x = g[k]
            OBVIOUS
          <6>1. x \in Seq(Symbol) /\ c \in Seq(Symbol)
            BY <4>2, <5>1
          <6> QED
            BY <6>1, JoinIs
        <5>10. Len(g[k]) \in Nat
          BY <4>3, <5>1
        <5>4. Len(g[k + 1]) = E[k + 1]
          <6>1. Len(g[k + 1]) = E[k] + (s + 1)
            BY <4>2, <5>1, <5>2, <5>3
          <6> QED
            BY <4>3, <6>1
        <5>5. \A p \in 1 .. s : g[k + 1][E[k] + p] = [e |-> k + 1, part |-> p]
          <6>1. \A p \in 1 .. s : p \in 1 .. Len(c)
            BY <4>2, <4>3
          <6> QED
            BY <4>2, <5>1, <5>2, <5>3, <6>1
        <5>6. g[k + 1][E[k + 1]] = Blank
          <6>1. E[k + 1] = Len(g[k]) + (s + 1) /\ s + 1 \in 1 .. Len(c)
            <7>1. E[k + 1] = E[k] + (s + 1)
              BY <4>3
            <7>2. s + 1 \in 1 .. s + 1
              BY <4>3
            <7> QED
              BY <4>2, <5>1, <7>1, <7>2
          <6> QED
            BY <4>2, <5>2, <5>3, <6>1
        <5>7. holds(k + 1, k + 1)
          BY <5>5, <5>6, <4>1 DEF s, holds
        <5>8. ASSUME NEW i \in 1 .. k
              PROVE  holds(k + 1, i)
          <6>1. i \in 1 .. N /\ i \in 0 .. N /\ i - 1 \in 0 .. N /\ k \in 0 .. N /\ i <= k
            BY <1>1, <4>1
          <6>2. E[i] <= E[k] /\ E[i] = E[i - 1] + size(i) + 1 /\ E[i - 1] \in Nat /\ size(i) \in Nat
            BY <1>1, <1>2, <6>1, EndsGrow DEF N, E
          <6>3. \A p \in 1 .. size(i) : E[i - 1] + p \in 1 .. Len(g[k])
            <7> TAKE p \in 1 .. size(i)
            <7>1. p \in Nat /\ p >= 1 /\ p <= size(i)
              BY <6>2
            <7>2. E[i - 1] + p \in 1 .. E[k]
              BY <4>3, <6>2, <7>1
            <7> QED
              BY <5>1, <7>2
          <6>4. E[i] \in 1 .. Len(g[k])
            BY <4>3, <5>1, <6>2
          <6>5. holds(k, i)
            BY <5>1
          <6> QED
            BY <5>2, <5>3, <6>3, <6>4, <6>5 DEF holds
        <5>9. \A i \in 1 .. k + 1 : i = k + 1 \/ i \in 1 .. k
          BY <4>1
        <5>11. \A i \in 1 .. k + 1 : holds(k + 1, i)
          BY <5>7, <5>8, <5>9
        <5> QED
          BY <4>1, <5>4, <5>11 DEF T
      <4> QED
        BY <4>5, <4>6
    <3>3. T = 0 .. N
      <4>1. T \in SUBSET (0 .. N)
        OBVIOUS
      <4> HIDE DEF T
      <4> QED
        BY <1>1, <3>1, <3>2, <4>1, UpTo
    <3>4. N \in T
      <4> HIDE DEF T
      <4> QED
        BY <1>1, <3>3
    <3> QED
      BY <1>7, <3>4
  <2> QED
    BY <1>3, <2>1, <2>2, <2>3 DEF N, E, size
<1> QED
  BY <1>6, <1>7

-----------------------------------------------------------------------------
\* A place in a stream: events that are over with their blank line, and symbols of the next

Cursor(a, d, k, off) ==
  /\ k \in 0 .. Len(a.events) /\ off \in Nat /\ d = Ends(a)[k] + off
  /\ off # 0 => k < Len(a.events) /\ off <= a.events[k + 1].size

\* The line of the next event is complete, and its blank line has not come.
LineEnded(a, k, off) == k < Len(a.events) /\ off = a.events[k + 1].size

\* The line that was begun, and the number of events that were read
Part(a, k, off) ==
  IF LineEnded(a, k, off) THEN <<>> ELSE [p \in 1 .. off |-> [e |-> k + 1, part |-> p]]
LinesRead(a, k, off) == IF LineEnded(a, k, off) THEN k + 1 ELSE k

\* The next symbol
NextSymbol(a, k, off) ==
  IF LineEnded(a, k, off) THEN Blank ELSE [e |-> k + 1, part |-> off + 1]
Onward(a, d, k, off) ==
  IF LineEnded(a, k, off) THEN Cursor(a, d + 1, k + 1, 0) ELSE Cursor(a, d + 1, k, off + 1)

LEMMA CursorStarts ==
  ASSUME NEW a, Good(a)
  PROVE  Cursor(a, 0, 0, 0)
  BY EventsAre, EndsAre DEF Cursor

LEMMA CursorMoves ==
  ASSUME NEW a, Good(a), a.sse, NEW d, NEW k, NEW off, Cursor(a, d, k, off),
         d < Ends(a)[Len(a.events)]
  PROVE  /\ k < Len(a.events) /\ off <= a.events[k + 1].size
         /\ Body(a)[d + 1] = NextSymbol(a, k, off)
         /\ Onward(a, d, k, off)
<1> DEFINE N == Len(a.events)
           E == Ends(a)
<1>1. N \in Nat /\ k \in 0 .. N /\ off \in Nat /\ d = E[k] + off
  BY EventsAre DEF Cursor
<1>2. /\ \A i \in 0 .. N : E[i] \in Nat
      /\ \A i \in 1 .. N : E[i] = E[i - 1] + a.events[i].size + 1
      /\ \A i \in 1 .. N : a.events[i].size \in Nat /\ a.events[i].size >= 1
  BY EndsAre, EventsAre
<1>3. /\ \A i \in 1 .. N : /\ \A p \in 1 .. a.events[i].size : Body(a)[E[i - 1] + p] = [e |-> i, part |-> p]
                           /\ Body(a)[E[i]] = Blank
  BY BodyIs
<1>4. off # 0 => k < N /\ off <= a.events[k + 1].size
  BY DEF Cursor
<1>5. k < N
  <2> SUFFICES ASSUME k = N PROVE FALSE
    BY <1>1
  <2>1. off = 0
    BY <1>1, <1>4
  <2> QED
    BY <1>1, <1>2, <2>1
<1> DEFINE size == a.events[k + 1].size
<1>6. k + 1 \in 1 .. N /\ (k + 1) - 1 = k /\ k + 1 \in 0 .. N /\ k \in Nat
  BY <1>1, <1>5
<1>7. size \in Nat /\ size >= 1 /\ E[k + 1] = E[k] + size + 1 /\ E[k] \in Nat
  BY <1>1, <1>2, <1>6
<1>8. off <= size
  BY <1>1, <1>4, <1>7
<1>9. CASE off = size
  <2>1. LineEnded(a, k, off)
    BY <1>5, <1>9 DEF LineEnded
  <2>2. d + 1 = E[k + 1] /\ E[k + 1] \in Nat /\ E[k + 1] + 0 = E[k + 1]
    BY <1>1, <1>7, <1>9
  <2>3. Body(a)[d + 1] = Blank
    BY <1>3, <1>6, <2>2
  <2>4. Cursor(a, d + 1, k + 1, 0)
    BY <1>6, <2>2 DEF Cursor
  <2> QED
    BY <1>5, <1>8, <2>1, <2>3, <2>4 DEF NextSymbol, Onward
<1>10. CASE off # size
  <2>1. ~LineEnded(a, k, off)
    BY <1>10 DEF LineEnded
  <2>2. d + 1 = E[k] + (off + 1) /\ off + 1 \in 1 .. size /\ off + 1 \in Nat
    <3> HIDE DEF N, E, size
    <3> QED
      BY <1>1, <1>7, <1>8, <1>10
  <2>3. Body(a)[E[k] + (off + 1)] = [e |-> k + 1, part |-> off + 1]
    <3>1. \A p \in 1 .. size : Body(a)[E[(k + 1) - 1] + p] = [e |-> k + 1, part |-> p]
      BY <1>3, <1>6
    <3> QED
      BY <1>6, <2>2, <3>1
  <2>4. Cursor(a, d + 1, k, off + 1)
    BY <1>1, <1>5, <2>2 DEF Cursor
  <2> QED
    BY <1>5, <1>8, <2>1, <2>2, <2>3, <2>4 DEF NextSymbol, Onward
<1> QED
  BY <1>9, <1>10

\* The line of an event
LineOf(a, i) == Symbols(i, a.events[i])

LEMMA LineIs ==
  ASSUME NEW a, Good(a), NEW i \in 1 .. Len(a.events)
  PROVE  /\ LineOf(a, i) # <<Blank>> /\ LineOf(a, i) # <<>>
         /\ IsData(LineOf(a, i)) /\ Whole(a, LineOf(a, i))
         /\ LineOf(a, i)[1].e = i /\ Len(LineOf(a, i)) = a.events[i].size
<1> PICK line : line = LineOf(a, i)
  OBVIOUS
<1>1. i \in Nat /\ i # 0 /\ a.events[i].size \in Nat /\ a.events[i].size >= 1
  BY EventsAre
<1>2. /\ line \in Seq(Symbol) /\ Len(line) = a.events[i].size
      /\ \A p \in 1 .. a.events[i].size : line[p] = [e |-> i, part |-> p]
  BY <1>1, SymbolsAre DEF LineOf
<1>3. line[1] = [e |-> i, part |-> 1]
  BY <1>1, <1>2
<1>4. line # <<Blank>>
  BY <1>1, <1>3 DEF Blank
<1>5. line # <<>>
  BY <1>1, <1>2
<1>6. line[1].e = i /\ line[1].part = 1
  BY <1>3
<1>7. line = Symbols(line[1].e, a.events[line[1].e])
  BY <1>6 DEF LineOf
<1>8. IsData(line) /\ Whole(a, line)
  BY <1>1, <1>5, <1>6, <1>7 DEF IsData, Whole
<1> QED
  BY <1>2, <1>4, <1>5, <1>6, <1>8

\* A line grows by a symbol.
LEMMA LineGrows ==
  ASSUME NEW a, Good(a), NEW k \in Nat, k < Len(a.events), NEW off \in Nat,
         off < a.events[k + 1].size
  PROVE  LET s == NextSymbol(a, k, off)
         IN IF off + 1 = a.events[k + 1].size
            THEN /\ EndsLine(a, s) /\ Append(Part(a, k, off), s) = LineOf(a, k + 1)
                 /\ Part(a, k, off + 1) = <<>>
                 /\ LinesRead(a, k, off) = k /\ LinesRead(a, k, off + 1) = k + 1
            ELSE /\ ~EndsLine(a, s) /\ Append(Part(a, k, off), s) = Part(a, k, off + 1)
                 /\ LinesRead(a, k, off) = k /\ LinesRead(a, k, off + 1) = k
<1> DEFINE size == a.events[k + 1].size
           s == [e |-> k + 1, part |-> off + 1]
           part(n) == [p \in 1 .. n |-> [e |-> k + 1, part |-> p]]
<1>1. size \in Nat /\ size >= 1
  BY EventsAre
<1>2. ~LineEnded(a, k, off)
  BY DEF LineEnded
<1>3. NextSymbol(a, k, off) = s /\ Part(a, k, off) = part(off)
  BY <1>2 DEF NextSymbol, Part
<1>4. part(off) \in Seq(Symbol) /\ Len(part(off)) = off
  <2>1. \A p \in 1 .. off : [e |-> k + 1, part |-> p] \in Symbol
    BY DEF Symbol
  <2> QED
    BY <2>1
<1>5. Append(part(off), s) = part(off + 1)
  <2>1. /\ Append(part(off), s) \in Seq(Symbol) /\ Len(Append(part(off), s)) = off + 1
        /\ \A p \in 1 .. off : Append(part(off), s)[p] = part(off)[p]
        /\ Append(part(off), s)[off + 1] = s
    <3>1. s \in Symbol
      BY DEF Symbol
    <3> HIDE DEF s, part
    <3> QED
      BY <1>4, <3>1
  <2>2. \A p \in 1 .. off + 1 : Append(part(off), s)[p] = part(off + 1)[p]
    <3> TAKE p \in 1 .. off + 1
    <3>1. CASE p = off + 1
      BY <2>1, <3>1
    <3>2. CASE p # off + 1
      <4>1. p \in 1 .. off
        BY <3>2
      <4>2. Append(part(off), s)[p] = part(off)[p]
        BY <2>1, <4>1
      <4> QED
        BY <4>1, <4>2
    <3> QED
      BY <3>1, <3>2
  <2>3. Append(part(off), s) = [p \in 1 .. off + 1 |-> Append(part(off), s)[p]]
    <3> PICK q : q = Append(part(off), s)
      OBVIOUS
    <3>1. q \in Seq(Symbol) /\ Len(q) = off + 1
      BY <2>1
    <3>2. q = [p \in 1 .. off + 1 |-> q[p]]
      BY <3>1
    <3> QED
      BY <3>2
  <2> QED
    BY <2>2, <2>3
<1>6. EndsLine(a, s) <=> off + 1 = size
  <2>1. s # Blank /\ s.e = k + 1 /\ s.part = off + 1 /\ k + 1 # 0
    BY DEF Blank
  <2> HIDE DEF s
  <2> QED
    BY <2>1 DEF EndsLine
<1>7. LineEnded(a, k, off + 1) <=> off + 1 = size
  BY DEF LineEnded
<1>8. off + 1 = size => part(off + 1) = LineOf(a, k + 1)
  BY DEF LineOf, Symbols
<1>9. LinesRead(a, k, off) = k
  BY <1>2 DEF LinesRead
<1>10. Part(a, k, off + 1) = IF off + 1 = size THEN <<>> ELSE part(off + 1)
  BY <1>7 DEF Part
<1>11. LinesRead(a, k, off + 1) = IF off + 1 = size THEN k + 1 ELSE k
  BY <1>7 DEF LinesRead
<1> HIDE DEF s, part
<1> QED
  BY <1>3, <1>5, <1>6, <1>8, <1>9, <1>10, <1>11

\* The blank line comes.
LEMMA LineBreaks ==
  ASSUME NEW a, Good(a), NEW k \in Nat, LineEnded(a, k, a.events[k + 1].size)
  PROVE  LET off == a.events[k + 1].size
             s == NextSymbol(a, k, off)
         IN /\ EndsLine(a, s) /\ Append(Part(a, k, off), s) = <<Blank>> /\ s = Blank
            /\ Part(a, k + 1, 0) = <<>>
            /\ LinesRead(a, k, off) = k + 1 /\ LinesRead(a, k + 1, 0) = k + 1
<1> DEFINE off == a.events[k + 1].size
<1>1. NextSymbol(a, k, off) = Blank /\ Part(a, k, off) = <<>> /\ LinesRead(a, k, off) = k + 1
  BY DEF NextSymbol, Part, LinesRead
<1>2. ~LineEnded(a, k + 1, 0)
  <2> SUFFICES ASSUME k + 1 < Len(a.events), a.events[(k + 1) + 1].size = 0 PROVE FALSE
    BY DEF LineEnded
  <2>1. (k + 1) + 1 \in 1 .. Len(a.events)
    BY EventsAre
  <2> QED
    BY <2>1, EventsAre
<1>3. Part(a, k + 1, 0) = <<>> /\ LinesRead(a, k + 1, 0) = k + 1
  BY <1>2 DEF Part, LinesRead
<1> QED
  BY <1>1, <1>3 DEF EndsLine

-----------------------------------------------------------------------------
\* The summary

\* The numbers of T in their order
Names(s, T) ==
  s \in Seq(Nat) /\ ToSet(s) = T /\ \A m, n \in DOMAIN s : m < n => s[m] < s[n]

LEMMA NamesOneMore ==
  ASSUME NEW s, NEW T, Names(s, T), NEW x \in Nat, \A y \in T : y < x
  PROVE  Names(Append(s, x), T \cup {x})
<1> PICK q : q = Append(s, x)
  OBVIOUS
<1>1. s \in Seq(Nat) /\ ToSet(s) = T /\ Len(s) \in Nat /\ DOMAIN s = 1 .. Len(s)
  BY DEF Names
<1>2. /\ q \in Seq(Nat) /\ Len(q) = Len(s) + 1 /\ DOMAIN q = 1 .. Len(s) + 1
      /\ \A n \in 1 .. Len(s) : q[n] = s[n]
      /\ q[Len(s) + 1] = x
  BY <1>1
<1>3. ToSet(q) = T \cup {x}
  <2>1. \A n \in DOMAIN q : q[n] \in T \cup {x}
    BY <1>1, <1>2 DEF ToSet
  <2>2. \A y \in T : \E n \in DOMAIN q : q[n] = y
    BY <1>1, <1>2 DEF ToSet
  <2>3. \E n \in DOMAIN q : q[n] = x
    BY <1>1, <1>2
  <2> QED
    BY <2>1, <2>2, <2>3 DEF ToSet
<1>4. ASSUME NEW m \in DOMAIN q, NEW n \in DOMAIN q, m < n
      PROVE  q[m] < q[n]
  <2>1. m \in 1 .. Len(s) /\ q[m] = s[m] /\ s[m] \in T
    BY <1>1, <1>2, <1>4 DEF ToSet
  <2>2. CASE n = Len(s) + 1
    BY <1>2, <2>1, <2>2
  <2>3. CASE n # Len(s) + 1
    <3>1. n \in 1 .. Len(s)
      BY <1>1, <1>2, <2>3
    <3>2. s[m] < s[n]
      BY <1>1, <1>4, <2>1, <3>1 DEF Names
    <3> QED
      BY <1>2, <2>1, <3>1, <3>2
  <2> QED
    BY <2>2, <2>3
<1> QED
  BY <1>2, <1>3, <1>4 DEF Names

\* Among the first n events: those that are told, and whether the last word was said
Told(a, n) == {i \in 1 .. n : a.events[i].type # "[DONE]"}
Said(a, n) == \E i \in 1 .. n : a.events[i].type = "[DONE]"

SummaryAcc == [buffer : Seq(Symbol), events : Seq(Nat), done : BOOLEAN, invalid : BOOLEAN]

\* What the reader of n events knows of them
Knows(a, n, buffer, acc) ==
  /\ acc \in SummaryAcc /\ ~acc.invalid /\ acc.buffer = buffer
  /\ Names(acc.events, Told(a, n)) /\ (acc.done <=> Said(a, n))

SummaryAt(a, k, off, acc) == Knows(a, LinesRead(a, k, off), Part(a, k, off), acc)

LEMMA BufferTurns ==
  ASSUME NEW a, NEW n, NEW buffer, NEW acc, Knows(a, n, buffer, acc), NEW x \in Seq(Symbol)
  PROVE  Knows(a, n, x, [acc EXCEPT !.buffer = x])
<1> PICK q : q = [acc EXCEPT !.buffer = x]
  OBVIOUS
<1>1. /\ q \in SummaryAcc /\ q.buffer = x /\ q.events = acc.events
      /\ (q.done <=> acc.done) /\ (q.invalid <=> acc.invalid)
  BY DEF Knows, SummaryAcc
<1> QED
  BY <1>1 DEF Knows

LEMMA PartIsOfSymbols ==
  ASSUME NEW a, NEW k \in Nat, NEW off \in Nat
  PROVE  Part(a, k, off) \in Seq(Symbol)
<1>1. \A p \in 1 .. off : [e |-> k + 1, part |-> p] \in Symbol
  BY DEF Symbol
<1>2. [p \in 1 .. off |-> [e |-> k + 1, part |-> p]] \in Seq(Symbol)
  BY <1>1
<1> QED
  BY <1>2 DEF Part

LEMMA ToldOneMore ==
  ASSUME NEW a, NEW n \in Nat
  PROVE  /\ a.events[n + 1].type = "[DONE]" => Told(a, n + 1) = Told(a, n) /\ Said(a, n + 1)
         /\ a.events[n + 1].type # "[DONE]" =>
              Told(a, n + 1) = Told(a, n) \cup {n + 1} /\ (Said(a, n + 1) <=> Said(a, n))
<1>1. \A i : i \in 1 .. n + 1 <=> i \in 1 .. n \/ i = n + 1
  OBVIOUS
<1> QED
  BY <1>1 DEF Told, Said

LEMMA SummaryOfLine ==
  ASSUME NEW a, Good(a), NEW k \in Nat, k < Len(a.events), NEW buffer, NEW acc,
         Knows(a, k, buffer, acc)
  PROVE  Knows(a, k + 1, buffer, SummaryLine(a, acc, LineOf(a, k + 1)))
<1> PICK line : line = LineOf(a, k + 1)
  OBVIOUS
<1> PICK next : next = SummaryLine(a, acc, line)
  OBVIOUS
<1> DEFINE type == a.events[k + 1].type
<1>1. k + 1 \in 1 .. Len(a.events) /\ k + 1 \in Nat
  BY EventsAre
<1>2. IsData(line) /\ Whole(a, line) /\ line[1].e = k + 1
  BY <1>1, LineIs
<1>3. /\ acc \in SummaryAcc /\ ~acc.invalid /\ acc.buffer = buffer
      /\ Names(acc.events, Told(a, k)) /\ (acc.done <=> Said(a, k))
  BY DEF Knows
<1>4. CASE type = "[DONE]"
  <2>1. Told(a, k + 1) = Told(a, k) /\ Said(a, k + 1)
    BY <1>4, ToldOneMore
  <2>2. next = [acc EXCEPT !.done = TRUE]
    BY <1>2, <1>3, <1>4 DEF SummaryLine
  <2>3. /\ next \in SummaryAcc /\ next.buffer = acc.buffer /\ next.events = acc.events
        /\ next.done /\ (next.invalid <=> acc.invalid)
    BY <1>3, <2>2 DEF SummaryAcc
  <2> QED
    BY <1>3, <2>1, <2>3 DEF Knows
<1>5. CASE type # "[DONE]"
  <2>1. Told(a, k + 1) = Told(a, k) \cup {k + 1} /\ (Said(a, k + 1) <=> Said(a, k))
    BY <1>5, ToldOneMore
  <2>2. \A y \in Told(a, k) : y < k + 1
    BY DEF Told
  <2> PICK more : more = Append(acc.events, k + 1)
    OBVIOUS
  <2>3. Names(more, Told(a, k + 1))
    BY <1>1, <1>3, <2>1, <2>2, NamesOneMore
  <2>4. more \in Seq(Nat)
    BY <2>3 DEF Names
  <2>5. next = [acc EXCEPT !.events = more]
    BY <1>2, <1>3, <1>5 DEF SummaryLine
  <2>6. /\ next \in SummaryAcc /\ next.buffer = acc.buffer /\ next.events = more
        /\ (next.done <=> acc.done) /\ (next.invalid <=> acc.invalid)
    BY <1>3, <2>4, <2>5 DEF SummaryAcc
  <2> QED
    BY <1>3, <2>1, <2>3, <2>6 DEF Knows
<1> QED
  BY <1>4, <1>5

LEMMA SummaryMoves ==
  ASSUME NEW a, Good(a), NEW k \in Nat, k < Len(a.events), NEW off \in Nat,
         off <= a.events[k + 1].size, NEW acc, SummaryAt(a, k, off, acc)
  PROVE  IF LineEnded(a, k, off)
         THEN SummaryAt(a, k + 1, 0, SummarySymbol(a, acc, NextSymbol(a, k, off)))
         ELSE SummaryAt(a, k, off + 1, SummarySymbol(a, acc, NextSymbol(a, k, off)))
<1> DEFINE size == a.events[k + 1].size
           s == NextSymbol(a, k, off)
           empty == [acc EXCEPT !.buffer = <<>>]
           next == SummarySymbol(a, acc, s)
<1>1. acc.buffer = Part(a, k, off) /\ Knows(a, LinesRead(a, k, off), Part(a, k, off), acc)
  BY DEF SummaryAt, Knows
<1>2. size \in Nat
  BY EventsAre
<1>3. Knows(a, LinesRead(a, k, off), <<>>, empty)
  <2> PICK none : none = <<>>
    OBVIOUS
  <2>1. none \in Seq(Symbol)
    OBVIOUS
  <2> QED
    BY <1>1, <2>1, BufferTurns
<1>4. next = IF EndsLine(a, s) THEN SummaryLine(a, empty, Append(Part(a, k, off), s))
             ELSE [acc EXCEPT !.buffer = Append(Part(a, k, off), s)]
  BY <1>1 DEF SummarySymbol
<1> HIDE DEF size, s, empty, next
<1>5. CASE off = size
  <2>1. LineEnded(a, k, off)
    BY <1>5 DEF LineEnded, size
  <2>2. /\ EndsLine(a, s) /\ Append(Part(a, k, off), s) = <<Blank>>
        /\ Part(a, k + 1, 0) = <<>>
        /\ LinesRead(a, k, off) = k + 1 /\ LinesRead(a, k + 1, 0) = k + 1
    BY <1>5, <2>1, LineBreaks DEF size, s
  <2>3. SummaryLine(a, empty, <<Blank>>) = empty
    BY DEF SummaryLine, IsData, Blank
  <2>4. next = empty
    BY <1>4, <2>2, <2>3
  <2>5. SummaryAt(a, k + 1, 0, next)
    BY <1>3, <2>2, <2>4 DEF SummaryAt
  <2> QED
    BY <2>1, <2>5 DEF next, s
<1>6. CASE off # size
  <2>1. ~LineEnded(a, k, off) /\ off < size
    BY <1>2, <1>6 DEF LineEnded, size
  <2>2. IF off + 1 = size
        THEN /\ EndsLine(a, s) /\ Append(Part(a, k, off), s) = LineOf(a, k + 1)
             /\ Part(a, k, off + 1) = <<>>
             /\ LinesRead(a, k, off) = k /\ LinesRead(a, k, off + 1) = k + 1
        ELSE /\ ~EndsLine(a, s) /\ Append(Part(a, k, off), s) = Part(a, k, off + 1)
             /\ LinesRead(a, k, off) = k /\ LinesRead(a, k, off + 1) = k
    BY <2>1, LineGrows DEF size, s
  <2>3. CASE off + 1 = size
    <3>1. Knows(a, k, <<>>, empty)
      BY <1>3, <2>2, <2>3
    <3>2. Knows(a, k + 1, <<>>, SummaryLine(a, empty, LineOf(a, k + 1)))
      BY <3>1, SummaryOfLine
    <3>3. SummaryAt(a, k, off + 1, next)
      BY <1>4, <2>2, <2>3, <3>2 DEF SummaryAt
    <3> QED
      BY <2>1, <3>3 DEF next, s
  <2>4. CASE off + 1 # size
    <3>1. next = [acc EXCEPT !.buffer = Part(a, k, off + 1)]
      BY <1>4, <2>2, <2>4
    <3>2. Part(a, k, off + 1) \in Seq(Symbol)
      BY PartIsOfSymbols
    <3>3. Knows(a, k, Part(a, k, off + 1), next)
      BY <1>1, <2>2, <2>4, <3>1, <3>2, BufferTurns
    <3>4. SummaryAt(a, k, off + 1, next)
      BY <2>2, <2>4, <3>3 DEF SummaryAt
    <3> QED
      BY <2>1, <3>4 DEF next, s
  <2> QED
    BY <2>3, <2>4
<1> QED
  BY <1>5, <1>6

\* What a reader of the first d symbols knows
SummaryRead(a, d, acc) == \E k, off : Cursor(a, d, k, off) /\ SummaryAt(a, k, off, acc)

LEMMA SummaryStarts ==
  ASSUME NEW a, Good(a)
  PROVE  SummaryRead(a, 0, NoSummary)
<1>1. ~LineEnded(a, 0, 0)
  <2>1. 0 < Len(a.events) => a.events[0 + 1].size # 0
    <3>1. 0 < Len(a.events) => 1 \in 1 .. Len(a.events) /\ 0 + 1 = 1
      BY EventsAre
    <3> QED
      BY <3>1, EventsAre
  <2> QED
    BY <2>1 DEF LineEnded
<1>2. Part(a, 0, 0) = <<>> /\ LinesRead(a, 0, 0) = 0
  BY <1>1 DEF Part, LinesRead
<1>3. Names(<<>>, Told(a, 0)) /\ ~Said(a, 0)
  BY DEF Names, Told, Said, ToSet
<1>5. /\ NoSummary \in SummaryAcc /\ ~NoSummary.invalid /\ ~NoSummary.done
      /\ NoSummary.buffer = <<>> /\ NoSummary.events = <<>>
  BY DEF NoSummary, SummaryAcc
<1>4. SummaryAt(a, 0, 0, NoSummary)
  BY <1>2, <1>3, <1>5 DEF SummaryAt, Knows
<1> QED
  BY <1>4, CursorStarts DEF SummaryRead

LEMMA SummaryReadsOn ==
  ASSUME NEW a, Good(a), a.sse, NEW d, NEW acc, SummaryRead(a, d, acc),
         d < Ends(a)[Len(a.events)]
  PROVE  SummaryRead(a, d + 1, SummarySymbol(a, acc, Body(a)[d + 1]))
<1> PICK k, off : Cursor(a, d, k, off) /\ SummaryAt(a, k, off, acc)
  BY DEF SummaryRead
<1> PICK next : next = SummarySymbol(a, acc, Body(a)[d + 1])
  OBVIOUS
<1>1. /\ k < Len(a.events) /\ off <= a.events[k + 1].size
      /\ Body(a)[d + 1] = NextSymbol(a, k, off)
      /\ Onward(a, d, k, off)
  BY CursorMoves
<1>2. k \in Nat /\ off \in Nat
  BY EventsAre DEF Cursor
<1>3. IF LineEnded(a, k, off) THEN SummaryAt(a, k + 1, 0, next) ELSE SummaryAt(a, k, off + 1, next)
  BY <1>1, <1>2, SummaryMoves
<1> QED
  BY <1>1, <1>3 DEF Onward, SummaryRead

SummaryReading(a, acc, chunk, read) ==
  /\ SummaryChunk(a, acc, chunk) = read[Len(chunk)] /\ read[0] = acc
  /\ \A n \in 1 .. Len(chunk) : read[n] = SummarySymbol(a, read[n - 1], chunk[n])

LEMMA SummaryReads ==
  ASSUME NEW a, NEW acc, NEW chunk \in Seq(Symbol)
  PROVE  \E read : SummaryReading(a, acc, chunk, read)
<1> DEFINE N == Len(chunk)
           runs(g, k) == g = [n \in 0 .. k |-> IF n = 0 THEN acc ELSE SummarySymbol(a, g[n - 1], chunk[n])]
           T == {k \in 0 .. N : \E g : runs(g, k)}
           read == CHOOSE g : runs(g, N)
<1>1. N \in Nat
  OBVIOUS
<1>2. SummaryChunk(a, acc, chunk) = read[N]
  BY DEF SummaryChunk
<1> HIDE DEF N
<1>3. 0 \in T
  <2> DEFINE g == [n \in 0 .. 0 |-> acc]
  <2>1. runs(g, 0)
    OBVIOUS
  <2> HIDE DEF g, runs
  <2> QED
    BY <1>1, <2>1
<1>4. ASSUME NEW k \in T, k < N
      PROVE  k + 1 \in T
  <2>1. PICK g : runs(g, k)
    OBVIOUS
  <2>2. k \in Nat
    BY <1>1
  <2> DEFINE h == [n \in 0 .. k + 1 |->
                     IF n = k + 1 THEN SummarySymbol(a, g[k], chunk[k + 1]) ELSE g[n]]
  <2>3. \A n \in 0 .. k + 1 : h[n] = IF n = 0 THEN acc ELSE SummarySymbol(a, h[n - 1], chunk[n])
    <3> TAKE n \in 0 .. k + 1
    <3>1. CASE n = k + 1
      BY <3>1, <2>2
    <3>2. CASE n # k + 1
      <4>1. n \in 0 .. k /\ (n # 0 => n - 1 \in 0 .. k /\ n - 1 # k + 1)
        BY <3>2, <2>2
      <4>2. g[n] = IF n = 0 THEN acc ELSE SummarySymbol(a, g[n - 1], chunk[n])
        BY <2>1, <4>1
      <4> QED
        BY <3>2, <4>1, <4>2
    <3> QED
      BY <3>1, <3>2
  <2>4. h = [n \in 0 .. k + 1 |-> h[n]]
    OBVIOUS
  <2>5. runs(h, k + 1)
    <3> HIDE DEF h
    <3> QED
      BY <2>3, <2>4
  <2>6. k + 1 \in 0 .. N
    BY <1>1, <1>4, <2>2
  <2> HIDE DEF h, runs
  <2> QED
    BY <2>5, <2>6
<1>5. runs(read, N)
  <2>1. T = 0 .. N
    <3>1. T \in SUBSET (0 .. N)
      OBVIOUS
    <3> HIDE DEF T
    <3> QED
      BY <1>1, <1>3, <1>4, <3>1, UpTo
  <2>2. N \in T
    <3> HIDE DEF T
    <3> QED
      BY <1>1, <2>1
  <2>3. \E g : runs(g, N)
    BY <2>2
  <2> HIDE DEF runs
  <2> QED
    BY <2>3
<1> HIDE DEF read
<1>6. \A n \in 0 .. N : read[n] = IF n = 0 THEN acc ELSE SummarySymbol(a, read[n - 1], chunk[n])
  BY <1>5
<1>7. read[0] = acc
  BY <1>1, <1>6
<1>8. \A n \in 1 .. N : read[n] = SummarySymbol(a, read[n - 1], chunk[n])
  BY <1>1, <1>6
<1> QED
  BY <1>2, <1>7, <1>8 DEF N, SummaryReading

Chunked(V, body, d, n, chunk) ==
  chunk \in Seq(V) /\ Len(chunk) = n /\ \A m \in 1 .. n : chunk[m] = body[d + m]

LEMMA ChunkIs ==
  ASSUME NEW V, NEW body \in Seq(V), NEW d \in Nat, NEW n \in Nat, d + n <= Len(body)
  PROVE  Chunked(V, body, d, n, SubSeq(body, d + 1, d + n))
<1> PICK chunk : chunk = SubSeq(body, d + 1, d + n)
  OBVIOUS
<1>1. Len(chunk) = n
  OBVIOUS
<1>2. \A m \in 1 .. n : chunk[m] = body[d + m] /\ d + m \in 1 .. Len(body)
  OBVIOUS
<1>3. chunk \in Seq(V)
  BY <1>1, <1>2
<1> QED
  BY <1>1, <1>2, <1>3 DEF Chunked

\* A chunk of the body, read symbol by symbol
LEMMA SummaryReadsChunk ==
  ASSUME NEW a, Good(a), a.sse, NEW d \in Nat, NEW acc, SummaryRead(a, d, acc),
         NEW n \in Nat, d + n <= Len(Body(a))
  PROVE  SummaryRead(a, d + n, SummaryChunk(a, acc, SubSeq(Body(a), d + 1, d + n)))
<1> PICK chunk : chunk = SubSeq(Body(a), d + 1, d + n)
  OBVIOUS
<1>1. Body(a) \in Seq(Symbol) /\ Len(Body(a)) = Ends(a)[Len(a.events)]
  BY BodyIs
<1>2. chunk \in Seq(Symbol) /\ Len(chunk) = n /\ \A m \in 1 .. n : chunk[m] = Body(a)[d + m]
  <2> PICK body : body = Body(a)
    OBVIOUS
  <2>1. Chunked(Symbol, body, d, n, SubSeq(body, d + 1, d + n))
    BY <1>1, ChunkIs
  <2> QED
    BY <2>1 DEF Chunked
<1>3. PICK read : /\ SummaryChunk(a, acc, chunk) = read[Len(chunk)] /\ read[0] = acc
                  /\ \A m \in 1 .. Len(chunk) : read[m] = SummarySymbol(a, read[m - 1], chunk[m])
  <2> PICK read : SummaryReading(a, acc, chunk, read)
    BY <1>2, SummaryReads
  <2> QED
    BY DEF SummaryReading
<1> DEFINE T == {m \in 0 .. n : SummaryRead(a, d + m, read[m])}
<1>4. 0 \in T
  BY <1>3
<1>5. ASSUME NEW m \in T, m < n
      PROVE  m + 1 \in T
  <2>1. /\ m \in Nat /\ m + 1 \in 1 .. n /\ (m + 1) - 1 = m /\ m + 1 \in 0 .. n
        /\ d + (m + 1) = (d + m) + 1 /\ d + m < Len(Body(a))
    BY <1>1, <1>5
  <2>2. SummaryRead(a, d + m, read[m])
    OBVIOUS
  <2>3. read[m + 1] = SummarySymbol(a, read[m], Body(a)[(d + m) + 1])
    BY <1>2, <1>3, <2>1
  <2>4. SummaryRead(a, (d + m) + 1, read[m + 1])
    BY <1>1, <2>1, <2>2, <2>3, SummaryReadsOn
  <2> QED
    BY <2>1, <2>4
<1>6. T = 0 .. n
  <2>1. T \in SUBSET (0 .. n)
    OBVIOUS
  <2> HIDE DEF T
  <2> QED
    BY <1>4, <1>5, <2>1, UpTo
<1>7. n \in T
  <2> HIDE DEF T
  <2> QED
    BY <1>6
<1> QED
  BY <1>2, <1>3, <1>7

-----------------------------------------------------------------------------
\* What arrived of a stream

Arriving(a, d) == {i \in DOMAIN a.events : Ends(a)[i] - 1 <= d}
TornAt(a, d) == \E i \in DOMAIN a.events \ Arriving(a, d) : d > Ends(a)[i] - 1 - a.events[i].size

LEMMA WhatArrives ==
  ASSUME NEW a, Good(a), NEW d, NEW k, NEW off, Cursor(a, d, k, off)
  PROVE  /\ k \in Nat /\ off \in Nat /\ LinesRead(a, k, off) \in 0 .. Len(a.events)
         /\ Arriving(a, d) = 1 .. LinesRead(a, k, off)
         /\ TornAt(a, d) <=> ~LineEnded(a, k, off) /\ off # 0
<1> DEFINE N == Len(a.events)
           E == Ends(a)
           size(i) == a.events[i].size
<1>1. N \in Nat /\ DOMAIN a.events = 1 .. N /\ k \in 0 .. N /\ k \in Nat /\ off \in Nat /\ d = E[k] + off
  BY EventsAre DEF Cursor
<1>2. /\ \A i \in 0 .. N : E[i] \in Nat
      /\ \A i \in 1 .. N : E[i] = E[i - 1] + size(i) + 1
      /\ \A i \in 1 .. N : size(i) \in Nat /\ size(i) >= 1
  BY EndsAre, EventsAre
<1>3. off # 0 => k < N /\ off <= size(k + 1)
  BY DEF Cursor
<1>4. \A i, j \in 0 .. N : i <= j => E[i] <= E[j]
  BY EndsGrow
<1>5. Arriving(a, d) = {i \in 1 .. N : E[i] - 1 <= d}
  BY <1>1 DEF Arriving
<1>13. d \in Nat /\ \A i \in 1 .. N : E[i] \in Nat
  BY <1>1, <1>2
<1>6. TornAt(a, d) <=> \E i \in 1 .. N : E[i] - 1 > d /\ d > E[i] - 1 - size(i)
  <2> PICK coming : coming = DOMAIN a.events \ Arriving(a, d)
    OBVIOUS
  <2>1. \A i : i \in coming <=> i \in 1 .. N /\ ~(E[i] - 1 <= d)
    BY <1>1, <1>5, Zenon
  <2>2. \A i \in 1 .. N : ~(E[i] - 1 <= d) <=> E[i] - 1 > d
    BY <1>13
  <2>3. TornAt(a, d) <=> \E i \in coming : d > E[i] - 1 - size(i)
    BY Zenon DEF TornAt
  <2> HIDE DEF N, E, size
  <2> QED
    BY <2>1, <2>2, <2>3, Zenon
<1>7. LineEnded(a, k, off) <=> k < N /\ off = size(k + 1)
  BY DEF LineEnded
<1> HIDE DEF N, E, size
<1>8. \A i \in 1 .. N : i <= k => E[i] - 1 <= d
  BY <1>1, <1>2, <1>4
<1>9. k < N => k + 1 \in 1 .. N /\ E[k + 1] = E[k] + size(k + 1) + 1 /\ E[k] \in Nat
                 /\ size(k + 1) \in Nat /\ size(k + 1) >= 1 /\ off <= size(k + 1)
  <2> SUFFICES ASSUME k < N PROVE k + 1 \in 1 .. N /\ E[k + 1] = E[k] + size(k + 1) + 1 /\ E[k] \in Nat
                 /\ size(k + 1) \in Nat /\ size(k + 1) >= 1 /\ off <= size(k + 1)
    OBVIOUS
  <2>1. k + 1 \in 1 .. N /\ (k + 1) - 1 = k
    BY <1>1
  <2> QED
    BY <1>1, <1>2, <1>3, <2>1
<1>10. \A i \in 1 .. N : i > k + 1 => E[i] - 1 > d /\ d < E[i] - 1 - size(i)
  <2> TAKE i \in 1 .. N
  <2> HAVE i > k + 1
  <2>1. k < N /\ k + 1 \in 0 .. N /\ i - 1 \in 0 .. N /\ k + 1 <= i - 1
    BY <1>1
  <2>2. E[k + 1] <= E[i - 1] /\ E[i] = E[i - 1] + size(i) + 1 /\ E[i - 1] \in Nat /\ size(i) \in Nat
    BY <1>2, <1>4, <2>1
  <2>3. /\ E[k + 1] = E[k] + size(k + 1) + 1 /\ E[k] \in Nat /\ size(k + 1) \in Nat
        /\ off <= size(k + 1)
    BY <1>9, <2>1
  <2>4. d < E[k + 1] /\ E[k + 1] \in Nat /\ d \in Nat
    BY <1>1, <2>3
  <2>5. d < E[i - 1]
    BY <2>2, <2>4
  <2>6. E[i] - 1 = E[i - 1] + size(i) /\ E[i] - 1 - size(i) = E[i - 1]
    BY <2>2
  <2> QED
    BY <2>2, <2>4, <2>5, <2>6
<1>11. CASE LineEnded(a, k, off)
  <2>1. LinesRead(a, k, off) = k + 1 /\ k + 1 \in 1 .. N
    BY <1>7, <1>9, <1>11 DEF LinesRead
  <2>2. E[k + 1] - 1 <= d
    BY <1>1, <1>7, <1>9, <1>11
  <2>3. \A i \in 1 .. N : E[i] - 1 <= d <=> i <= k + 1
    <3> TAKE i \in 1 .. N
    <3>1. i <= k \/ i = k + 1 \/ i > k + 1
      BY <1>1
    <3>2. E[i] \in Nat /\ d \in Nat
      BY <1>13
    <3> QED
      BY <1>1, <1>8, <1>10, <2>2, <3>1, <3>2
  <2>4. Arriving(a, d) = 1 .. k + 1
    <3>1. \A i : i \in 1 .. k + 1 <=> i \in 1 .. N /\ i <= k + 1
      BY <1>1, <2>1
    <3> QED
      BY <1>5, <2>3, <3>1
  <2>5. ~TornAt(a, d)
    <3> SUFFICES ASSUME NEW i \in 1 .. N, E[i] - 1 > d, d > E[i] - 1 - size(i)
                 PROVE  FALSE
      BY <1>6
    <3>1. i > k + 1 /\ E[i] \in Nat /\ size(i) \in Nat /\ d \in Nat
      BY <1>1, <1>2, <1>13, <2>3
    <3> QED
      BY <1>10, <3>1
  <2> QED
    BY <1>1, <1>11, <2>1, <2>4, <2>5 DEF N
<1>12. CASE ~LineEnded(a, k, off)
  <2>1. LinesRead(a, k, off) = k
    BY <1>12 DEF LinesRead
  <2>2. k < N => E[k + 1] - 1 > d
    BY <1>1, <1>7, <1>9, <1>12
  <2>3. \A i \in 1 .. N : E[i] - 1 <= d <=> i <= k
    <3> TAKE i \in 1 .. N
    <3>1. i <= k \/ (i = k + 1 /\ k < N) \/ i > k + 1
      BY <1>1
    <3>2. E[i] \in Nat /\ d \in Nat
      BY <1>13
    <3> QED
      BY <1>1, <1>8, <1>10, <2>2, <3>1, <3>2
  <2>4. Arriving(a, d) = 1 .. k
    <3>1. \A i : i \in 1 .. k <=> i \in 1 .. N /\ i <= k
      BY <1>1
    <3> QED
      BY <1>5, <2>3, <3>1
  <2>5. TornAt(a, d) <=> off # 0
    <3>1. ASSUME off # 0 PROVE TornAt(a, d)
      <4>1. k < N
        BY <1>3, <3>1
      <4>2. E[k + 1] - 1 > d /\ d > E[k + 1] - 1 - size(k + 1) /\ k + 1 \in 1 .. N
        BY <1>1, <1>9, <2>2, <3>1, <4>1
      <4> QED
        BY <1>6, <4>2
    <3>2. ASSUME TornAt(a, d) PROVE off # 0
      <4>1. PICK i \in 1 .. N : E[i] - 1 > d /\ d > E[i] - 1 - size(i)
        BY <1>6, <3>2
      <4>2. E[i] \in Nat /\ size(i) \in Nat /\ d \in Nat
        BY <1>2, <1>13
      <4>3. i = k + 1 /\ k < N
        BY <1>1, <1>10, <2>3, <4>1, <4>2
      <4> QED
        BY <1>1, <1>9, <4>1, <4>2, <4>3
    <3> QED
      BY <3>1, <3>2
  <2> QED
    BY <1>1, <1>12, <2>1, <2>4, <2>5 DEF N
<1> QED
  BY <1>11, <1>12

\* What is said of a stream of which d symbols arrived
SummaryIs(a, d, summary) ==
  LET told == {i \in Arriving(a, d) : a.events[i].type # "[DONE]"}
  IN IF TornAt(a, d) \/ told = {} THEN summary = None
     ELSE /\ summary # None /\ summary.done = (told # Arriving(a, d))
          /\ ToSet(summary.events) = told
          /\ \A m, n \in DOMAIN summary.events : m < n => summary.events[m] < summary.events[n]

\* A line that is not complete
LEMMA PartIs ==
  ASSUME NEW a, Good(a), NEW d, NEW k, NEW off, Cursor(a, d, k, off)
  PROVE  IF TornAt(a, d)
         THEN /\ Part(a, k, off) # <<>> /\ Part(a, k, off) # <<Blank>>
              /\ IsData(Part(a, k, off)) /\ ~Whole(a, Part(a, k, off))
              /\ Part(a, k, off) \in Seq(Symbol)
         ELSE Part(a, k, off) = <<>>
<1>1. k \in Nat /\ off \in Nat /\ (TornAt(a, d) <=> ~LineEnded(a, k, off) /\ off # 0)
  BY WhatArrives
<1>2. CASE ~TornAt(a, d)
  BY <1>1, <1>2 DEF Part
<1>3. CASE TornAt(a, d)
  <2>1. k < Len(a.events) /\ off # a.events[k + 1].size
    BY <1>1, <1>3 DEF Cursor, LineEnded
  <2> PICK part : part = [p \in 1 .. off |-> [e |-> k + 1, part |-> p]]
    OBVIOUS
  <2>2. part = Part(a, k, off)
    BY <1>1, <1>3 DEF Part
  <2>3. part \in Seq(Symbol) /\ Len(part) = off /\ part[1] = [e |-> k + 1, part |-> 1] /\ off >= 1
    <3>1. Part(a, k, off) \in Seq(Symbol)
      BY <1>1, PartIsOfSymbols
    <3>2. 1 \in 1 .. off
      BY <1>1, <1>3
    <3> QED
      BY <1>1, <2>2, <3>1, <3>2
  <2>4. part[1].e = k + 1 /\ part[1].part = 1 /\ k + 1 # 0
    BY <1>1, <2>3
  <2>5. part # <<>> /\ part # <<Blank>>
    <3>1. part # <<>>
      BY <2>3
    <3>2. part # <<Blank>>
      <4>1. part[1] # Blank
        BY <2>4 DEF Blank
      <4>2. \A b : <<b>>[1] = b
        OBVIOUS
      <4>3. <<Blank>>[1] = Blank
        BY <4>2
      <4> HIDE DEF Blank
      <4> QED
        BY <4>1, <4>3, Zenon
    <3> QED
      BY <3>1, <3>2
  <2>6. ~Whole(a, part)
    <3> SUFFICES ASSUME part = Symbols(k + 1, a.events[k + 1]) PROVE FALSE
      BY <2>4 DEF Whole
    <3>1. a.events[k + 1].size \in Nat
      <4>1. k + 1 \in 1 .. Len(a.events)
        BY <1>1, <2>1, EventsAre
      <4> QED
        BY <4>1, EventsAre
    <3>2. Len(Symbols(k + 1, a.events[k + 1])) = a.events[k + 1].size
      BY <1>1, <3>1, SymbolsAre
    <3> QED
      BY <2>1, <2>3, <3>2
  <2>7. IsData(part)
    BY <2>4 DEF IsData
  <2> QED
    BY <1>3, <2>2, <2>3, <2>5, <2>6, <2>7
<1> QED
  BY <1>2, <1>3

LEMMA SummaryTells ==
  ASSUME NEW a, Good(a), NEW d, NEW acc, SummaryRead(a, d, acc)
  PROVE  SummaryIs(a, d, SummaryEnd(a, acc))
<1> PICK k, off : Cursor(a, d, k, off) /\ SummaryAt(a, k, off, acc)
  BY DEF SummaryRead
<1> DEFINE n == LinesRead(a, k, off)
           told == {i \in Arriving(a, d) : a.events[i].type # "[DONE]"}
<1>1. Arriving(a, d) = 1 .. n /\ n \in Nat
  BY WhatArrives, EventsAre
<1>2. /\ acc \in SummaryAcc /\ ~acc.invalid /\ acc.buffer = Part(a, k, off)
      /\ Names(acc.events, Told(a, n)) /\ (acc.done <=> Said(a, n))
  BY DEF SummaryAt, Knows
<1>3. told = Told(a, n)
  BY <1>1 DEF Told
<1>4. CASE TornAt(a, d)
  <2>1. acc.buffer # <<>> /\ IsData(acc.buffer) /\ ~Whole(a, acc.buffer)
    BY <1>2, <1>4, PartIs
  <2> PICK read : read = [acc EXCEPT !.invalid = TRUE]
    OBVIOUS
  <2>2. SummaryLine(a, acc, acc.buffer) = read
    BY <1>2, <2>1 DEF SummaryLine
  <2>3. read.invalid
    BY <1>2 DEF SummaryAcc
  <2>4. SummaryEnd(a, acc) = None
    BY <2>1, <2>2, <2>3 DEF SummaryEnd
  <2> QED
    BY <1>4, <2>4 DEF SummaryIs
<1>5. CASE ~TornAt(a, d)
  <2>1. acc.buffer = <<>>
    BY <1>2, <1>5, PartIs
  <2>2. acc.events \in Seq(Nat) /\ ToSet(acc.events) = told
        /\ \A l, m \in DOMAIN acc.events : l < m => acc.events[l] < acc.events[m]
    BY <1>2, <1>3 DEF Names
  <2>3. acc.events = <<>> <=> told = {}
    <3>1. acc.events = <<>> <=> ToSet(acc.events) = {}
      <4> PICK s : s = acc.events
        OBVIOUS
      <4>1. s \in Seq(Nat)
        BY <2>2
      <4>2. s # <<>> => 1 \in DOMAIN s
        BY <4>1
      <4>3. s = <<>> => DOMAIN s = {}
        OBVIOUS
      <4> QED
        BY <4>2, <4>3 DEF ToSet
    <3> QED
      BY <2>2, <3>1
  <2>4. SummaryEnd(a, acc) = IF acc.events = <<>> THEN None
                             ELSE [events |-> acc.events, done |-> acc.done]
    BY <1>2, <2>1 DEF SummaryEnd
  <2>5. CASE told = {}
    BY <2>3, <2>4, <2>5 DEF SummaryIs
  <2>6. CASE told # {}
    <3> PICK s : s = [events |-> acc.events, done |-> acc.done]
      OBVIOUS
    <3>1. SummaryEnd(a, acc) = s
      BY <2>3, <2>4, <2>6
    <3>2. s.events = acc.events /\ s.done = acc.done
      OBVIOUS
    <3>3. s \in [events : Seq(Nat), done : BOOLEAN]
      BY <1>2, <2>2 DEF SummaryAcc
    <3>4. s # None
      BY <3>3, RelayAssumption
    <3>5. Said(a, n) <=> told # Arriving(a, d)
      BY <1>1, <1>3 DEF Said, Told
    <3>6. s.done = (told # Arriving(a, d))
      BY <1>2, <3>2, <3>5 DEF SummaryAcc
    <3> QED
      BY <1>5, <2>2, <2>6, <3>1, <3>2, <3>4, <3>6 DEF SummaryIs
  <2> QED
    BY <2>5, <2>6
<1> QED
  BY <1>4, <1>5

-----------------------------------------------------------------------------
\* The usage

Reports(a) == {None} \cup {a.events[i].usage : i \in DOMAIN a.events}

UsageAcc(a) ==
  [buffer : Seq(Symbol), lines : Seq(Seq(Symbol)), bytes : Nat, discard : BOOLEAN,
   truncated : BOOLEAN, terminal : BOOLEAN, start : Reports(a), last : Reports(a)]

\* Of the first n events: one that is too large, the last of some types, and one that ends
TooLarge(a, n) == \E i \in 1 .. n : a.events[i].size > MaxUsageEvent

LastAmong(a, n, types) ==
  LET found == {i \in 1 .. n : a.events[i].type \in types}
  IN IF found = {} THEN None ELSE a.events[Max(found)].usage

Ending(kind) ==
  {"[DONE]"} \cup
    (IF kind = "responses" THEN {"response.completed", "response.incomplete"}
     ELSE IF kind = "messages" THEN {"message_stop"} ELSE {})
Ended(a, n) == \E i \in 1 .. n : a.events[i].type \in Ending(a.kind)

\* What a reader of n events has seen
Seen(a, n, acc) ==
  /\ acc.terminal <=> Ended(a, n)
  /\ a.kind = "messages" => acc.start = LastAmong(a, n, {"message_start"})
  /\ a.kind = "messages" => acc.last = LastAmong(a, n, {"message_delta"})
  /\ a.kind = "responses" =>
       acc.last = LastAmong(a, n, {"response.completed", "response.incomplete"})
  /\ a.kind = "chat" => acc.last = LastAmong(a, n, {"usage"})

LEMMA OneMoreIs ==
  ASSUME NEW a, NEW n \in Nat
  PROVE  /\ TooLarge(a, n + 1) <=> TooLarge(a, n) \/ a.events[n + 1].size > MaxUsageEvent
         /\ Ended(a, n + 1) <=> Ended(a, n) \/ a.events[n + 1].type \in Ending(a.kind)
<1>1. \A i : i \in 1 .. n + 1 <=> i \in 1 .. n \/ i = n + 1
  OBVIOUS
<1> QED
  BY <1>1 DEF TooLarge, Ended

LEMMA LastOneMore ==
  ASSUME NEW a, NEW n \in Nat, NEW types
  PROVE  LastAmong(a, n + 1, types) =
           IF a.events[n + 1].type \in types THEN a.events[n + 1].usage ELSE LastAmong(a, n, types)
<1> DEFINE found(m) == {i \in 1 .. m : a.events[i].type \in types}
<1>1. \A i : i \in 1 .. n + 1 <=> i \in 1 .. n \/ i = n + 1
  OBVIOUS
<1>2. CASE a.events[n + 1].type \in types
  <2>1. n + 1 \in found(n + 1) /\ \A i \in found(n + 1) : i <= n + 1
    BY <1>2
  <2>2. \A i \in found(n + 1) : i \in Nat
    OBVIOUS
  <2>3. Max(found(n + 1)) = n + 1
    <3> HIDE DEF found
    <3>1. \A x \in found(n + 1) : (\A i \in found(n + 1) : i <= x) => x = n + 1
      <4> TAKE x \in found(n + 1)
      <4> HAVE \A i \in found(n + 1) : i <= x
      <4>1. n + 1 <= x /\ x <= n + 1 /\ x \in Nat
        BY <2>1, <2>2
      <4> QED
        BY <4>1
    <3> QED
      BY <2>1, <3>1 DEF Max
  <2>4. found(n + 1) # {}
    BY <2>1
  <2> QED
    BY <1>2, <2>3, <2>4 DEF LastAmong
<1>3. CASE a.events[n + 1].type \notin types
  <2>1. found(n + 1) = found(n)
    BY <1>1, <1>3
  <2> QED
    BY <1>3, <2>1 DEF LastAmong
<1> QED
  BY <1>2, <1>3

LEMMA LastIsAReport ==
  ASSUME NEW a, Good(a), NEW n \in Nat, n <= Len(a.events), NEW types
  PROVE  LastAmong(a, n, types) \in Reports(a)
<1> DEFINE T == {m \in 0 .. n : LastAmong(a, m, types) \in Reports(a)}
<1>1. 0 \in T
  BY DEF LastAmong, Reports
<1>2. ASSUME NEW m \in T, m < n
      PROVE  m + 1 \in T
  <2>1. m \in Nat /\ m + 1 \in 0 .. n /\ m + 1 \in DOMAIN a.events
    BY <1>2, EventsAre
  <2>2. LastAmong(a, m + 1, types) =
          IF a.events[m + 1].type \in types THEN a.events[m + 1].usage ELSE LastAmong(a, m, types)
    BY <2>1, LastOneMore
  <2>3. a.events[m + 1].usage \in Reports(a)
    BY <2>1 DEF Reports
  <2> QED
    BY <2>1, <2>2, <2>3
<1>3. T = 0 .. n
  <2>1. T \in SUBSET (0 .. n)
    OBVIOUS
  <2> HIDE DEF T
  <2> QED
    BY <1>1, <1>2, <2>1, UpTo
<1>4. n \in T
  <2> HIDE DEF T
  <2> QED
    BY <1>3
<1> QED
  BY <1>4

\* What dispatchEvent makes of an event it could read
Observed(a, acc, e) ==
  IF e.type = "[DONE]" THEN [acc EXCEPT !.terminal = TRUE] ELSE Observe(a.kind, acc, e)

LEMMA ObservedIs ==
  ASSUME NEW a, Good(a), NEW n \in Nat, n < Len(a.events), NEW acc, acc \in UsageAcc(a)
  PROVE  LET q == Observed(a, acc, a.events[n + 1])
         IN /\ q \in UsageAcc(a) /\ q.buffer = acc.buffer
            /\ (q.truncated <=> acc.truncated) /\ (Seen(a, n, acc) => Seen(a, n + 1, q))
<1> PICK e : e = a.events[n + 1]
  OBVIOUS
<1> PICK q : q = Observed(a, acc, e)
  OBVIOUS
<1>1. e.usage \in Reports(a)
  <2>1. n + 1 \in DOMAIN a.events
    BY EventsAre
  <2> QED
    BY <2>1 DEF Reports
<1>2. \A types : LastAmong(a, n + 1, types) =
                   IF e.type \in types THEN e.usage ELSE LastAmong(a, n, types)
  BY LastOneMore
<1>3. Ended(a, n + 1) <=> Ended(a, n) \/ e.type \in Ending(a.kind)
  BY OneMoreIs
<1> DEFINE good == /\ q \in UsageAcc(a) /\ q.buffer = acc.buffer
                   /\ (q.truncated <=> acc.truncated) /\ (Seen(a, n, acc) => Seen(a, n + 1, q))
<1>4. CASE e.type = "[DONE]"
  <2>1. q = [acc EXCEPT !.terminal = TRUE]
    BY <1>4 DEF Observed
  <2>2. /\ q \in UsageAcc(a) /\ q.buffer = acc.buffer /\ (q.truncated <=> acc.truncated)
        /\ q.terminal /\ q.start = acc.start /\ q.last = acc.last
    BY <1>1, <2>1 DEF UsageAcc
  <2>3. Seen(a, n, acc) => Seen(a, n + 1, q)
    BY <1>2, <1>3, <1>4, <2>2 DEF Seen, Ending
  <2> QED
    BY <2>2, <2>3
<1>5. CASE e.type # "[DONE]"
  <2>0. q = Observe(a.kind, acc, e)
    BY <1>5 DEF Observed
  <2>1. CASE a.kind = "responses"
    <3>1. CASE e.type \in {"response.completed", "response.incomplete"}
      <4>1. q = [acc EXCEPT !.last = e.usage, !.terminal = TRUE]
        BY <2>0, <2>1, <3>1 DEF Observe
      <4>2. /\ q \in UsageAcc(a) /\ q.buffer = acc.buffer /\ (q.truncated <=> acc.truncated)
            /\ q.terminal /\ q.last = e.usage
        BY <1>1, <4>1 DEF UsageAcc
      <4>3. Seen(a, n, acc) => Seen(a, n + 1, q)
        BY <1>2, <1>3, <2>1, <3>1, <4>2 DEF Seen, Ending
      <4> QED
        BY <4>2, <4>3
    <3>2. CASE e.type \notin {"response.completed", "response.incomplete"}
      <4>1. q = acc
        BY <2>0, <2>1, <3>2 DEF Observe
      <4>2. Seen(a, n, acc) => Seen(a, n + 1, acc)
        BY <1>2, <1>3, <1>5, <2>1, <3>2 DEF Seen, Ending
      <4> QED
        BY <4>1, <4>2
    <3> QED
      BY <3>1, <3>2
  <2>2. CASE a.kind = "messages"
    <3>1. CASE e.type = "message_start"
      <4>1. q = [acc EXCEPT !.start = e.usage]
        BY <2>0, <2>2, <3>1 DEF Observe
      <4>2. /\ q \in UsageAcc(a) /\ q.buffer = acc.buffer /\ (q.truncated <=> acc.truncated)
            /\ (q.terminal <=> acc.terminal) /\ q.last = acc.last /\ q.start = e.usage
        BY <1>1, <4>1 DEF UsageAcc
      <4>3. Seen(a, n, acc) => Seen(a, n + 1, q)
        BY <1>2, <1>3, <2>2, <3>1, <4>2 DEF Seen, Ending
      <4> QED
        BY <4>2, <4>3
    <3>2. CASE e.type = "message_delta"
      <4>1. q = [acc EXCEPT !.last = e.usage]
        BY <2>0, <2>2, <3>2 DEF Observe
      <4>2. /\ q \in UsageAcc(a) /\ q.buffer = acc.buffer /\ (q.truncated <=> acc.truncated)
            /\ (q.terminal <=> acc.terminal) /\ q.start = acc.start /\ q.last = e.usage
        BY <1>1, <4>1 DEF UsageAcc
      <4>3. Seen(a, n, acc) => Seen(a, n + 1, q)
        BY <1>2, <1>3, <2>2, <3>2, <4>2 DEF Seen, Ending
      <4> QED
        BY <4>2, <4>3
    <3>3. CASE e.type = "message_stop"
      <4>1. q = [acc EXCEPT !.terminal = TRUE]
        BY <2>0, <2>2, <3>3 DEF Observe
      <4>2. /\ q \in UsageAcc(a) /\ q.buffer = acc.buffer /\ (q.truncated <=> acc.truncated)
            /\ q.terminal /\ q.start = acc.start /\ q.last = acc.last
        BY <1>1, <4>1 DEF UsageAcc
      <4>3. Seen(a, n, acc) => Seen(a, n + 1, q)
        BY <1>2, <1>3, <2>2, <3>3, <4>2 DEF Seen, Ending
      <4> QED
        BY <4>2, <4>3
    <3>4. CASE e.type \notin {"message_start", "message_delta", "message_stop"}
      <4>1. q = acc
        BY <2>0, <2>2, <3>4 DEF Observe
      <4>2. Seen(a, n, acc) => Seen(a, n + 1, acc)
        BY <1>2, <1>3, <1>5, <2>2, <3>4 DEF Seen, Ending
      <4> QED
        BY <4>1, <4>2
    <3> QED
      BY <3>1, <3>2, <3>3, <3>4
  <2>3. CASE a.kind = "chat"
    <3>1. CASE e.type = "usage"
      <4>1. q = [acc EXCEPT !.last = e.usage]
        BY <2>0, <2>3, <3>1 DEF Observe
      <4>2. /\ q \in UsageAcc(a) /\ q.buffer = acc.buffer /\ (q.truncated <=> acc.truncated)
            /\ (q.terminal <=> acc.terminal) /\ q.last = e.usage
        BY <1>1, <4>1 DEF UsageAcc
      <4>3. Seen(a, n, acc) => Seen(a, n + 1, q)
        BY <1>2, <1>3, <2>3, <3>1, <4>2 DEF Seen, Ending
      <4> QED
        BY <4>2, <4>3
    <3>2. CASE e.type # "usage"
      <4>1. q = acc
        BY <2>0, <2>3, <3>2 DEF Observe
      <4>2. Seen(a, n, acc) => Seen(a, n + 1, acc)
        BY <1>2, <1>3, <1>5, <2>3, <3>2 DEF Seen, Ending
      <4> QED
        BY <4>1, <4>2
    <3> QED
      BY <3>1, <3>2
  <2>4. CASE a.kind \notin {"responses", "messages", "chat"}
    <3>1. q = acc
      BY <2>0, <2>4 DEF Observe
    <3>2. Seen(a, n, acc) => Seen(a, n + 1, acc)
      BY <1>2, <1>3, <1>5, <2>4 DEF Seen, Ending
    <3> QED
      BY <3>1, <3>2
  <2> QED
    BY <2>1, <2>2, <2>3, <2>4
<1> QED
  BY <1>4, <1>5

UsageReading(a, acc, chunk, read) ==
  /\ UsageChunk(a, acc, chunk) = read[Len(chunk)] /\ read[0] = acc
  /\ \A n \in 1 .. Len(chunk) : read[n] = UsageSymbol(a, read[n - 1], chunk[n])

LEMMA UsageReads ==
  ASSUME NEW a, NEW acc, NEW chunk \in Seq(Symbol)
  PROVE  \E read : UsageReading(a, acc, chunk, read)
<1> DEFINE N == Len(chunk)
           runs(g, k) == g = [n \in 0 .. k |-> IF n = 0 THEN acc ELSE UsageSymbol(a, g[n - 1], chunk[n])]
           T == {k \in 0 .. N : \E g : runs(g, k)}
           read == CHOOSE g : runs(g, N)
<1>1. N \in Nat
  OBVIOUS
<1>2. UsageChunk(a, acc, chunk) = read[N]
  BY DEF UsageChunk
<1> HIDE DEF N
<1>3. 0 \in T
  <2> DEFINE g == [n \in 0 .. 0 |-> acc]
  <2>1. runs(g, 0)
    OBVIOUS
  <2> HIDE DEF g, runs
  <2> QED
    BY <1>1, <2>1
<1>4. ASSUME NEW k \in T, k < N
      PROVE  k + 1 \in T
  <2>1. PICK g : runs(g, k)
    OBVIOUS
  <2>2. k \in Nat
    BY <1>1
  <2> DEFINE h == [n \in 0 .. k + 1 |->
                     IF n = k + 1 THEN UsageSymbol(a, g[k], chunk[k + 1]) ELSE g[n]]
  <2>3. \A n \in 0 .. k + 1 : h[n] = IF n = 0 THEN acc ELSE UsageSymbol(a, h[n - 1], chunk[n])
    <3> TAKE n \in 0 .. k + 1
    <3>1. CASE n = k + 1
      BY <3>1, <2>2
    <3>2. CASE n # k + 1
      <4>1. n \in 0 .. k /\ (n # 0 => n - 1 \in 0 .. k /\ n - 1 # k + 1)
        BY <3>2, <2>2
      <4>2. g[n] = IF n = 0 THEN acc ELSE UsageSymbol(a, g[n - 1], chunk[n])
        BY <2>1, <4>1
      <4> QED
        BY <3>2, <4>1, <4>2
    <3> QED
      BY <3>1, <3>2
  <2>4. h = [n \in 0 .. k + 1 |-> h[n]]
    OBVIOUS
  <2>5. runs(h, k + 1)
    <3> HIDE DEF h
    <3> QED
      BY <2>3, <2>4
  <2>6. k + 1 \in 0 .. N
    BY <1>1, <1>4, <2>2
  <2> HIDE DEF h, runs
  <2> QED
    BY <2>5, <2>6
<1>5. runs(read, N)
  <2>1. T = 0 .. N
    <3>1. T \in SUBSET (0 .. N)
      OBVIOUS
    <3> HIDE DEF T
    <3> QED
      BY <1>1, <1>3, <1>4, <3>1, UpTo
  <2>2. N \in T
    <3> HIDE DEF T
    <3> QED
      BY <1>1, <2>1
  <2>3. \E g : runs(g, N)
    BY <2>2
  <2> HIDE DEF runs
  <2> QED
    BY <2>3
<1> HIDE DEF read
<1>6. \A n \in 0 .. N : read[n] = IF n = 0 THEN acc ELSE UsageSymbol(a, read[n - 1], chunk[n])
  BY <1>5
<1>7. read[0] = acc
  BY <1>1, <1>6
<1>8. \A n \in 1 .. N : read[n] = UsageSymbol(a, read[n - 1], chunk[n])
  BY <1>1, <1>6
<1> QED
  BY <1>2, <1>7, <1>8 DEF N, UsageReading

\* k events are billed, and n were read.
BytesCounted(a, k, n, acc) ==
  /\ acc \in UsageAcc(a) /\ (acc.truncated <=> TooLarge(a, n))
  /\ ~acc.truncated => Seen(a, k, acc)

\* No line waits for its blank line, or that of the next event does.
Waiting(a, k, buffer, acc) ==
  /\ BytesCounted(a, k, k, acc) /\ acc.buffer = buffer
  /\ acc.lines = <<>> /\ acc.bytes = 0 /\ ~acc.discard
Pending(a, k, buffer, acc) ==
  /\ BytesCounted(a, k, k + 1, acc) /\ acc.buffer = buffer
  /\ IF a.events[k + 1].size > MaxUsageEvent THEN acc.discard
     ELSE ~acc.discard /\ acc.lines = <<LineOf(a, k + 1)>>

UsageAt(a, k, off, acc) ==
  IF LineEnded(a, k, off) THEN Pending(a, k, <<>>, acc) ELSE Waiting(a, k, Part(a, k, off), acc)

LEMMA UsageBufferTurns ==
  ASSUME NEW a, NEW k, NEW buffer, NEW acc, NEW x \in Seq(Symbol)
  PROVE  /\ Waiting(a, k, buffer, acc) => Waiting(a, k, x, [acc EXCEPT !.buffer = x])
         /\ Pending(a, k, buffer, acc) => Pending(a, k, x, [acc EXCEPT !.buffer = x])
<1> PICK q : q = [acc EXCEPT !.buffer = x]
  OBVIOUS
<1>1. ASSUME acc \in UsageAcc(a)
      PROVE  /\ q \in UsageAcc(a) /\ q.buffer = x /\ q.lines = acc.lines /\ q.bytes = acc.bytes
             /\ (q.discard <=> acc.discard) /\ (q.truncated <=> acc.truncated)
             /\ (q.terminal <=> acc.terminal) /\ q.start = acc.start /\ q.last = acc.last
  BY <1>1 DEF UsageAcc
<1>2. ASSUME acc \in UsageAcc(a), NEW n
      PROVE  Seen(a, n, acc) => Seen(a, n, q)
  BY <1>1, <1>2 DEF Seen
<1>3. Waiting(a, k, buffer, acc) => Waiting(a, k, x, q)
  BY <1>1, <1>2 DEF Waiting, BytesCounted
<1>4. Pending(a, k, buffer, acc) => Pending(a, k, x, q)
  BY <1>1, <1>2 DEF Pending, BytesCounted
<1> QED
  BY <1>3, <1>4

\* A line of data comes: an event, or the part of one that a torn stream ends with.
LEMMA UsageTakesLine ==
  ASSUME NEW a, NEW acc \in UsageAcc(a), NEW line \in Seq(Symbol), line # <<Blank>>, IsData(line),
         acc.lines = <<>>, acc.bytes = 0, ~acc.discard
  PROVE  LET q == UsageLine(a, acc, line)
         IN /\ q \in UsageAcc(a) /\ q.buffer = acc.buffer
            /\ (q.terminal <=> acc.terminal) /\ q.start = acc.start /\ q.last = acc.last
            /\ IF Len(line) > MaxUsageEvent THEN q.discard /\ q.truncated
               ELSE /\ ~q.discard /\ (q.truncated <=> acc.truncated)
                    /\ Len(q.lines) = 1 /\ q.lines = <<line>>
<1> PICK q : q = UsageLine(a, acc, line)
  OBVIOUS
<1> PICK bytes : bytes = acc.bytes + Len(line)
  OBVIOUS
<1>1. bytes = Len(line) /\ bytes \in Nat /\ Len(line) \in Nat
  OBVIOUS
<1>2. q = IF bytes > MaxUsageEvent
          THEN [acc EXCEPT !.bytes = bytes, !.discard = TRUE, !.truncated = TRUE, !.lines = <<>>]
          ELSE [acc EXCEPT !.bytes = bytes, !.lines = Append(acc.lines, line)]
  BY DEF UsageLine
<1>3. CASE bytes > MaxUsageEvent
  <2> PICK none : none = <<>>
    OBVIOUS
  <2>1. none \in Seq(Seq(Symbol))
    OBVIOUS
  <2>2. q = [acc EXCEPT !.bytes = bytes, !.discard = TRUE, !.truncated = TRUE, !.lines = none]
    BY <1>2, <1>3
  <2>3. /\ q \in UsageAcc(a) /\ q.buffer = acc.buffer
        /\ (q.terminal <=> acc.terminal) /\ q.start = acc.start /\ q.last = acc.last
        /\ q.discard /\ q.truncated
    BY <1>1, <2>1, <2>2 DEF UsageAcc
  <2> QED
    BY <1>1, <1>3, <2>3
<1>4. CASE ~(bytes > MaxUsageEvent)
  <2> PICK one : one = <<line>>
    OBVIOUS
  <2>1. Append(acc.lines, line) = one
    OBVIOUS
  <2>2. one \in Seq(Seq(Symbol)) /\ Len(one) = 1
    OBVIOUS
  <2>3. q = [acc EXCEPT !.bytes = bytes, !.lines = one]
    BY <1>2, <1>4, <2>1
  <2>4. /\ q \in UsageAcc(a) /\ q.buffer = acc.buffer
        /\ (q.terminal <=> acc.terminal) /\ q.start = acc.start /\ q.last = acc.last
        /\ ~q.discard /\ (q.truncated <=> acc.truncated) /\ q.lines = one
    BY <1>1, <2>2, <2>3 DEF UsageAcc
  <2> QED
    BY <1>1, <1>4, <2>2, <2>4
<1> QED
  BY <1>3, <1>4

LEMMA UsageOfLine ==
  ASSUME NEW a, Good(a), NEW k \in Nat, k < Len(a.events), NEW buffer, NEW acc,
         Waiting(a, k, buffer, acc)
  PROVE  Pending(a, k, buffer, UsageLine(a, acc, LineOf(a, k + 1)))
<1> PICK line : line = LineOf(a, k + 1)
  OBVIOUS
<1> PICK q : q = UsageLine(a, acc, line)
  OBVIOUS
<1>1. k + 1 \in 1 .. Len(a.events) /\ k + 1 \in Nat
  BY EventsAre
<1>2. line # <<Blank>> /\ IsData(line) /\ Len(line) = a.events[k + 1].size
  BY <1>1, LineIs
<1>3. line \in Seq(Symbol)
  BY <1>1, EventsAre, SymbolsAre DEF LineOf
<1>4. /\ acc \in UsageAcc(a) /\ (acc.truncated <=> TooLarge(a, k)) /\ acc.buffer = buffer
      /\ acc.lines = <<>> /\ acc.bytes = 0 /\ ~acc.discard /\ (~acc.truncated => Seen(a, k, acc))
  BY DEF Waiting, BytesCounted
<1>5. /\ q \in UsageAcc(a) /\ q.buffer = acc.buffer
      /\ (q.terminal <=> acc.terminal) /\ q.start = acc.start /\ q.last = acc.last
      /\ IF Len(line) > MaxUsageEvent THEN q.discard /\ q.truncated
         ELSE /\ ~q.discard /\ (q.truncated <=> acc.truncated)
              /\ Len(q.lines) = 1 /\ q.lines = <<line>>
  BY <1>2, <1>3, <1>4, UsageTakesLine
<1>6. TooLarge(a, k + 1) <=> TooLarge(a, k) \/ a.events[k + 1].size > MaxUsageEvent
  BY OneMoreIs
<1>7. Seen(a, k, acc) => Seen(a, k, q)
  BY <1>5 DEF Seen
<1>8. BytesCounted(a, k, k + 1, q)
  BY <1>2, <1>4, <1>5, <1>6, <1>7 DEF BytesCounted
<1> QED
  BY <1>2, <1>4, <1>5, <1>8 DEF Pending

\* What dispatchEvent reads
Event(a, acc) ==
  IF acc.lines = <<>> \/ acc.discard THEN acc
  ELSE IF Len(acc.lines) > 1 \/ ~Whole(a, acc.lines[1]) THEN [acc EXCEPT !.truncated = TRUE]
  ELSE Observed(a, acc, a.events[acc.lines[1][1].e])

LEMMA DispatchIs ==
  ASSUME NEW a, NEW acc
  PROVE  Dispatch(a, acc) = [Event(a, acc) EXCEPT !.lines = <<>>, !.bytes = 0, !.discard = FALSE]
  BY DEF Dispatch, Event, Observed

Cleared(a, acc, q) ==
  /\ q \in UsageAcc(a) /\ q.buffer = acc.buffer /\ (q.truncated <=> acc.truncated)
  /\ q.lines = <<>> /\ q.bytes = 0 /\ ~q.discard
  /\ (q.terminal <=> acc.terminal) /\ q.start = acc.start /\ q.last = acc.last

LEMMA EventsAreCleared ==
  ASSUME NEW a, NEW acc \in UsageAcc(a)
  PROVE  Cleared(a, acc, [acc EXCEPT !.lines = <<>>, !.bytes = 0, !.discard = FALSE])
<1> PICK none : none = <<>>
  OBVIOUS
<1> PICK q : q = [acc EXCEPT !.lines = none, !.bytes = 0, !.discard = FALSE]
  OBVIOUS
<1>1. none \in Seq(Seq(Symbol)) /\ 0 \in Nat
  OBVIOUS
<1>2. /\ q \in UsageAcc(a) /\ q.buffer = acc.buffer /\ (q.truncated <=> acc.truncated)
      /\ q.lines = none /\ q.bytes = 0 /\ ~q.discard
      /\ (q.terminal <=> acc.terminal) /\ q.start = acc.start /\ q.last = acc.last
  BY <1>1 DEF UsageAcc
<1> QED
  BY <1>2 DEF Cleared

LEMMA UsageOfBlank ==
  ASSUME NEW a, Good(a), NEW k \in Nat, k < Len(a.events), NEW buffer, NEW acc,
         Pending(a, k, buffer, acc)
  PROVE  Waiting(a, k + 1, buffer, Dispatch(a, acc))
<1> PICK read : read = Event(a, acc)
  OBVIOUS
<1> PICK q : q = [read EXCEPT !.lines = <<>>, !.bytes = 0, !.discard = FALSE]
  OBVIOUS
<1>1. /\ acc \in UsageAcc(a) /\ (acc.truncated <=> TooLarge(a, k + 1)) /\ acc.buffer = buffer
      /\ ~acc.truncated => Seen(a, k, acc)
      /\ IF a.events[k + 1].size > MaxUsageEvent THEN acc.discard
         ELSE ~acc.discard /\ acc.lines = <<LineOf(a, k + 1)>>
  BY DEF Pending, BytesCounted
<1>2. k + 1 \in 1 .. Len(a.events) /\ k + 1 \in Nat
  BY EventsAre
<1>3. /\ read \in UsageAcc(a) /\ (read.truncated <=> acc.truncated) /\ read.buffer = acc.buffer
      /\ ~read.truncated => Seen(a, k + 1, read)
  <2>1. CASE acc.discard
    <3>1. read = acc
      BY <2>1 DEF Event
    <3>2. acc.truncated
      <4>1. TooLarge(a, k + 1) <=> TooLarge(a, k) \/ a.events[k + 1].size > MaxUsageEvent
        BY OneMoreIs
      <4> QED
        BY <1>1, <2>1, <4>1
    <3> QED
      BY <1>1, <3>1, <3>2
  <2>2. CASE ~acc.discard
    <3> PICK line : line = LineOf(a, k + 1)
      OBVIOUS
    <3>1. line # <<>> /\ Whole(a, line) /\ line[1].e = k + 1
      BY <1>2, LineIs
    <3>2. acc.lines = <<line>>
      BY <1>1, <2>2
    <3>3. acc.lines # <<>> /\ Len(acc.lines) = 1 /\ acc.lines[1] = line
      BY <3>2
    <3>4. read = Observed(a, acc, a.events[k + 1])
      BY <2>2, <3>1, <3>3 DEF Event
    <3>5. /\ read \in UsageAcc(a) /\ read.buffer = acc.buffer
          /\ (read.truncated <=> acc.truncated) /\ (Seen(a, k, acc) => Seen(a, k + 1, read))
      BY <1>1, <3>4, ObservedIs
    <3> QED
      BY <1>1, <3>5
  <2> QED
    BY <2>1, <2>2
<1>4. /\ q \in UsageAcc(a) /\ q.buffer = read.buffer /\ (q.truncated <=> read.truncated)
      /\ q.lines = <<>> /\ q.bytes = 0 /\ ~q.discard
      /\ (q.terminal <=> read.terminal) /\ q.start = read.start /\ q.last = read.last
  <2>1. Cleared(a, read, [read EXCEPT !.lines = <<>>, !.bytes = 0, !.discard = FALSE])
    BY <1>3, EventsAreCleared, Zenon
  <2>2. Cleared(a, read, q)
    BY <2>1, Zenon
  <2> QED
    BY <2>2, Zenon DEF Cleared
<1>5. Seen(a, k + 1, read) => Seen(a, k + 1, q)
  BY <1>4 DEF Seen
<1>6. BytesCounted(a, k + 1, k + 1, q)
  BY <1>1, <1>3, <1>4, <1>5 DEF BytesCounted
<1>7. Waiting(a, k + 1, buffer, q)
  BY <1>1, <1>3, <1>4, <1>6 DEF Waiting
<1> QED
  BY <1>7, DispatchIs

LEMMA UsageMoves ==
  ASSUME NEW a, Good(a), NEW k \in Nat, k < Len(a.events), NEW off \in Nat,
         off <= a.events[k + 1].size, NEW acc, UsageAt(a, k, off, acc)
  PROVE  IF LineEnded(a, k, off)
         THEN UsageAt(a, k + 1, 0, UsageSymbol(a, acc, NextSymbol(a, k, off)))
         ELSE UsageAt(a, k, off + 1, UsageSymbol(a, acc, NextSymbol(a, k, off)))
<1> DEFINE size == a.events[k + 1].size
           s == NextSymbol(a, k, off)
           empty == [acc EXCEPT !.buffer = <<>>]
           next == UsageSymbol(a, acc, s)
<1>1. acc.buffer = Part(a, k, off)
  BY DEF UsageAt, Pending, Waiting, Part
<1>2. size \in Nat
  BY EventsAre
<1>3. /\ LineEnded(a, k, off) => Pending(a, k, <<>>, empty)
      /\ ~LineEnded(a, k, off) => Waiting(a, k, <<>>, empty)
  <2> PICK none : none = <<>>
    OBVIOUS
  <2>1. none \in Seq(Symbol)
    OBVIOUS
  <2> QED
    BY <2>1, UsageBufferTurns DEF UsageAt
<1>4. next = IF EndsLine(a, s) THEN UsageLine(a, empty, Append(Part(a, k, off), s))
             ELSE [acc EXCEPT !.buffer = Append(Part(a, k, off), s)]
  BY <1>1 DEF UsageSymbol
<1> HIDE DEF size, s, empty, next
<1>5. CASE off = size
  <2>1. LineEnded(a, k, off)
    BY <1>5 DEF LineEnded, size
  <2>2. /\ EndsLine(a, s) /\ Append(Part(a, k, off), s) = <<Blank>>
        /\ Part(a, k + 1, 0) = <<>>
        /\ LinesRead(a, k, off) = k + 1 /\ LinesRead(a, k + 1, 0) = k + 1
    BY <1>5, <2>1, LineBreaks DEF size, s
  <2>3. UsageLine(a, empty, <<Blank>>) = Dispatch(a, empty)
    BY DEF UsageLine
  <2>4. next = Dispatch(a, empty)
    BY <1>4, <2>2, <2>3
  <2>5. Waiting(a, k + 1, <<>>, next)
    BY <1>3, <2>1, <2>4, UsageOfBlank
  <2>6. ~LineEnded(a, k + 1, 0)
    BY <2>2 DEF LinesRead
  <2>7. UsageAt(a, k + 1, 0, next)
    BY <2>2, <2>5, <2>6 DEF UsageAt
  <2> QED
    BY <2>1, <2>7 DEF next, s
<1>6. CASE off # size
  <2>1. ~LineEnded(a, k, off) /\ off < size
    BY <1>2, <1>6 DEF LineEnded, size
  <2>2. IF off + 1 = size
        THEN /\ EndsLine(a, s) /\ Append(Part(a, k, off), s) = LineOf(a, k + 1)
             /\ Part(a, k, off + 1) = <<>>
             /\ LinesRead(a, k, off) = k /\ LinesRead(a, k, off + 1) = k + 1
        ELSE /\ ~EndsLine(a, s) /\ Append(Part(a, k, off), s) = Part(a, k, off + 1)
             /\ LinesRead(a, k, off) = k /\ LinesRead(a, k, off + 1) = k
    BY <2>1, LineGrows DEF size, s
  <2>3. LineEnded(a, k, off + 1) <=> off + 1 = size
    BY DEF LineEnded, size
  <2>4. CASE off + 1 = size
    <3>1. next = UsageLine(a, empty, LineOf(a, k + 1))
      BY <1>4, <2>2, <2>4
    <3>2. Pending(a, k, <<>>, next)
      BY <1>3, <2>1, <3>1, UsageOfLine
    <3>3. UsageAt(a, k, off + 1, next)
      BY <2>3, <2>4, <3>2 DEF UsageAt
    <3> QED
      BY <2>1, <3>3 DEF next, s
  <2>5. CASE off + 1 # size
    <3>1. next = [acc EXCEPT !.buffer = Part(a, k, off + 1)]
      BY <1>4, <2>2, <2>5
    <3>2. Part(a, k, off + 1) \in Seq(Symbol)
      BY PartIsOfSymbols
    <3>3. Waiting(a, k, Part(a, k, off), acc)
      BY <2>1 DEF UsageAt
    <3>4. Waiting(a, k, Part(a, k, off + 1), next)
      BY <3>1, <3>2, <3>3, UsageBufferTurns
    <3>5. UsageAt(a, k, off + 1, next)
      BY <2>3, <2>5, <3>4 DEF UsageAt
    <3> QED
      BY <2>1, <3>5 DEF next, s
  <2> QED
    BY <2>4, <2>5
<1> QED
  BY <1>5, <1>6

UsageRead(a, d, acc) == \E k, off : Cursor(a, d, k, off) /\ UsageAt(a, k, off, acc)

LEMMA NoUsageIs ==
  ASSUME NEW a
  PROVE  /\ NoUsage \in UsageAcc(a) /\ NoUsage.buffer = <<>> /\ NoUsage.lines = <<>>
         /\ NoUsage.bytes = 0 /\ ~NoUsage.discard /\ ~NoUsage.truncated /\ ~NoUsage.terminal
         /\ NoUsage.start = None /\ NoUsage.last = None
<1>1. None \in Reports(a)
  BY DEF Reports
<1> QED
  BY <1>1 DEF NoUsage, UsageAcc

LEMMA UsageStarts ==
  ASSUME NEW a, Good(a)
  PROVE  UsageRead(a, 0, NoUsage)
<1>1. ~LineEnded(a, 0, 0)
  <2>1. 0 < Len(a.events) => a.events[0 + 1].size # 0
    <3>1. 0 < Len(a.events) => 1 \in 1 .. Len(a.events) /\ 0 + 1 = 1
      BY EventsAre
    <3> QED
      BY <3>1, EventsAre
  <2> QED
    BY <2>1 DEF LineEnded
<1>2. Part(a, 0, 0) = <<>>
  BY <1>1 DEF Part
<1>3. ~TooLarge(a, 0) /\ ~Ended(a, 0) /\ \A types : LastAmong(a, 0, types) = None
  BY DEF TooLarge, Ended, LastAmong
<1>4. Seen(a, 0, NoUsage)
  BY <1>3, NoUsageIs DEF Seen
<1>5. Waiting(a, 0, <<>>, NoUsage)
  BY <1>3, <1>4, NoUsageIs DEF Waiting, BytesCounted
<1> QED
  BY <1>1, <1>2, <1>5, CursorStarts DEF UsageRead, UsageAt

LEMMA UsageReadsOn ==
  ASSUME NEW a, Good(a), a.sse, NEW d, NEW acc, UsageRead(a, d, acc),
         d < Ends(a)[Len(a.events)]
  PROVE  UsageRead(a, d + 1, UsageSymbol(a, acc, Body(a)[d + 1]))
<1> PICK k, off : Cursor(a, d, k, off) /\ UsageAt(a, k, off, acc)
  BY DEF UsageRead
<1> PICK next : next = UsageSymbol(a, acc, Body(a)[d + 1])
  OBVIOUS
<1>1. /\ k < Len(a.events) /\ off <= a.events[k + 1].size
      /\ Body(a)[d + 1] = NextSymbol(a, k, off)
      /\ Onward(a, d, k, off)
  BY CursorMoves
<1>2. k \in Nat /\ off \in Nat
  BY EventsAre DEF Cursor
<1>3. IF LineEnded(a, k, off) THEN UsageAt(a, k + 1, 0, next) ELSE UsageAt(a, k, off + 1, next)
  BY <1>1, <1>2, UsageMoves
<1> QED
  BY <1>1, <1>3 DEF Onward, UsageRead

LEMMA UsageReadsChunk ==
  ASSUME NEW a, Good(a), a.sse, NEW d \in Nat, NEW acc, UsageRead(a, d, acc),
         NEW n \in Nat, d + n <= Len(Body(a))
  PROVE  UsageRead(a, d + n, UsageChunk(a, acc, SubSeq(Body(a), d + 1, d + n)))
<1> PICK chunk : chunk = SubSeq(Body(a), d + 1, d + n)
  OBVIOUS
<1>1. Body(a) \in Seq(Symbol) /\ Len(Body(a)) = Ends(a)[Len(a.events)]
  BY BodyIs
<1>2. chunk \in Seq(Symbol) /\ Len(chunk) = n /\ \A m \in 1 .. n : chunk[m] = Body(a)[d + m]
  <2> PICK body : body = Body(a)
    OBVIOUS
  <2>1. Chunked(Symbol, body, d, n, SubSeq(body, d + 1, d + n))
    BY <1>1, ChunkIs
  <2> QED
    BY <2>1 DEF Chunked
<1>3. PICK read : /\ UsageChunk(a, acc, chunk) = read[Len(chunk)] /\ read[0] = acc
                  /\ \A m \in 1 .. Len(chunk) : read[m] = UsageSymbol(a, read[m - 1], chunk[m])
  <2> PICK read : UsageReading(a, acc, chunk, read)
    BY <1>2, UsageReads
  <2> QED
    BY DEF UsageReading
<1> DEFINE T == {m \in 0 .. n : UsageRead(a, d + m, read[m])}
<1>4. 0 \in T
  BY <1>3
<1>5. ASSUME NEW m \in T, m < n
      PROVE  m + 1 \in T
  <2>1. /\ m \in Nat /\ m + 1 \in 1 .. n /\ (m + 1) - 1 = m /\ m + 1 \in 0 .. n
        /\ d + (m + 1) = (d + m) + 1 /\ d + m < Len(Body(a))
    BY <1>1, <1>5
  <2>2. UsageRead(a, d + m, read[m])
    OBVIOUS
  <2>3. read[m + 1] = UsageSymbol(a, read[m], Body(a)[(d + m) + 1])
    BY <1>2, <1>3, <2>1
  <2>4. UsageRead(a, (d + m) + 1, read[m + 1])
    BY <1>1, <2>1, <2>2, <2>3, UsageReadsOn
  <2> QED
    BY <2>1, <2>4
<1>6. T = 0 .. n
  <2>1. T \in SUBSET (0 .. n)
    OBVIOUS
  <2> HIDE DEF T
  <2> QED
    BY <1>4, <1>5, <2>1, UpTo
<1>7. n \in T
  <2> HIDE DEF T
  <2> QED
    BY <1>6
<1> QED
  BY <1>2, <1>3, <1>7

-----------------------------------------------------------------------------
\* Bytes that hold no line

Noise == [e |-> 0, part |-> 1]

\* The reader of n such bytes
Mute(a, acc) ==
  /\ acc \in UsageAcc(a) /\ ~acc.terminal /\ acc.lines = <<>>
  /\ \A m \in 1 .. Len(acc.buffer) : acc.buffer[m] = Noise

LEMMA NoUsageIsMute ==
  ASSUME NEW a
  PROVE  Mute(a, NoUsage)
<1>1. Len(NoUsage.buffer) = 0
  BY NoUsageIs
<1> QED
  BY <1>1, NoUsageIs DEF Mute

LEMMA NoiseEndsNothing ==
  ASSUME NEW a, NEW acc, Mute(a, acc)
  PROVE  Mute(a, UsageSymbol(a, acc, Noise))
<1> PICK more : more = Append(acc.buffer, Noise)
  OBVIOUS
<1> PICK q : q = [acc EXCEPT !.buffer = more]
  OBVIOUS
<1>1. ~EndsLine(a, Noise)
  BY DEF EndsLine, Noise, Blank
<1>2. UsageSymbol(a, acc, Noise) = q
  BY <1>1 DEF UsageSymbol
<1>3. /\ acc \in UsageAcc(a) /\ ~acc.terminal /\ acc.lines = <<>>
      /\ \A m \in 1 .. Len(acc.buffer) : acc.buffer[m] = Noise
  BY DEF Mute
<1>4. acc.buffer \in Seq(Symbol)
  BY <1>3 DEF UsageAcc
<1>5. more \in Seq(Symbol) /\ \A m \in 1 .. Len(more) : more[m] = Noise
  <2> PICK s : s = acc.buffer
    OBVIOUS
  <2> PICK n : n = Noise
    OBVIOUS
  <2>1. n \in Symbol
    BY DEF Noise, Symbol
  <2>2. s \in Seq(Symbol) /\ \A m \in 1 .. Len(s) : s[m] = n
    BY <1>3, <1>4
  <2>3. more = Append(s, n)
    OBVIOUS
  <2>4. /\ more \in Seq(Symbol) /\ Len(more) = Len(s) + 1 /\ Len(s) \in Nat
        /\ \A m \in 1 .. Len(s) : more[m] = s[m]
        /\ more[Len(s) + 1] = n
    BY <2>1, <2>2, <2>3
  <2>5. \A m \in 1 .. Len(more) : m \in 1 .. Len(s) \/ m = Len(s) + 1
    BY <2>4
  <2> QED
    BY <2>2, <2>4, <2>5
<1>6. q \in UsageAcc(a) /\ ~q.terminal /\ q.lines = <<>> /\ q.buffer = more
  BY <1>3, <1>5 DEF UsageAcc
<1> QED
  BY <1>2, <1>5, <1>6 DEF Mute

LEMMA NoiseIsRead ==
  ASSUME NEW a, NEW acc, Mute(a, acc), NEW n \in Nat
  PROVE  Mute(a, UsageChunk(a, acc, [m \in 1 .. n |-> Noise]))
<1> PICK noise : noise = Noise
  OBVIOUS
<1> PICK chunk : chunk = [m \in 1 .. n |-> noise]
  OBVIOUS
<1>1. chunk \in Seq(Symbol) /\ Len(chunk) = n /\ \A m \in 1 .. n : chunk[m] = Noise
  <2>1. noise \in Symbol
    BY DEF Noise, Symbol
  <2> QED
    BY <2>1
<1>2. PICK read : /\ UsageChunk(a, acc, chunk) = read[Len(chunk)] /\ read[0] = acc
                  /\ \A m \in 1 .. Len(chunk) : read[m] = UsageSymbol(a, read[m - 1], chunk[m])
  <2> PICK read : UsageReading(a, acc, chunk, read)
    BY <1>1, UsageReads
  <2> QED
    BY DEF UsageReading
<1> DEFINE T == {m \in 0 .. n : Mute(a, read[m])}
<1>3. 0 \in T
  BY <1>2
<1>4. ASSUME NEW m \in T, m < n
      PROVE  m + 1 \in T
  <2>1. m \in Nat /\ m + 1 \in 1 .. n /\ (m + 1) - 1 = m /\ m + 1 \in 0 .. n
    BY <1>4
  <2>2. Mute(a, read[m])
    OBVIOUS
  <2>3. read[m + 1] = UsageSymbol(a, read[m], Noise)
    BY <1>1, <1>2, <2>1
  <2>4. Mute(a, read[m + 1])
    BY <2>2, <2>3, NoiseEndsNothing
  <2> QED
    BY <2>1, <2>4
<1>5. T = 0 .. n
  <2>1. T \in SUBSET (0 .. n)
    OBVIOUS
  <2> HIDE DEF T
  <2> QED
    BY <1>3, <1>4, <2>1, UpTo
<1>6. n \in T
  <2> HIDE DEF T
  <2> QED
    BY <1>5
<1> QED
  BY <1>1, <1>2, <1>6

\* Nothing was said.
LEMMA NoiseTellsNothing ==
  ASSUME NEW a, NEW acc, Mute(a, acc)
  PROVE  UsageEnd(a, acc) = Lost("incomplete_usage")
<1>1. /\ acc \in UsageAcc(a) /\ ~acc.terminal /\ acc.lines = <<>>
      /\ \A m \in 1 .. Len(acc.buffer) : acc.buffer[m] = Noise
  BY DEF Mute
<1> PICK read : read = Dispatch(a, acc)
  OBVIOUS
<1>2. acc.buffer # <<>> => UsageLine(a, acc, acc.buffer) = acc
  <2> PICK line : line = acc.buffer
    OBVIOUS
  <2> SUFFICES ASSUME line # <<>> PROVE UsageLine(a, acc, line) = acc
    OBVIOUS
  <2>1. line \in Seq(Symbol) /\ \A m \in 1 .. Len(line) : line[m] = Noise
    BY <1>1 DEF UsageAcc
  <2>2. 1 \in 1 .. Len(line)
    BY <2>1
  <2>3. line[1] = Noise
    BY <2>1, <2>2
  <2>4. line[1].e = 0 /\ line[1].part = 1
    BY <2>3 DEF Noise
  <2>5. line # <<Blank>>
    <3>1. line[1] # Blank
      BY <2>4 DEF Blank
    <3>2. \A b : <<b>>[1] = b
      OBVIOUS
    <3>3. <<Blank>>[1] = Blank
      BY <3>2
    <3> HIDE DEF Blank
    <3> QED
      BY <3>1, <3>3, Zenon
  <2>6. ~IsData(line)
    BY <2>4 DEF IsData
  <2> QED
    BY <2>5, <2>6 DEF UsageLine
<1>3. Event(a, acc) = acc
  BY <1>1 DEF Event
<1>4. ~read.terminal
  <2>1. Cleared(a, acc, [acc EXCEPT !.lines = <<>>, !.bytes = 0, !.discard = FALSE])
    BY <1>1, EventsAreCleared, Zenon
  <2>2. Cleared(a, acc, read)
    BY <1>3, <2>1, DispatchIs
  <2> QED
    BY <1>1, <2>2, Zenon DEF Cleared
<1> QED
  BY <1>2, <1>4 DEF UsageEnd

-----------------------------------------------------------------------------
\* What the bill's reader ends with

LastArriving(a, d, types) ==
  LET found == {i \in Arriving(a, d) : a.events[i].type \in types}
  IN IF found = {} THEN None ELSE a.events[Max(found)].usage

ReportedAt(a, d) ==
  CASE a.kind = "responses" -> LastArriving(a, d, {"response.completed", "response.incomplete"})
    [] a.kind = "chat" -> LastArriving(a, d, {"usage"})
    [] a.kind = "messages" ->
         LET start == LastArriving(a, d, {"message_start"})
             last == LastArriving(a, d, {"message_delta"})
         IN IF None \in {start, last} THEN None ELSE Updated(start, last)
    [] OTHER -> None

UsageIs(a, d, found) ==
  found =
    IF \/ TornAt(a, d) \/ ~(\E i \in Arriving(a, d) : a.events[i].type \in Ending(a.kind))
       \/ \E i \in Arriving(a, d) : a.events[i].size > MaxUsageEvent
    THEN Lost("incomplete_usage")
    ELSE Normalize(a.kind, ReportedAt(a, d))

LEMMA WhatIsReported ==
  ASSUME NEW a, NEW d, NEW n, Arriving(a, d) = 1 .. n, NEW read, Seen(a, n, read)
  PROVE  ReportedAt(a, d) =
           IF a.kind \in {"responses", "chat"} THEN read.last
           ELSE IF a.kind = "messages" /\ read.start # None /\ read.last # None
                THEN Updated(read.start, read.last) ELSE None
<1>1. \A types : LastArriving(a, d, types) = LastAmong(a, n, types)
  BY DEF LastArriving, LastAmong
<1>2. CASE a.kind = "responses"
  BY <1>1, <1>2 DEF ReportedAt, Seen
<1>3. CASE a.kind = "chat"
  BY <1>1, <1>3 DEF ReportedAt, Seen
<1>4. CASE a.kind = "messages"
  <2>1. /\ read.start = LastArriving(a, d, {"message_start"})
        /\ read.last = LastArriving(a, d, {"message_delta"})
    BY <1>1, <1>4 DEF Seen
  <2>2. ReportedAt(a, d) = IF None \in {read.start, read.last} THEN None
                           ELSE Updated(read.start, read.last)
    BY <1>4, <2>1 DEF ReportedAt
  <2> QED
    BY <1>4, <2>2
<1>5. CASE a.kind \notin {"responses", "chat", "messages"}
  BY <1>5 DEF ReportedAt
<1> QED
  BY <1>2, <1>3, <1>4, <1>5

LEMMA UsageTells ==
  ASSUME NEW a, Good(a), NEW d, NEW acc, UsageRead(a, d, acc)
  PROVE  UsageIs(a, d, UsageEnd(a, acc))
<1> PICK k, off : Cursor(a, d, k, off) /\ UsageAt(a, k, off, acc)
  BY DEF UsageRead
<1> PICK n : n = LinesRead(a, k, off)
  OBVIOUS
<1>1. Arriving(a, d) = 1 .. n /\ n \in Nat /\ k \in Nat
  BY WhatArrives, EventsAre
<1>2. acc.buffer = Part(a, k, off)
  BY DEF UsageAt, Pending, Waiting, Part
<1>3. /\ TooLarge(a, n) <=> \E i \in Arriving(a, d) : a.events[i].size > MaxUsageEvent
      /\ Ended(a, n) <=> \E i \in Arriving(a, d) : a.events[i].type \in Ending(a.kind)
  BY <1>1 DEF TooLarge, Ended
<1> DEFINE rest == IF acc.buffer = <<>> THEN acc ELSE UsageLine(a, acc, acc.buffer)
           read == Dispatch(a, rest)
           told == IF a.kind \in {"responses", "chat"} THEN read.last
                   ELSE IF a.kind = "messages" /\ read.start # None /\ read.last # None
                        THEN Updated(read.start, read.last) ELSE None
<1>4. UsageEnd(a, acc) = IF read.truncated \/ ~read.terminal THEN Lost("incomplete_usage")
                         ELSE Normalize(a.kind, told)
  BY DEF UsageEnd
<1>5. CASE TornAt(a, d)
  <2> PICK line : line = Part(a, k, off)
    OBVIOUS
  <2>1. line # <<>> /\ line # <<Blank>> /\ IsData(line) /\ ~Whole(a, line) /\ line \in Seq(Symbol)
    BY <1>5, PartIs
  <2>2. ~LineEnded(a, k, off)
    BY <1>5, WhatArrives
  <2>3. /\ acc \in UsageAcc(a) /\ acc.lines = <<>> /\ acc.bytes = 0 /\ ~acc.discard
    BY <2>2 DEF UsageAt, Waiting, BytesCounted
  <2> PICK q : q = UsageLine(a, acc, line)
    OBVIOUS
  <2>4. /\ q \in UsageAcc(a)
        /\ IF Len(line) > MaxUsageEvent THEN q.discard /\ q.truncated
           ELSE /\ ~q.discard /\ (q.truncated <=> acc.truncated)
                /\ Len(q.lines) = 1 /\ q.lines = <<line>>
    BY <2>1, <2>3, UsageTakesLine
  <2>5. rest = q
    BY <1>2, <2>1
  <2> PICK event : event = Event(a, q)
    OBVIOUS
  <2>6. event \in UsageAcc(a) /\ event.truncated
    <3>1. CASE q.discard
      <4>1. event = q /\ q.truncated
        BY <2>4, <3>1 DEF Event
      <4> QED
        BY <2>4, <4>1
    <3>2. CASE ~q.discard
      <4>1. q.lines # <<>> /\ q.lines[1] = line
        BY <2>4, <3>2
      <4>2. event = [q EXCEPT !.truncated = TRUE]
        BY <2>1, <3>2, <4>1 DEF Event
      <4> QED
        BY <2>4, <4>2 DEF UsageAcc
    <3> QED
      BY <3>1, <3>2
  <2>7. read.truncated
    <3>1. read = [event EXCEPT !.lines = <<>>, !.bytes = 0, !.discard = FALSE]
      BY <2>5, DispatchIs
    <3> HIDE DEF read
    <3> QED
      <4>1. Cleared(a, event, [event EXCEPT !.lines = <<>>, !.bytes = 0, !.discard = FALSE])
        BY <2>6, EventsAreCleared, Zenon
      <4> QED
        BY <2>6, <3>1, <4>1 DEF Cleared
  <2> HIDE DEF read, told
  <2>8. UsageEnd(a, acc) = Lost("incomplete_usage")
    BY <1>4, <2>7
  <2> QED
    BY <1>5, <2>8 DEF UsageIs
<1>6. CASE ~TornAt(a, d)
  <2>1. rest = acc
    <3>1. Part(a, k, off) = <<>>
      BY <1>6, PartIs
    <3> QED
      BY <1>2, <3>1
  <2>2. BytesCounted(a, n, n, read)
    <3>1. CASE LineEnded(a, k, off)
      <4>1. n = k + 1 /\ k < Len(a.events) /\ Pending(a, k, <<>>, acc)
        BY <3>1 DEF LinesRead, LineEnded, UsageAt
      <4>2. Waiting(a, k + 1, <<>>, Dispatch(a, acc))
        BY <1>1, <4>1, UsageOfBlank
      <4> QED
        BY <2>1, <4>1, <4>2 DEF Waiting
    <3>2. CASE ~LineEnded(a, k, off)
      <4>1. n = k /\ Waiting(a, k, Part(a, k, off), acc)
        BY <3>2 DEF LinesRead, UsageAt
      <4>2. acc \in UsageAcc(a) /\ acc.lines = <<>> /\ BytesCounted(a, n, n, acc)
        BY <4>1 DEF Waiting, BytesCounted
      <4>3. Event(a, acc) = acc
        BY <4>2 DEF Event
      <4> PICK q : q = [acc EXCEPT !.lines = <<>>, !.bytes = 0, !.discard = FALSE]
        OBVIOUS
      <4>4. /\ q \in UsageAcc(a) /\ (q.truncated <=> acc.truncated)
            /\ (q.terminal <=> acc.terminal) /\ q.start = acc.start /\ q.last = acc.last
        <5>1. Cleared(a, acc, [acc EXCEPT !.lines = <<>>, !.bytes = 0, !.discard = FALSE])
          BY <4>2, EventsAreCleared, Zenon
        <5>2. Cleared(a, acc, q)
          BY <5>1, Zenon
        <5> QED
          BY <5>2, Zenon DEF Cleared
      <4>5. Seen(a, n, acc) => Seen(a, n, q)
        BY <4>4 DEF Seen
      <4>6. Dispatch(a, acc) = q
        BY <4>3, DispatchIs
      <4> QED
        BY <2>1, <4>2, <4>4, <4>5, <4>6 DEF BytesCounted
    <3> QED
      BY <3>1, <3>2
  <2> HIDE DEF read
  <2>3. (read.truncated <=> TooLarge(a, n)) /\ (~read.truncated => Seen(a, n, read))
    BY <2>2 DEF BytesCounted
  <2>4. CASE read.truncated
    <3> HIDE DEF told
    <3> QED
      BY <1>3, <1>4, <2>3, <2>4 DEF UsageIs
  <2>5. CASE ~read.truncated
    <3>1. Seen(a, n, read) /\ (read.terminal <=> Ended(a, n))
      BY <2>3, <2>5 DEF Seen
    <3>2. ReportedAt(a, d) = told
      BY <1>1, <3>1, WhatIsReported
    <3> HIDE DEF told
    <3> QED
      BY <1>3, <1>4, <1>6, <2>3, <2>5, <3>1, <3>2 DEF UsageIs
  <2> QED
    BY <2>4, <2>5
<1> QED
  BY <1>5, <1>6

-----------------------------------------------------------------------------
\* The price

LEMMA LeastIs ==
  ASSUME NEW T \in SUBSET Nat, T # {}
  PROVE  Min(T) \in T
<1>1. \E x \in T : \A y \in T : x <= y
  BY LeastNatural
<1> QED
  BY <1>1 DEF Min

LEMMA UpdatedIs ==
  ASSUME NEW r, NEW l, IsReport(r), IsReport(l)
  PROVE  IsReport(Updated(r, l))
<1> PICK u : u = Updated(r, l)
  OBVIOUS
<1>1. /\ DOMAIN u = DOMAIN r \cup DOMAIN l /\ u = [f \in DOMAIN u |-> u[f]]
      /\ \A f \in DOMAIN u : u[f] = IF f \in DOMAIN l THEN l[f] ELSE r[f]
  BY DEF Updated
<1> QED
  BY <1>1 DEF IsReport

LEMMA FaultIs ==
  ASSUME NEW u, IsReport(u), NEW in, NEW out, NEW optional,
         Fault(u, <<in, out>>, optional) = None
  PROVE  /\ in \in DOMAIN u /\ out \in DOMAIN u /\ u[in] \in Nat /\ u[out] \in Nat
         /\ \A f \in optional : Count(u, f) \in Nat
<1> PICK required : required = <<in, out>>
  OBVIOUS
<1>1. DOMAIN required = {1, 2} /\ required[1] = in /\ required[2] = out
  OBVIOUS
<1> DEFINE wrong == {i \in DOMAIN required : required[i] \notin DOMAIN u \/ Bad(u, {required[i]})}
<1>2. None \notin {"missing_usage", "invalid_usage"}
  BY RelayAssumption
<1>3. Fault(u, required, optional) =
        IF wrong # {}
        THEN (IF required[Min(wrong)] \in DOMAIN u THEN "invalid_usage" ELSE "missing_usage")
        ELSE IF Bad(u, optional) THEN "invalid_usage" ELSE None
  BY DEF Fault
<1> HIDE DEF wrong
<1>4. wrong = {} /\ ~Bad(u, optional)
  BY <1>2, <1>3
<1>5. \A i \in {1, 2} : required[i] \in DOMAIN u /\ ~Bad(u, {required[i]})
  BY <1>1, <1>4 DEF wrong
<1>6. \A f \in DOMAIN u : u[f] \in Nat \/ u[f] = None
  BY DEF IsReport
<1>7. in \in DOMAIN u /\ out \in DOMAIN u /\ u[in] \in Nat /\ u[out] \in Nat
  BY <1>1, <1>5, <1>6 DEF Bad
<1>8. \A f \in optional : Count(u, f) \in Nat
  BY <1>4, <1>6 DEF Bad, Count
<1> QED
  BY <1>7, <1>8

\* What a complete report comes to
Buckets(kind, told, u) ==
  /\ u.uncached \in Nat /\ u.output \in Nat /\ u.read \in Nat /\ u.write \in Nat
  /\ u.uncached + u.read + u.write =
       IF kind = "messages" THEN told["input"] + Count(told, "read") + u.write
       ELSE told[InputField(kind)]

LEMMA LostIsLost ==
  ASSUME NEW reason
  PROVE  Lost(reason).status # "complete"
  BY DEF Lost

LEMMA UsageFieldsAre ==
  ASSUME NEW uncached, NEW output, NEW read, NEW write
  PROVE  LET u == Usage(uncached, output, read, write).usage
         IN u.uncached = uncached /\ u.output = output /\ u.read = read /\ u.write = write
  BY DEF Usage

LEMMA OpenAiIs ==
  ASSUME NEW kind, kind # "messages", NEW u, IsReport(u),
         NEW found, found = NormalizeOpenAi(kind, u), found.status = "complete"
  PROVE  Buckets(kind, u, found.usage)
<1> PICK in : in = InputField(kind)
  OBVIOUS
<1> PICK out : out = OutputField(kind)
  OBVIOUS
<1> PICK cached : cached = Count(u, CachedField(kind))
  OBVIOUS
<1> PICK optional : optional = {CachedField(kind)}
  OBVIOUS
<1> PICK fault : fault = Fault(u, <<in, out>>, optional)
  OBVIOUS
<1>1. found = IF DOMAIN u \cap {"read", "write"} # {} THEN Lost("unsupported_usage")
              ELSE IF fault # None THEN Lost(fault)
              ELSE IF cached > u[in] THEN Lost("invalid_usage")
              ELSE Usage(u[in] - cached, u[out], cached, 0)
  BY DEF NormalizeOpenAi
<1>2. /\ DOMAIN u \cap {"read", "write"} = {} /\ fault = None /\ ~(cached > u[in])
  BY <1>1, LostIsLost
<1>3. found = Usage(u[in] - cached, u[out], cached, 0)
  BY <1>1, <1>2
<1>4. /\ u[in] \in Nat /\ u[out] \in Nat /\ \A f \in optional : Count(u, f) \in Nat
  BY <1>2, FaultIs
<1>5. cached \in Nat
  BY <1>4
<1> PICK x : x = found.usage
  OBVIOUS
<1>6. x.uncached = u[in] - cached /\ x.output = u[out] /\ x.read = cached /\ x.write = 0
  BY <1>3, UsageFieldsAre
<1>7. u[in] - cached \in Nat /\ (u[in] - cached) + cached + 0 = u[in]
  BY <1>2, <1>4, <1>5
<1> QED
  BY <1>4, <1>5, <1>6, <1>7 DEF Buckets

LEMMA MessagesAre ==
  ASSUME NEW u, IsReport(u), NEW found, found = NormalizeMessages(u), found.status = "complete"
  PROVE  Buckets("messages", u, found.usage)
<1> PICK optional : optional = {"read", "write", "write5m", "write1h"}
  OBVIOUS
<1> PICK fault : fault = Fault(u, <<"input", "output">>, optional)
  OBVIOUS
<1> DEFINE split == Count(u, "write5m") + Count(u, "write1h")
           splits == {"write5m", "write1h"} \cap DOMAIN u # {}
           write == IF "write" \in DOMAIN u THEN u["write"] ELSE split
<1>1. found = IF DOMAIN u \cap {"prompt", "completion", "cached_prompt"} # {}
              THEN Lost("unsupported_usage")
              ELSE IF fault # None THEN Lost(fault)
              ELSE IF "write" \in DOMAIN u /\ splits /\ u["write"] # split THEN Lost("invalid_usage")
              ELSE Usage(u["input"], u["output"], Count(u, "read"), write)
  BY DEF NormalizeMessages
<1> HIDE DEF split, splits, write
<1>2. fault = None /\ found = Usage(u["input"], u["output"], Count(u, "read"), write)
  BY <1>1, LostIsLost
<1>3. /\ u["input"] \in Nat /\ u["output"] \in Nat /\ \A f \in optional : Count(u, f) \in Nat
  BY <1>2, FaultIs
<1>4. Count(u, "read") \in Nat /\ write \in Nat
  <2>1. split \in Nat /\ Count(u, "read") \in Nat /\ Count(u, "write") \in Nat
    BY <1>3 DEF split
  <2>2. write = IF "write" \in DOMAIN u THEN Count(u, "write") ELSE split
    BY DEF write, Count
  <2> QED
    BY <2>1, <2>2
<1> PICK x : x = found.usage
  OBVIOUS
<1>5. x.uncached = u["input"] /\ x.output = u["output"] /\ x.read = Count(u, "read") /\ x.write = write
  BY <1>2, UsageFieldsAre
<1> QED
  BY <1>3, <1>4, <1>5 DEF Buckets

LEMMA NormalIs ==
  ASSUME NEW kind, NEW u, u = None \/ IsReport(u),
         NEW found, found = Normalize(kind, u), found.status = "complete"
  PROVE  Buckets(kind, u, found.usage)
<1>1. u # None /\ kind # "other"
  BY LostIsLost DEF Normalize
<1>2. CASE kind = "messages"
  <2>1. found = NormalizeMessages(u)
    BY <1>1, <1>2 DEF Normalize
  <2> QED
    BY <1>1, <1>2, <2>1, MessagesAre
<1>3. CASE kind # "messages"
  <2>1. found = NormalizeOpenAi(kind, u)
    BY <1>1, <1>3 DEF Normalize
  <2> QED
    BY <1>1, <1>3, <2>1, OpenAiIs
<1> QED
  BY <1>2, <1>3

Rule == [wildcard : BOOLEAN, models : SUBSET STRING, multiplier : Nat,
         input : Nat, output : Nat, read : Nat, write : Nat]

LEMMA RuleIs ==
  ASSUME NEW model, NEW rule, rule = RuleFor(model), rule # None
  PROVE  /\ rule.multiplier \in Nat /\ rule.input \in Nat /\ rule.output \in Nat
         /\ rule.read \in Nat /\ rule.write \in Nat
<1> DEFINE exact == {i \in DOMAIN Rules : ~Rules[i].wildcard /\ model \in Rules[i].models}
           wild == {i \in DOMAIN Rules : Rules[i].wildcard /\ model \in Rules[i].models}
<1>1. rule = IF exact # {} THEN Rules[Min(exact)] ELSE IF wild # {} THEN Rules[Min(wild)] ELSE None
  BY DEF RuleFor
<1>2. Rules \in Seq(Rule)
  BY RelayAssumption DEF Rule
<1>3. exact \in SUBSET Nat /\ wild \in SUBSET Nat /\ exact \subseteq DOMAIN Rules /\ wild \subseteq DOMAIN Rules
  BY <1>2
<1> HIDE DEF exact, wild
<1>4. \E i \in DOMAIN Rules : rule = Rules[i]
  BY <1>1, <1>3, LeastIs
<1>5. rule \in Rule
  BY <1>2, <1>4
<1> QED
  BY <1>5 DEF Rule

LEMMA ProductsAreNatural ==
  ASSUME NEW x \in Nat, NEW y \in Nat
  PROVE  x * y \in Nat
  OBVIOUS

LEMMA ProductIs ==
  ASSUME NEW u, u.uncached \in Nat, u.output \in Nat, u.read \in Nat, u.write \in Nat,
         NEW rule, rule.multiplier \in Nat, rule.input \in Nat, rule.output \in Nat,
         rule.read \in Nat, rule.write \in Nat
  PROVE  Product(rule, u) \in Nat
<1> PICK p \in Nat : p = u.uncached * rule.input
  BY ProductsAreNatural
<1> PICK q \in Nat : q = u.output * rule.output
  BY ProductsAreNatural
<1> PICK r \in Nat : r = u.read * rule.read
  BY ProductsAreNatural
<1> PICK s \in Nat : s = u.write * rule.write
  BY ProductsAreNatural
<1> PICK t \in Nat : t = p + q + r + s
  OBVIOUS
<1>1. Product(rule, u) = t * rule.multiplier
  BY DEF Product
<1>2. t * rule.multiplier \in Nat
  BY ProductsAreNatural
<1> QED
  BY <1>1, <1>2

LEMMA RoundingIs ==
  ASSUME NEW exact \in Nat, NEW cost, cost = (exact + Rounding \div 2) \div Rounding
  PROVE  /\ cost * Rounding <= exact + Rounding \div 2
         /\ exact < cost * Rounding + (Rounding + 1) \div 2
<1>1. Rounding \in Nat /\ Rounding > 0
  BY RelayAssumption
<1> QED
  BY <1>1

\* A price made of a report
Exactly(model, kind, told, price) ==
  price.status = "priced" =>
    LET u == price.usage
        exact == Product(RuleFor(model), u)
        amount == price.cost * Rounding
    IN /\ u.uncached + u.read + u.write =
            IF kind = "messages" THEN told["input"] + Count(told, "read") + u.write
            ELSE told[InputField(kind)]
       /\ amount <= exact + Rounding \div 2 /\ exact < amount + (Rounding + 1) \div 2
       /\ price.cost <= MaxAmount

LEMMA UnpricedIs ==
  ASSUME NEW reason, NEW usage
  PROVE  Unpriced(reason, usage).status # "priced"
  BY DEF Unpriced

LEMMA LostIsUnpriced ==
  ASSUME NEW model, NEW found, found.status # "complete", NEW price, price = Priced(model, found)
  PROVE  price.status # "priced"
<1>1. \E reason, usage : price = Unpriced(reason, usage)
  BY DEF Priced
<1> QED
  BY <1>1, UnpricedIs

LEMMA PriceIs ==
  ASSUME NEW model, NEW kind, NEW told, told = None \/ IsReport(told),
         NEW found, found = Normalize(kind, told), NEW price, price = Priced(model, found)
  PROVE  Exactly(model, kind, told, price)
<1> SUFFICES ASSUME price.status = "priced" PROVE Exactly(model, kind, told, price)
  BY DEF Exactly
<1> PICK rule : rule = IF model = None THEN None ELSE RuleFor(model)
  OBVIOUS
<1> PICK u : u = found.usage
  OBVIOUS
<1>1. found.status = "complete"
  BY LostIsUnpriced
<1>2. price =
        IF rule = None
        THEN Unpriced(IF model = None THEN "missing_model" ELSE "no_matching_price",
                      IF found.status = "complete" THEN found.usage ELSE None)
        ELSE IF found.status # "complete" THEN Unpriced(found.reason, None)
        ELSE IF Cost(rule, u) > MaxAmount THEN Unpriced("amount_overflow", None)
        ELSE [status |-> "priced", reason |-> None, usage |-> u, cost |-> Cost(rule, u)]
  BY DEF Priced
<1>3. rule # None /\ ~(Cost(rule, u) > MaxAmount)
  BY <1>1, <1>2, UnpricedIs
<1>4. price.usage = u /\ price.cost = Cost(rule, u)
  BY <1>1, <1>2, <1>3
<1>5. rule = RuleFor(model)
  BY <1>3
<1>6. Buckets(kind, told, u)
  BY <1>1, NormalIs
<1>7. /\ rule.multiplier \in Nat /\ rule.input \in Nat /\ rule.output \in Nat
      /\ rule.read \in Nat /\ rule.write \in Nat
  BY <1>3, <1>5, RuleIs
<1> PICK exact : exact = Product(rule, u)
  OBVIOUS
<1>8. exact \in Nat
  BY <1>6, <1>7, ProductIs DEF Buckets
<1> PICK cost : cost = Cost(rule, u)
  OBVIOUS
<1>9. cost = (exact + Rounding \div 2) \div Rounding
  BY DEF Cost
<1>10. /\ cost * Rounding <= exact + Rounding \div 2
       /\ exact < cost * Rounding + (Rounding + 1) \div 2
  BY <1>8, <1>9, RoundingIs
<1>11. cost <= MaxAmount
  <2>1. cost \in Nat /\ MaxAmount \in Nat
    <3>1. Rounding \in Nat /\ Rounding > 0 /\ MaxAmount \in Nat
      BY RelayAssumption
    <3> QED
      BY <1>8, <1>9, <3>1
  <2> QED
    BY <1>3, <2>1
<1>12. u.uncached + u.read + u.write =
         IF kind = "messages" THEN told["input"] + Count(told, "read") + u.write
         ELSE told[InputField(kind)]
  BY <1>6 DEF Buckets
<1> QED
  BY <1>4, <1>5, <1>10, <1>11, <1>12 DEF Exactly

-----------------------------------------------------------------------------
\* The capture

Flow(a, c, from, to) ==
  IF c = "unknown" THEN [i \in 1 .. to - from |-> Noise] ELSE SubSeq(Body(a), from + 1, to)

LEMMA DeliveredIs ==
  ASSUME NEW from, NEW to
  PROVE  Delivered(from, to) = Flow(answer, coding, from, to)
  BY DEF Delivered, Flow, Noise

LEMMA LesserIs ==
  ASSUME NEW x \in Nat, NEW y \in Nat
  PROVE  Min({x, y}) = IF x <= y THEN x ELSE y
<1>1. \A z \in {x, y} : (\A w \in {x, y} : z <= w) <=> z = IF x <= y THEN x ELSE y
  OBVIOUS
<1>2. (IF x <= y THEN x ELSE y) \in {x, y}
  OBVIOUS
<1> QED
  BY <1>1, <1>2 DEF Min

\* f is what comes after d symbols, up to e of them.
FlowsTo(a, c, d, e, f) ==
  /\ f \in Seq(Symbol) /\ Len(f) = e - d
  /\ \A m \in 1 .. e - d : f[m] = IF c = "unknown" THEN Noise ELSE Body(a)[d + m]

LEMMA FlowIs ==
  ASSUME NEW a, Good(a), NEW c, NEW d \in Nat, NEW e \in Nat, d <= e, e <= Len(Body(a))
  PROVE  FlowsTo(a, c, d, e, Flow(a, c, d, e))
<1> PICK body : body = Body(a)
  OBVIOUS
<1> PICK n \in Nat : n = e - d /\ e = d + n
  OBVIOUS
<1> PICK chunk : chunk = SubSeq(body, d + 1, d + n)
  OBVIOUS
<1> PICK noise : noise = [i \in 1 .. n |-> Noise]
  OBVIOUS
<1>1. body \in Seq(Symbol)
  BY BodyIs
<1>2. chunk \in Seq(Symbol) /\ Len(chunk) = n /\ \A m \in 1 .. n : chunk[m] = body[d + m]
  <2>1. d + n <= Len(body)
    OBVIOUS
  <2>2. Chunked(Symbol, body, d, n, SubSeq(body, d + 1, d + n))
    BY <1>1, <2>1, ChunkIs
  <2> QED
    BY <2>2 DEF Chunked
<1>3. noise \in Seq(Symbol) /\ Len(noise) = n /\ \A m \in 1 .. n : noise[m] = Noise
  <2>1. Noise \in Symbol
    BY DEF Noise, Symbol
  <2> QED
    BY <2>1
<1>5. Flow(a, c, d, e) = IF c = "unknown" THEN noise ELSE chunk
  BY DEF Flow
<1> QED
  BY <1>2, <1>3, <1>5 DEF FlowsTo

LEMMA SameSequence ==
  ASSUME NEW V, NEW x \in Seq(V), NEW n \in Nat, Len(x) = n, NEW y \in Seq(V), Len(y) = n,
         \A p \in 1 .. n : x[p] = y[p]
  PROVE  x = y
<1>1. x = [p \in 1 .. n |-> x[p]] /\ y = [p \in 1 .. n |-> y[p]]
  OBVIOUS
<1> QED
  BY <1>1

\* What is kept grows by the beginning of a chunk.
Grows(a, c, d, n, m) ==
  Flow(a, c, 0, d) \o SubSeq(Flow(a, c, d, d + n), 1, m) = Flow(a, c, 0, d + m)

LEMMA FlowGrows ==
  ASSUME NEW a, Good(a), NEW c, NEW d \in Nat, NEW n \in Nat, d + n <= Len(Body(a)),
         NEW m \in Nat, m <= n
  PROVE  Grows(a, c, d, n, m)
<1> PICK kept : kept = Flow(a, c, 0, d)
  OBVIOUS
<1> PICK chunk : chunk = Flow(a, c, d, d + n)
  OBVIOUS
<1> PICK begun : begun = SubSeq(chunk, 1, m)
  OBVIOUS
<1> PICK all : all = Flow(a, c, 0, d + m)
  OBVIOUS
<1> PICK body : body = Body(a)
  OBVIOUS
<1>0. body \in Seq(Symbol) /\ Len(body) \in Nat
  BY BodyIs
<1>1. /\ kept \in Seq(Symbol) /\ Len(kept) = d
      /\ \A p \in 1 .. d : kept[p] = IF c = "unknown" THEN Noise ELSE body[p]
  <2>1. FlowsTo(a, c, 0, d, kept)
    BY <1>0, FlowIs
  <2> QED
    BY <2>1 DEF FlowsTo
<1>2. /\ chunk \in Seq(Symbol) /\ Len(chunk) = n
      /\ \A p \in 1 .. n : chunk[p] = IF c = "unknown" THEN Noise ELSE body[d + p]
  <2>1. FlowsTo(a, c, d, d + n, chunk)
    BY FlowIs
  <2>2. (d + n) - d = n
    OBVIOUS
  <2> QED
    BY <2>1, <2>2 DEF FlowsTo
<1>3. /\ all \in Seq(Symbol) /\ Len(all) = d + m
      /\ \A p \in 1 .. d + m : all[p] = IF c = "unknown" THEN Noise ELSE body[p]
  <2>1. d + m <= Len(Body(a)) /\ d + m \in Nat
    BY <1>0
  <2>2. FlowsTo(a, c, 0, d + m, all)
    BY <2>1, FlowIs
  <2> QED
    BY <2>1, <2>2 DEF FlowsTo
<1>4. begun \in Seq(Symbol) /\ Len(begun) = m /\ \A p \in 1 .. m : begun[p] = chunk[p]
  BY <1>2
<1>5. /\ kept \o begun \in Seq(Symbol) /\ Len(kept \o begun) = d + m
      /\ \A p \in 1 .. d : (kept \o begun)[p] = kept[p]
      /\ \A p \in 1 .. m : (kept \o begun)[d + p] = begun[p]
  BY <1>1, <1>4, JoinIs
<1> PICK joined : joined = kept \o begun
  OBVIOUS
<1>6. \A p \in 1 .. d + m : joined[p] = all[p]
  <2> TAKE p \in 1 .. d + m
  <2>1. CASE p <= d
    BY <1>1, <1>3, <1>5, <2>1
  <2>2. CASE ~(p <= d)
    <3>1. p - d \in 1 .. m /\ d + (p - d) = p /\ p - d \in 1 .. n
      BY <2>2
    <3>2. joined[p] = chunk[p - d]
      BY <1>4, <1>5, <3>1
    <3> QED
      BY <1>2, <1>3, <3>1, <3>2
  <2> QED
    BY <2>1, <2>2
<1>7. joined \in Seq(Symbol) /\ Len(joined) = d + m
  BY <1>5
<1>8. all \in Seq(Symbol) /\ Len(all) = d + m
  BY <1>3
<1>9. joined = all
  <2>1. d + m \in Nat
    OBVIOUS
  <2> QED
    BY <1>6, <1>7, <1>8, <2>1, SameSequence, Zenon
<1> QED
  BY <1>9 DEF Grows

IsCapture(c) ==
  /\ DOMAIN c = {"size", "kept", "spool", "summary", "taken", "cut", "usage"}
  /\ c = [f \in DOMAIN c |-> c[f]]

\* What a capture holds of the first d symbols
Begun(a, co, d, c) == c.size = d /\ c.kept = Flow(a, co, 0, Min({d, MaxBytes}))
Billed(a, co, d, c) ==
  a.sse => IF co = "unknown" THEN Mute(a, c.usage) ELSE UsageRead(a, d, c.usage)
Summed(a, co, d, c) == (a.sse /\ co # "unknown" /\ ~c.cut) => SummaryRead(a, d, c.summary)

Holding(a, co, d, c) == IsCapture(c) /\ Begun(a, co, d, c) /\ Billed(a, co, d, c) /\ Summed(a, co, d, c)

LEMMA CaptureStarts ==
  ASSUME NEW a, Good(a), NEW co
  PROVE  Holding(a, co, 0, NewCapture)
<1>1. IsCapture(NewCapture)
  BY DEF NewCapture, IsCapture
<1>2. Min({0, MaxBytes}) = 0
  BY RelayAssumption, LesserIs
<1>3. Flow(a, co, 0, 0) = <<>>
  <2>1. Body(a) \in Seq(Symbol)
    BY BodyIs
  <2> PICK f : f = Flow(a, co, 0, 0)
    OBVIOUS
  <2>2. FlowsTo(a, co, 0, 0, f)
    BY <2>1, FlowIs
  <2>3. f \in Seq(Symbol) /\ Len(f) = 0
    BY <2>2 DEF FlowsTo
  <2> QED
    BY <2>3
<1>4. /\ NewCapture.size = 0 /\ NewCapture.kept = <<>>
      /\ NewCapture.usage = NoUsage /\ NewCapture.summary = NoSummary
  BY DEF NewCapture
<1>5. Begun(a, co, 0, NewCapture)
  BY <1>2, <1>3, <1>4 DEF Begun
<1>6. Billed(a, co, 0, NewCapture) /\ Summed(a, co, 0, NewCapture)
  BY <1>4, NoUsageIsMute, UsageStarts, SummaryStarts DEF Billed, Summed
<1> QED
  BY <1>1, <1>5, <1>6 DEF Holding

\* Other fields of the capture
LEMMA Unspooled ==
  ASSUME NEW a, NEW co, NEW d, NEW c, Holding(a, co, d, c)
  PROVE  Holding(a, co, d, [c EXCEPT !.spool = "none"])
<1> PICK q : q = [c EXCEPT !.spool = "none"]
  OBVIOUS
<1>1. /\ IsCapture(q) /\ q.size = c.size /\ q.kept = c.kept /\ q.usage = c.usage
      /\ q.cut = c.cut /\ q.summary = c.summary
  BY DEF Holding, IsCapture
<1>2. Begun(a, co, d, q) /\ Billed(a, co, d, q) /\ Summed(a, co, d, q)
  BY <1>1 DEF Holding, Begun, Billed, Summed
<1> QED
  BY <1>1, <1>2 DEF Holding

\* What each part of addChunk does to a capture
KeptOf(c, chunk, q) ==
  /\ IsCapture(q) /\ q.size = c.size /\ q.usage = c.usage /\ q.cut = c.cut
  /\ q.summary = c.summary
  /\ q.kept = c.kept \o SubSeq(chunk, 1, Min({Len(chunk), MaxBytes - Len(c.kept)}))
UsageOf(c, chunk, q) ==
  /\ IsCapture(q) /\ q.size = c.size /\ q.kept = c.kept /\ q.cut = c.cut
  /\ q.summary = c.summary
  /\ answer.sse => q.usage = UsageChunk(answer, c.usage, chunk)
SummaryOf(c, chunk, q) ==
  /\ IsCapture(q) /\ q.size = c.size /\ q.kept = c.kept /\ q.usage = c.usage
  /\ (answer.sse /\ ~q.cut) => ~c.cut /\ q.summary = SummaryChunk(answer, c.summary, chunk)

LEMMA KeepIs ==
  ASSUME NEW c, IsCapture(c), NEW chunk
  PROVE  KeptOf(c, chunk, Keep(c, chunk))
<1> PICK kept : kept = c.kept \o SubSeq(chunk, 1, Min({Len(chunk), MaxBytes - Len(c.kept)}))
  OBVIOUS
<1> PICK spool : spool = IF c.spool = "none" /\ Len(kept) > MemoryThreshold THEN "open" ELSE c.spool
  OBVIOUS
<1> PICK q : q = [c EXCEPT !.kept = kept, !.spool = spool]
  OBVIOUS
<1>1. Keep(c, chunk) = q
  BY DEF Keep
<1>2. /\ IsCapture(q) /\ q.size = c.size /\ q.usage = c.usage /\ q.cut = c.cut
      /\ q.summary = c.summary /\ q.kept = kept
  BY DEF IsCapture
<1> QED
  BY <1>1, <1>2 DEF KeptOf

LEMMA CaptureUsageIs ==
  ASSUME NEW c, IsCapture(c), NEW chunk
  PROVE  UsageOf(c, chunk, CaptureUsage(c, chunk))
<1> PICK read : read = UsageChunk(answer, c.usage, chunk)
  OBVIOUS
<1> PICK q : q = [c EXCEPT !.usage = read]
  OBVIOUS
<1>1. CaptureUsage(c, chunk) = IF answer.sse THEN q ELSE c
  BY DEF CaptureUsage
<1>2. /\ IsCapture(q) /\ q.size = c.size /\ q.kept = c.kept /\ q.cut = c.cut
      /\ q.summary = c.summary /\ q.usage = read
  BY DEF IsCapture
<1> QED
  BY <1>1, <1>2 DEF UsageOf

LEMMA CaptureSummaryIs ==
  ASSUME NEW c, IsCapture(c), NEW chunk
  PROVE  SummaryOf(c, chunk, CaptureSummary(c, chunk))
<1> PICK read : read = SummaryChunk(answer, c.summary, chunk)
  OBVIOUS
<1> PICK taken : taken = c.taken + Len(chunk)
  OBVIOUS
<1> PICK q : q = [c EXCEPT !.taken = taken, !.summary = read]
  OBVIOUS
<1> PICK r : r = [c EXCEPT !.cut = TRUE]
  OBVIOUS
<1>1. CaptureSummary(c, chunk) =
        IF ~answer.sse THEN c ELSE IF taken > MaxSummaryInput THEN r ELSE q
  BY DEF CaptureSummary
<1>2. /\ IsCapture(q) /\ q.size = c.size /\ q.kept = c.kept /\ q.usage = c.usage
      /\ q.cut = c.cut /\ q.summary = read
  BY DEF IsCapture
<1>3. IsCapture(r) /\ r.size = c.size /\ r.kept = c.kept /\ r.usage = c.usage /\ r.cut
  BY DEF IsCapture
<1> QED
  BY <1>1, <1>2, <1>3 DEF SummaryOf

\* What is kept of d symbols, and of n more
KeptUpTo(a, co, e, kept, chunk) ==
  kept \o SubSeq(chunk, 1, Min({Len(chunk), MaxBytes - Len(kept)})) =
    Flow(a, co, 0, Min({e, MaxBytes}))

LEMMA KeptGrows ==
  ASSUME NEW a, Good(a), NEW co, NEW d \in Nat, NEW n \in Nat, d + n <= Len(Body(a))
  PROVE  KeptUpTo(a, co, d + n, Flow(a, co, 0, Min({d, MaxBytes})), Flow(a, co, d, d + n))
<1>0. \A m \in Nat : m <= n => Grows(a, co, d, n, m)
  BY FlowGrows
<1> PICK kept : kept = Flow(a, co, 0, Min({d, MaxBytes}))
  OBVIOUS
<1> PICK chunk : chunk = Flow(a, co, d, d + n)
  OBVIOUS
<1> SUFFICES kept \o SubSeq(chunk, 1, Min({Len(chunk), MaxBytes - Len(kept)})) =
               Flow(a, co, 0, Min({d + n, MaxBytes}))
  BY DEF KeptUpTo
<1>1. MaxBytes \in Nat /\ d + n \in Nat /\ Body(a) \in Seq(Symbol)
  BY RelayAssumption, BodyIs
<1>2. Min({d, MaxBytes}) = IF d <= MaxBytes THEN d ELSE MaxBytes
  BY <1>1, LesserIs
<1>3. Min({d + n, MaxBytes}) = IF d + n <= MaxBytes THEN d + n ELSE MaxBytes
  BY <1>1, LesserIs
<1> PICK k \in Nat : k = IF d <= MaxBytes THEN d ELSE MaxBytes
  BY <1>1
<1>10. k <= MaxBytes
  BY <1>1
<1>4. Len(kept) = k /\ kept \in Seq(Symbol)
  <2>1. k <= Len(Body(a)) /\ kept = Flow(a, co, 0, k)
    BY <1>1, <1>2
  <2>2. FlowsTo(a, co, 0, k, kept)
    BY <2>1, FlowIs
  <2> QED
    BY <2>2 DEF FlowsTo
<1>5. Len(chunk) = n
  <2>1. FlowsTo(a, co, d, d + n, chunk)
    BY <1>1, FlowIs
  <2>2. (d + n) - d = n
    OBVIOUS
  <2> QED
    BY <2>1, <2>2 DEF FlowsTo
<1> PICK room \in Nat : room = MaxBytes - k
  <2>1. MaxBytes - k \in Nat
    BY <1>1, <1>10
  <2> QED
    BY <2>1
<1>6. Min({n, room}) = IF n <= room THEN n ELSE room
  BY LesserIs
<1> PICK m \in Nat : m = Min({n, room})
  BY <1>6
<1>7. m <= n /\ Min({Len(chunk), MaxBytes - Len(kept)}) = m
  <2>1. m <= n
    BY <1>6
  <2>2. MaxBytes - Len(kept) = room
    BY <1>4
  <2> QED
    BY <1>5, <2>1, <2>2
<1>8. CASE d <= MaxBytes
  <2>1. k = d /\ kept = Flow(a, co, 0, d)
    BY <1>2, <1>8
  <2>2. kept \o SubSeq(chunk, 1, m) = Flow(a, co, 0, d + m)
    <3>1. Flow(a, co, 0, d) \o SubSeq(Flow(a, co, d, d + n), 1, m) = Flow(a, co, 0, d + m)
      BY <1>0, <1>7, Zenon DEF Grows
    <3> QED
      BY <2>1, <3>1, Zenon
  <2>3. Min({d + n, MaxBytes}) = d + m
    BY <1>1, <1>3, <1>6, <1>8
  <2> QED
    BY <1>7, <2>2, <2>3
<1>9. CASE ~(d <= MaxBytes)
  <2>1. room = 0 /\ m = 0
    BY <1>1, <1>6, <1>9
  <2>2. SubSeq(chunk, 1, 0) = <<>>
    OBVIOUS
  <2>3. kept \o <<>> = kept
    BY <1>4
  <2>4. Min({d + n, MaxBytes}) = Min({d, MaxBytes})
    BY <1>1, <1>2, <1>3, <1>9
  <2> QED
    BY <1>7, <2>1, <2>2, <2>3, <2>4
<1> QED
  BY <1>8, <1>9

LEMMA AddChunkIs ==
  ASSUME Good(answer), NEW d \in Nat, NEW n \in Nat, d + n <= Len(Body(answer)),
         NEW c, Holding(answer, coding, d, c)
  PROVE  Holding(answer, coding, d + n, AddChunk(c, Delivered(d, d + n)))
<1> PICK chunk : chunk = Flow(answer, coding, d, d + n)
  OBVIOUS
<1>1. Delivered(d, d + n) = chunk
  BY DeliveredIs
<1>2. Len(chunk) = n
  <2>1. d + n \in Nat /\ d <= d + n /\ (d + n) - d = n
    OBVIOUS
  <2>2. FlowsTo(answer, coding, d, d + n, chunk)
    BY <2>1, FlowIs
  <2> QED
    BY <2>1, <2>2 DEF FlowsTo
<1>3. IsCapture(c) /\ c.size = d /\ c.kept = Flow(answer, coding, 0, Min({d, MaxBytes}))
  BY DEF Holding, Begun
<1> PICK c1 : c1 = [c EXCEPT !.size = @ + Len(chunk)]
  OBVIOUS
<1>4. /\ IsCapture(c1) /\ c1.size = d + n /\ c1.kept = c.kept /\ c1.cut = c.cut
      /\ c1.usage = c.usage /\ c1.summary = c.summary
  BY <1>2, <1>3 DEF IsCapture
<1> PICK c2 : c2 = CaptureSummary(c1, chunk)
  OBVIOUS
<1>5. SummaryOf(c1, chunk, c2) /\ IsCapture(c2)
  <2>1. SummaryOf(c1, chunk, CaptureSummary(c1, chunk))
    BY <1>4, CaptureSummaryIs, Zenon
  <2> QED
    BY <2>1 DEF SummaryOf
<1> PICK c3 : c3 = CaptureUsage(c2, chunk)
  OBVIOUS
<1>6. UsageOf(c2, chunk, c3) /\ IsCapture(c3)
  <2>1. UsageOf(c2, chunk, CaptureUsage(c2, chunk))
    BY <1>5, CaptureUsageIs, Zenon
  <2> QED
    BY <2>1 DEF UsageOf
<1> PICK q : q = Keep(c3, chunk)
  OBVIOUS
<1>7. KeptOf(c3, chunk, q) /\ IsCapture(q)
  <2>1. KeptOf(c3, chunk, Keep(c3, chunk))
    BY <1>6, KeepIs, Zenon
  <2> QED
    BY <2>1 DEF KeptOf
<1>8. AddChunk(c, Delivered(d, d + n)) = q
  BY <1>1 DEF AddChunk
<1>9. q.size = d + n /\ c3.kept = c.kept
  BY <1>4, <1>5, <1>6, <1>7 DEF SummaryOf, UsageOf, KeptOf
<1>10. q.kept = Flow(answer, coding, 0, Min({d + n, MaxBytes}))
  <2>1. q.kept = c.kept \o SubSeq(chunk, 1, Min({Len(chunk), MaxBytes - Len(c.kept)}))
    BY <1>7, <1>9, Zenon DEF KeptOf
  <2> PICK held : held = c.kept
    OBVIOUS
  <2>2. held = Flow(answer, coding, 0, Min({d, MaxBytes}))
    BY <1>3
  <2>3. held \o SubSeq(chunk, 1, Min({Len(chunk), MaxBytes - Len(held)})) =
          Flow(answer, coding, 0, Min({d + n, MaxBytes}))
    <3>1. KeptUpTo(answer, coding, d + n, Flow(answer, coding, 0, Min({d, MaxBytes})),
                   Flow(answer, coding, d, d + n))
      BY KeptGrows
    <3>2. KeptUpTo(answer, coding, d + n, held, chunk)
      BY <2>2, <3>1, Zenon
    <3> QED
      BY <3>2, Zenon DEF KeptUpTo
  <2> QED
    BY <2>1, <2>3, Zenon
<1>11. Begun(answer, coding, d + n, q)
  BY <1>9, <1>10 DEF Begun
<1>12. Billed(answer, coding, d + n, q)
  <2> SUFFICES ASSUME answer.sse
               PROVE  IF coding = "unknown" THEN Mute(answer, q.usage)
                      ELSE UsageRead(answer, d + n, q.usage)
    BY DEF Billed
  <2>1. q.usage = UsageChunk(answer, c.usage, chunk)
    BY <1>4, <1>5, <1>6, <1>7 DEF SummaryOf, UsageOf, KeptOf
  <2>2. IF coding = "unknown" THEN Mute(answer, c.usage) ELSE UsageRead(answer, d, c.usage)
    BY DEF Holding, Billed
  <2>3. CASE coding = "unknown"
    <3>1. chunk = [i \in 1 .. (d + n) - d |-> Noise] /\ (d + n) - d = n
      BY <2>3 DEF Flow
    <3>2. chunk = [m \in 1 .. n |-> Noise]
      BY <3>1
    <3>3. Mute(answer, UsageChunk(answer, c.usage, [m \in 1 .. n |-> Noise]))
      BY <2>2, <2>3, NoiseIsRead
    <3> QED
      BY <2>1, <2>3, <3>2, <3>3
  <2>4. CASE coding # "unknown"
    <3>1. chunk = SubSeq(Body(answer), d + 1, d + n)
      BY <2>4 DEF Flow
    <3>2. UsageRead(answer, d + n, UsageChunk(answer, c.usage, SubSeq(Body(answer), d + 1, d + n)))
      BY <2>2, <2>4, UsageReadsChunk
    <3> QED
      BY <2>1, <2>4, <3>1, <3>2
  <2> QED
    BY <2>3, <2>4
<1>13. Summed(answer, coding, d + n, q)
  <2> SUFFICES ASSUME answer.sse, coding # "unknown", ~q.cut
               PROVE  SummaryRead(answer, d + n, q.summary)
    BY DEF Summed
  <2>1. ~c.cut /\ q.summary = SummaryChunk(answer, c.summary, chunk)
    BY <1>4, <1>5, <1>6, <1>7 DEF SummaryOf, UsageOf, KeptOf
  <2>2. SummaryRead(answer, d, c.summary)
    BY <2>1 DEF Holding, Summed
  <2>3. chunk = SubSeq(Body(answer), d + 1, d + n)
    BY DEF Flow
  <2>4. SummaryRead(answer, d + n, SummaryChunk(answer, c.summary, SubSeq(Body(answer), d + 1, d + n)))
    BY <2>2, SummaryReadsChunk
  <2> QED
    BY <2>1, <2>3, <2>4
<1> QED
  BY <1>7, <1>8, <1>11, <1>12, <1>13 DEF Holding

-----------------------------------------------------------------------------
(* What is logged.                                                         *)

\* What a record may say of a body of which d symbols were decoded
Faithful(a, co, d, r) ==
  (r # None /\ r.body # None) =>
    /\ (a.sse /\ co # "unknown" /\ ~r.body.cut) => SummaryIs(a, d, r.body.summary)
    /\ (a.sse /\ co # "unknown") => UsageIs(a, d, r.found)
    /\ r.body.text = Flow(a, co, 0, Min({d, MaxBytes}))
    /\ r.body.size = d
    /\ r.body.truncated = (d > MaxBytes)
    /\ Exactly(a.model, a.kind, IF a.sse THEN ReportedAt(a, d) ELSE a.events[1].usage, r.price)

LEMMA ReportedIs ==
  /\ Arrived = Arriving(answer, decoded)
  /\ Torn <=> TornAt(answer, decoded)
  /\ Reported = ReportedAt(answer, decoded)
  /\ Concluded <=> \E i \in Arriving(answer, decoded) : answer.events[i].type \in Ending(answer.kind)
<1>1. \A i : EventEnd(i) = Ends(answer)[i] - 1
  BY DEF EventEnd
<1>2. Arrived = Arriving(answer, decoded)
  BY <1>1 DEF Arrived, Arriving
<1>3. Torn <=> TornAt(answer, decoded)
  BY <1>1, <1>2 DEF Torn, TornAt
<1>4. \A types : LastOf(types) = LastArriving(answer, decoded, types)
  BY <1>2 DEF LastOf, LastArriving
<1>5. Reported = ReportedAt(answer, decoded)
  BY <1>4 DEF Reported, ReportedAt
<1>6. Concluded <=> \E i \in Arriving(answer, decoded) : answer.events[i].type \in Ending(answer.kind)
  BY <1>2 DEF Concluded, Ending
<1> QED
  BY <1>2, <1>3, <1>5, <1>6

LEMMA FaithfulLogs ==
  ASSUME Faithful(answer, coding, decoded, record),
         Logged => (decoder # "abandoned" => decoded = sent)
  PROVE  LogSaysWhatTheStreamSaid /\ PriceIsExact
<1>1. CASE ~Logged
  BY <1>1 DEF LogSaysWhatTheStreamSaid, SummaryIsOfTheStream, UsageIsWhatTheStreamReported,
              BodyIsOfTheWholeAnswer, PriceIsExact
<1>2. CASE Logged
  <2>1. /\ (Readable /\ ~record.body.cut) => SummaryIs(answer, decoded, record.body.summary)
        /\ Readable => UsageIs(answer, decoded, record.found)
        /\ record.body.text = Flow(answer, coding, 0, Min({decoded, MaxBytes}))
        /\ record.body.size = decoded
        /\ record.body.truncated = (decoded > MaxBytes)
        /\ Exactly(answer.model, answer.kind,
                   IF answer.sse THEN ReportedAt(answer, decoded) ELSE answer.events[1].usage,
                   record.price)
    BY <1>2 DEF Faithful, Logged, Readable
  <2>2. SummaryIsOfTheStream
    <3> SUFFICES ASSUME Readable, ~record.body.cut
                 PROVE  LET told == {i \in Arrived : answer.events[i].type # "[DONE]"}
                            summary == record.body.summary
                        IN IF Torn \/ told = {} THEN summary = None
                           ELSE /\ summary # None /\ summary.done = (told # Arrived)
                                /\ ToSet(summary.events) = told
                                /\ \A m, n \in DOMAIN summary.events :
                                     m < n => summary.events[m] < summary.events[n]
      BY DEF SummaryIsOfTheStream
    <3>1. SummaryIs(answer, decoded, record.body.summary)
      BY <2>1
    <3> QED
      BY <3>1, ReportedIs DEF SummaryIs
  <2>3. UsageIsWhatTheStreamReported
    <3> SUFFICES ASSUME Readable
                 PROVE  record.found =
                          IF Torn \/ ~Concluded \/ \E i \in Arrived : answer.events[i].size > MaxUsageEvent
                          THEN Lost("incomplete_usage")
                          ELSE Normalize(answer.kind, Reported)
      BY DEF UsageIsWhatTheStreamReported
    <3>1. UsageIs(answer, decoded, record.found)
      BY <2>1
    <3> QED
      BY <3>1, ReportedIs DEF UsageIs
  <2>4. BodyIsOfTheWholeAnswer
    BY <1>2, <2>1, DeliveredIs DEF BodyIsOfTheWholeAnswer
  <2>5. PriceIsExact
    BY <2>1, ReportedIs DEF PriceIsExact, Exactly
  <2> QED
    BY <2>2, <2>3, <2>4, <2>5 DEF LogSaysWhatTheStreamSaid
<1> QED
  BY <1>1, <1>2

\* A stream reports None or what one of its events, or two of them, said.
LEMMA ReportedIsAReport ==
  ASSUME NEW a, Good(a), NEW d, NEW n \in Nat, n <= Len(a.events), Arriving(a, d) = 1 .. n
  PROVE  ReportedAt(a, d) = None \/ IsReport(ReportedAt(a, d))
<1>1. \A u \in Reports(a) : u = None \/ IsReport(u)
  BY DEF Reports, Good
<1>2. \A types : LastArriving(a, d, types) = LastAmong(a, n, types)
  BY DEF LastArriving, LastAmong
<1>3. \A types : LastArriving(a, d, types) = None \/ IsReport(LastArriving(a, d, types))
  <2> TAKE types
  <2>1. LastAmong(a, n, types) \in Reports(a)
    BY LastIsAReport
  <2> QED
    BY <1>1, <1>2, <2>1
<1> PICK start : start = LastArriving(a, d, {"message_start"})
  OBVIOUS
<1> PICK last : last = LastArriving(a, d, {"message_delta"})
  OBVIOUS
<1>4. (start # None /\ last # None) => IsReport(Updated(start, last))
  <2>1. start = None \/ IsReport(start)
    BY <1>3
  <2>2. last = None \/ IsReport(last)
    BY <1>3
  <2> QED
    BY <2>1, <2>2, UpdatedIs
<1>5. CASE a.kind = "messages"
  <2>1. ReportedAt(a, d) = IF None \in {start, last} THEN None ELSE Updated(start, last)
    BY <1>5 DEF ReportedAt
  <2> QED
    BY <1>4, <2>1
<1>6. CASE a.kind # "messages"
  BY <1>3, <1>6 DEF ReportedAt
<1> QED
  BY <1>5, <1>6

\* A body that has a symbol has an event.
LEMMA NoEventNoBody ==
  ASSUME NEW a, Good(a), Body(a) # <<>>
  PROVE  1 \in DOMAIN a.events
<1>1. Len(a.events) \in Nat /\ DOMAIN a.events = 1 .. Len(a.events)
  BY EventsAre
<1>2. CASE Len(a.events) = 0
  <2> DEFINE pieces == [i \in 1 .. 0 |-> Piece(a, i)]
  <2>1. Body(a) = FlattenSeq(pieces)
    BY <1>1, <1>2 DEF Body, Piece
  <2>2. pieces = <<>> /\ Len(pieces) = 0
    OBVIOUS
  <2>3. Body(a) = <<>>
    BY <2>1, <2>2 DEF FlattenSeq
  <2> QED
    BY <2>3
<1> QED
  BY <1>1, <1>2

LEMMA WhatWasRead ==
  ASSUME NEW a, Good(a), NEW co, NEW d \in Nat, d <= Len(Body(a)), Body(a) \in Seq(Symbol),
         NEW kept, kept = Flow(a, co, 0, Min({d, MaxBytes})), Whole(a, kept)
  PROVE  1 \in DOMAIN a.events
<1>1. Min({d, MaxBytes}) = IF d <= MaxBytes THEN d ELSE MaxBytes
  BY RelayAssumption, LesserIs
<1> PICK k \in Nat : k = Min({d, MaxBytes}) /\ k <= d
  BY <1>1, RelayAssumption
<1>2. k <= Len(Body(a))
  OBVIOUS
<1>3. FlowsTo(a, co, 0, k, kept)
  BY <1>2, FlowIs
<1>4. kept \in Seq(Symbol) /\ Len(kept) = k
  BY <1>3 DEF FlowsTo
<1>5. k # 0
  BY <1>4 DEF Whole
<1>6. Body(a) # <<>>
  BY <1>2, <1>5
<1> QED
  BY <1>6, NoEventNoBody

\* The log entry of an answer, and its price
LEMMA EntryIs ==
  ASSUME Good(answer), decoded \in Nat, decoded <= Len(Body(answer)),
         Holding(answer, coding, decoded, capture),
         NEW entry, entry = Finalized(capture), NEW found, found = Resolved(capture),
         NEW price, price = Priced(answer.model, found)
  PROVE  /\ (answer.sse /\ coding # "unknown" /\ ~entry.cut) => SummaryIs(answer, decoded, entry.summary)
         /\ (answer.sse /\ coding # "unknown") => UsageIs(answer, decoded, found)
         /\ entry.text = Flow(answer, coding, 0, Min({decoded, MaxBytes}))
         /\ entry.size = decoded
         /\ entry.truncated = (decoded > MaxBytes)
         /\ Exactly(answer.model, answer.kind,
                    IF answer.sse THEN ReportedAt(answer, decoded) ELSE answer.events[1].usage, price)
<1>1. Begun(answer, coding, decoded, capture) /\ Billed(answer, coding, decoded, capture)
      /\ Summed(answer, coding, decoded, capture)
  BY DEF Holding
<1>2. /\ entry.size = capture.size /\ entry.text = capture.kept /\ entry.cut = capture.cut
      /\ entry.truncated = (capture.size > MaxBytes)
      /\ answer.sse => entry.summary = SummaryEnd(answer, capture.summary)
  BY DEF Finalized
<1>3. /\ entry.text = Flow(answer, coding, 0, Min({decoded, MaxBytes}))
      /\ entry.size = decoded /\ entry.truncated = (decoded > MaxBytes)
  BY <1>1, <1>2 DEF Begun
<1>4. ASSUME answer.sse, coding # "unknown", ~entry.cut
      PROVE  SummaryIs(answer, decoded, entry.summary)
  <2>1. SummaryRead(answer, decoded, capture.summary)
    BY <1>1, <1>2, <1>4 DEF Summed
  <2>2. SummaryIs(answer, decoded, SummaryEnd(answer, capture.summary))
    BY <2>1, SummaryTells
  <2> QED
    BY <1>2, <1>4, <2>2
<1>5. answer.sse => found = UsageEnd(answer, capture.usage)
  BY DEF Resolved
<1>6. ASSUME answer.sse, coding # "unknown"
      PROVE  UsageIs(answer, decoded, found) /\ UsageRead(answer, decoded, capture.usage)
  <2>1. UsageRead(answer, decoded, capture.usage)
    BY <1>1, <1>6 DEF Billed
  <2>2. UsageIs(answer, decoded, UsageEnd(answer, capture.usage))
    BY <2>1, UsageTells
  <2> QED
    BY <1>5, <1>6, <2>1, <2>2
<1>7. CASE answer.sse /\ coding # "unknown"
  <2>1. PICK k, off : Cursor(answer, decoded, k, off)
    BY <1>6, <1>7 DEF UsageRead
  <2> PICK n : n = LinesRead(answer, k, off)
    OBVIOUS
  <2>2. n \in Nat /\ n <= Len(answer.events) /\ Arriving(answer, decoded) = 1 .. n
    BY <2>1, WhatArrives, EventsAre
  <2> PICK told : told = ReportedAt(answer, decoded)
    OBVIOUS
  <2>3. told = None \/ IsReport(told)
    BY <2>2, ReportedIsAReport
  <2>4. CASE found = Lost("incomplete_usage")
    <3>1. price.status # "priced"
      BY <2>4, LostIsLost, LostIsUnpriced
    <3> QED
      BY <1>3, <1>4, <1>6, <1>7, <3>1 DEF Exactly
  <2>5. CASE found = Normalize(answer.kind, told)
    <3>1. Exactly(answer.model, answer.kind, told, price)
      BY <2>3, <2>5, PriceIs
    <3> QED
      BY <1>3, <1>4, <1>6, <1>7, <3>1
  <2> QED
    BY <1>6, <1>7, <2>4, <2>5 DEF UsageIs
<1>8. CASE answer.sse /\ coding = "unknown"
  <2>1. Mute(answer, capture.usage)
    BY <1>1, <1>8 DEF Billed
  <2>2. found = Lost("incomplete_usage")
    BY <1>5, <1>8, <2>1, NoiseTellsNothing
  <2>3. price.status # "priced"
    BY <2>2, LostIsLost, LostIsUnpriced
  <2> QED
    BY <1>3, <1>8, <2>3 DEF Exactly
<1>9. CASE ~answer.sse
  <2> PICK kept : kept = capture.kept
    OBVIOUS
  <2> PICK told : told = IF Whole(answer, kept) THEN answer.events[1].usage ELSE None
    OBVIOUS
  <2>1. found = Normalize(answer.kind, told)
    BY <1>9 DEF Resolved
  <2>2. kept = Flow(answer, coding, 0, Min({decoded, MaxBytes}))
    BY <1>1 DEF Begun
  <2>3. Whole(answer, kept) => answer.events[1].usage = None \/ IsReport(answer.events[1].usage)
    <3> SUFFICES ASSUME Whole(answer, kept)
                 PROVE  answer.events[1].usage = None \/ IsReport(answer.events[1].usage)
      OBVIOUS
    <3>1. Body(answer) \in Seq(Symbol)
      BY BodyIs
    <3>2. 1 \in DOMAIN answer.events
      BY <2>2, <3>1, WhatWasRead
    <3> QED
      BY <3>2 DEF Good
  <2>4. told = None \/ IsReport(told)
    BY <2>3
  <2>5. Exactly(answer.model, answer.kind, told, price)
    BY <2>1, <2>4, PriceIs
  <2>6. ~Whole(answer, kept) => price.status # "priced"
    <3> SUFFICES ASSUME ~Whole(answer, kept) PROVE price.status # "priced"
      OBVIOUS
    <3>1. found = Lost("missing_usage")
      BY <2>1 DEF Normalize
    <3> QED
      BY <3>1, LostIsLost, LostIsUnpriced
  <2>7. Exactly(answer.model, answer.kind, answer.events[1].usage, price)
    <3>1. CASE Whole(answer, kept)
      <4>1. told = answer.events[1].usage
        BY <3>1
      <4> QED
        BY <2>5, <4>1
    <3>2. CASE ~Whole(answer, kept)
      BY <2>6, <3>2 DEF Exactly
    <3> QED
      BY <3>1, <3>2
  <2> QED
    BY <1>3, <1>9, <2>7
<1> QED
  BY <1>7, <1>8, <1>9

-----------------------------------------------------------------------------
(* The invariant: what the capture holds is what was decoded, at every     *)
(* cut, and a record is only made when the decoder has said all it will.   *)

Flowing ==
  /\ answer \in Answers /\ sent \in Nat /\ decoded \in Nat
  /\ decoded <= sent /\ sent <= Len(Body(answer))
  /\ decoder \in {"plain", "open", "abandoned"} /\ (decoder = "plain" => decoded = sent)

SaidAll == decoder # "abandoned" => decoded = sent

RelayInv ==
  /\ Flowing
  /\ Holding(answer, coding, decoded, capture)
  /\ (relay = "ended" \/ Logged) => SaidAll
  /\ Logged => relay = "released"
  /\ Faithful(answer, coding, decoded, record)

LEMMA RelayStarts ==
  ASSUME RelayInit
  PROVE  RelayInv
<1>1. Good(answer)
  BY AnswersAreGood DEF RelayInit
<1>2. Len(Body(answer)) \in Nat
  BY <1>1, BodyIs
<1>3. Flowing /\ SaidAll
  BY <1>2 DEF Flowing, SaidAll, RelayInit
<1>4. Holding(answer, coding, decoded, capture)
  BY <1>1, CaptureStarts DEF RelayInit
<1>5. ~Logged /\ relay # "ended"
  BY DEF Logged, RelayInit
<1>6. Faithful(answer, coding, decoded, record)
  BY DEF Faithful, RelayInit
<1> QED
  BY <1>3, <1>4, <1>5, <1>6 DEF RelayInv

\* A chunk of which the capture makes more
LEMMA CaptureGrows ==
  ASSUME RelayInv, NEW n \in Nat, decoded + n <= Len(Body(answer)),
         capture' = AddChunk(capture, Delivered(decoded, decoded + n)),
         decoded' = decoded + n, UNCHANGED <<answer, coding>>
  PROVE  Holding(answer, coding, decoded, capture)'
<1>1. Good(answer) /\ decoded \in Nat /\ Holding(answer, coding, decoded, capture)
  BY AnswersAreGood DEF RelayInv, Flowing
<1>2. Holding(answer, coding, decoded + n, AddChunk(capture, Delivered(decoded, decoded + n)))
  BY <1>1, AddChunkIs
<1> QED
  BY <1>2

\* Steps before anything is logged
LEMMA StillSilent ==
  ASSUME RelayInv, ~Logged, UNCHANGED record
  PROVE  ~Logged' /\ Faithful(answer, coding, decoded, record)'
<1>1. ~Logged'
  BY DEF Logged
<1> QED
  BY <1>1 DEF Faithful, Logged

LEMMA StillHolding ==
  ASSUME RelayInv, UNCHANGED <<answer, coding, sent, decoder, decoded, capture, record>>,
         relay # "released", relay' # "ended"
  PROVE  RelayInv'
<1>1. Flowing'
  BY DEF RelayInv, Flowing
<1>2. Holding(answer, coding, decoded, capture)'
  BY DEF RelayInv
<1>3. ~Logged
  BY DEF RelayInv
<1>4. ~Logged' /\ Faithful(answer, coding, decoded, record)'
  BY <1>3, StillSilent
<1> QED
  BY <1>1, <1>2, <1>4 DEF RelayInv

LEMMA ChunkArrivesKeeps ==
  ASSUME RelayInv, NEW n \in 1 .. MaxChunk, ChunkArrives(n)
  PROVE  RelayInv'
<1>0. n \in Nat /\ n >= 1
  BY RelayAssumption
<1>1. /\ relay = "reading" /\ sent + n <= Len(Body(answer)) /\ sent' = sent + n
      /\ relay' \in {"reading", "draining"} /\ UNCHANGED <<answer, coding, decoder, record>>
      /\ decoder = "plain" => /\ capture' = AddChunk(capture, Delivered(sent, sent + n))
                              /\ decoded' = sent + n
      /\ decoder # "plain" => UNCHANGED <<capture, decoded>>
  BY DEF ChunkArrives, Total
<1>2. Flowing'
  BY <1>0, <1>1 DEF RelayInv, Flowing
<1>3. Holding(answer, coding, decoded, capture)'
  <2>1. CASE decoder = "plain"
    <3>1. decoded = sent
      BY <2>1 DEF RelayInv, Flowing
    <3> QED
      BY <1>0, <1>1, <2>1, <3>1, CaptureGrows
  <2>2. CASE decoder # "plain"
    BY <1>1, <2>2 DEF RelayInv
  <2> QED
    BY <2>1, <2>2
<1>4. ~Logged
  BY <1>1 DEF RelayInv
<1>5. ~Logged' /\ Faithful(answer, coding, decoded, record)'
  BY <1>1, <1>4, StillSilent
<1> QED
  BY <1>1, <1>2, <1>3, <1>5 DEF RelayInv

LEMMA CodecEmitsKeeps ==
  ASSUME RelayInv, NEW n \in 1 .. MaxChunk, CodecEmits(n)
  PROVE  RelayInv'
<1>0. n \in Nat /\ n >= 1
  BY RelayAssumption
<1>1. /\ decoder = "open" /\ decoded + n <= sent /\ decoded' = decoded + n
      /\ capture' = AddChunk(capture, Delivered(decoded, decoded + n))
      /\ UNCHANGED <<answer, coding, sent, relay, decoder, record>>
  BY DEF CodecEmits
<1>2. Flowing /\ Len(Body(answer)) \in Nat
  BY AnswersAreGood, BodyIs DEF RelayInv, Flowing
<1>3. Flowing'
  BY <1>0, <1>1, <1>2 DEF Flowing
<1>4. Holding(answer, coding, decoded, capture)'
  <2>1. decoded + n <= Len(Body(answer))
    BY <1>0, <1>1, <1>2 DEF Flowing
  <2> QED
    BY <1>0, <1>1, <2>1, CaptureGrows
<1>5. ~SaidAll
  BY <1>0, <1>1, <1>2 DEF SaidAll, Flowing
<1>6. relay # "ended" /\ ~Logged
  BY <1>5 DEF RelayInv
<1>7. ~Logged' /\ Faithful(answer, coding, decoded, record)'
  BY <1>1, <1>6, StillSilent
<1> QED
  BY <1>1, <1>3, <1>4, <1>6, <1>7 DEF RelayInv

LEMMA CodecFailsKeeps ==
  ASSUME RelayInv, CodecFails
  PROVE  RelayInv'
<1>1. /\ relay \in {"reading", "draining", "finishing"} /\ decoder' = "abandoned"
      /\ UNCHANGED <<answer, coding, sent, relay, decoded, capture, record>>
  BY DEF CodecFails
<1>2. Flowing'
  BY <1>1 DEF RelayInv, Flowing
<1>3. Holding(answer, coding, decoded, capture)'
  BY <1>1 DEF RelayInv
<1>4. ~Logged
  BY <1>1 DEF RelayInv
<1>5. ~Logged' /\ Faithful(answer, coding, decoded, record)'
  BY <1>1, <1>4, StillSilent
<1> QED
  BY <1>1, <1>2, <1>3, <1>5 DEF RelayInv

LEMMA DecoderFinishesKeeps ==
  ASSUME RelayInv, DecoderFinishes
  PROVE  RelayInv'
<1>1. /\ relay = "finishing" /\ Settled
      /\ UNCHANGED <<answer, coding, sent, decoder, decoded, capture, record>>
  BY DEF DecoderFinishes, Finishes
<1>2. Flowing /\ Flowing'
  BY <1>1 DEF RelayInv, Flowing
<1>3. SaidAll'
  BY <1>1, <1>2 DEF Settled, SaidAll, Flowing
<1>4. Holding(answer, coding, decoded, capture)'
  BY <1>1 DEF RelayInv
<1>5. ~Logged
  BY <1>1 DEF RelayInv
<1>6. ~Logged' /\ Faithful(answer, coding, decoded, record)'
  BY <1>1, <1>5, StillSilent
<1> QED
  BY <1>2, <1>3, <1>4, <1>6 DEF RelayInv

LEMMA SpoolFailsKeeps ==
  ASSUME RelayInv, SpoolFails
  PROVE  RelayInv'
<1>1. /\ relay = "ended" /\ relay' = "released" /\ capture' = [capture EXCEPT !.spool = "none"]
      /\ UNCHANGED <<answer, coding, sent, decoder, decoded, record>>
  BY DEF SpoolFails
<1>2. Flowing'
  BY <1>1 DEF RelayInv, Flowing
<1>3. Holding(answer, coding, decoded, capture)'
  <2>1. Holding(answer, coding, decoded, [capture EXCEPT !.spool = "none"])
    BY Unspooled DEF RelayInv
  <2> QED
    BY <1>1, <2>1
<1>4. ~Logged
  BY <1>1 DEF RelayInv
<1>5. ~Logged' /\ Faithful(answer, coding, decoded, record)'
  BY <1>1, <1>4, StillSilent
<1> QED
  BY <1>1, <1>2, <1>3, <1>5 DEF RelayInv

LEMMA StoredKeeps ==
  ASSUME RelayInv, Stored
  PROVE  RelayInv'
<1>1. /\ relay \in {"ended", "failing"} /\ relay' = "released"
      /\ capture' = [capture EXCEPT !.spool = "none"]
      /\ UNCHANGED <<answer, coding, sent, decoder, decoded>>
  BY DEF Stored
<1>2. Flowing'
  BY <1>1 DEF RelayInv, Flowing
<1>3. Holding(answer, coding, decoded, capture)'
  <2>1. Holding(answer, coding, decoded, [capture EXCEPT !.spool = "none"])
    BY Unspooled DEF RelayInv
  <2> QED
    BY <1>1, <2>1
<1>4. CASE relay = "failing"
  <2>1. record'.body = None
    BY <1>4 DEF Stored
  <2>2. ~Logged' /\ Faithful(answer, coding, decoded, record)'
    BY <2>1 DEF Logged, Faithful
  <2> QED
    BY <1>1, <1>2, <1>3, <2>2 DEF RelayInv
<1>5. CASE relay = "ended"
  <2> PICK entry : entry = Finalized(capture)
    OBVIOUS
  <2> PICK found : found = Resolved(capture)
    OBVIOUS
  <2> PICK price : price = Priced(answer.model, found)
    OBVIOUS
  <2>1. record'.body = entry /\ record'.found = found /\ record'.price = price
    BY <1>5 DEF Stored
  <2>2. SaidAll'
    BY <1>1, <1>5 DEF RelayInv, SaidAll
  <2>3. /\ (answer.sse /\ coding # "unknown" /\ ~entry.cut) => SummaryIs(answer, decoded, entry.summary)
        /\ (answer.sse /\ coding # "unknown") => UsageIs(answer, decoded, found)
        /\ entry.text = Flow(answer, coding, 0, Min({decoded, MaxBytes}))
        /\ entry.size = decoded
        /\ entry.truncated = (decoded > MaxBytes)
        /\ Exactly(answer.model, answer.kind,
                   IF answer.sse THEN ReportedAt(answer, decoded) ELSE answer.events[1].usage, price)
    <3>1. Good(answer) /\ decoded \in Nat /\ decoded <= Len(Body(answer))
      <4>1. Flowing /\ Good(answer) /\ Len(Body(answer)) \in Nat
        BY AnswersAreGood, BodyIs DEF RelayInv, Flowing
      <4> QED
        BY <4>1 DEF Flowing
    <3>2. Holding(answer, coding, decoded, capture)
      BY DEF RelayInv
    <3> QED
      BY <3>1, <3>2, EntryIs
  <2>4. Faithful(answer, coding, decoded, record')
    BY <2>1, <2>3 DEF Faithful
  <2>5. Faithful(answer, coding, decoded, record)'
    BY <1>1, <2>4
  <2> QED
    BY <1>1, <1>2, <1>3, <2>2, <2>5 DEF RelayInv
<1> QED
  BY <1>1, <1>4, <1>5

LEMMA RelayKeepsItsInvariant ==
  ASSUME RelayInv, [RelayNext]_relayVars
  PROVE  RelayInv'
<1>1. CASE Opened \/ OpenFails \/ Drained \/ UpstreamEnds \/ ReadThrows
  BY <1>1, StillHolding DEF Opened, OpenFails, Drained, UpstreamEnds, ReadThrows
<1>2. CASE UpstreamFails \/ ClientLeaves
  BY <1>2, StillHolding DEF UpstreamFails, ClientLeaves
<1>3. CASE \E n \in 1 .. MaxChunk : ChunkArrives(n)
  BY <1>3, ChunkArrivesKeeps
<1>4. CASE \E n \in 1 .. MaxChunk : CodecEmits(n)
  BY <1>4, CodecEmitsKeeps
<1>5. CASE CodecFails
  BY <1>5, CodecFailsKeeps
<1>6. CASE DecoderFinishes
  BY <1>6, DecoderFinishesKeeps
<1>7. CASE Stored
  BY <1>7, StoredKeeps
<1>8. CASE SpoolFails
  BY <1>8, SpoolFailsKeeps
<1>9. CASE UNCHANGED relayVars
  <2>1. UNCHANGED <<answer, coding, sent, relay, decoder, decoded, capture, record>>
    BY <1>9 DEF relayVars
  <2>2. Flowing' /\ (SaidAll' <=> SaidAll) /\ (Logged' <=> Logged)
    BY <2>1 DEF RelayInv, Flowing, SaidAll, Logged
  <2>3. Holding(answer, coding, decoded, capture)'
    BY <2>1 DEF RelayInv
  <2>4. Faithful(answer, coding, decoded, record)'
    BY <2>1 DEF RelayInv
  <2> QED
    BY <2>1, <2>2, <2>3, <2>4 DEF RelayInv
<1> QED
  BY <1>1, <1>2, <1>3, <1>4, <1>5, <1>6, <1>7, <1>8, <1>9 DEF RelayNext

LEMMA RelayInvariant == RelaySpec => []RelayInv
<1> QED
  BY RelayStarts, RelayKeepsItsInvariant, PTL DEF RelaySpec

LEMMA InvariantTells ==
  ASSUME RelayInv
  PROVE  LogSaysWhatTheStreamSaid /\ PriceIsExact
<1>1. Logged => (decoder # "abandoned" => decoded = sent)
  BY DEF RelayInv, SaidAll
<1>2. Faithful(answer, coding, decoded, record)
  BY DEF RelayInv
<1> QED
  BY <1>1, <1>2, FaithfulLogs

(* However the network and the codec cut an answer, whatever limits the     *)
(* log and the two readers of a stream have: the summary names the events   *)
(* that arrived, the bill is the usage reported last by a stream that ended *)
(* and that of no other, and the body kept is the beginning of the whole    *)
(* (response-log-capture.ts, streams.ts, usage-accumulator.ts).             *)
THEOREM TheLogSaysWhatTheStreamSaid == RelaySpec => []LogSaysWhatTheStreamSaid
<1> QED
  BY RelayInvariant, InvariantTells, PTL

(* No answer is priced but at the exact sum of what its node reported,      *)
(* every token in one bucket, rounded once, and no price is larger than the *)
(* log's column holds (money.ts, usage-normalizer.ts, request-pricing.ts).  *)
THEOREM PricesAreExact == RelaySpec => []PriceIsExact
<1> QED
  BY RelayInvariant, InvariantTells, PTL

=============================================================================
