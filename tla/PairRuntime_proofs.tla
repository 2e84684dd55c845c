------------------------ MODULE PairRuntime_proofs ------------------------
(***************************************************************************)
(* The log services of one pair among any number of requests, keys, roots, *)
(* generations and drains: none is closed under a write that was accepted, *)
(* none is forgotten while it is open, and a save takes the log neither    *)
(* from the pipeline it makes nor from the requests of the one before.     *)
(***************************************************************************)
EXTENDS PairRuntime, FiniteSetTheorems, TLAPS

Service == [key : Keys, state : {"open", "closing", "closed"}, left : Nat]

\* Services found by their keys: a map of the registry or of a pipeline.
LogsOf(m, built) ==
  /\ DOMAIN m \subseteq Keys
  /\ \A k \in DOMAIN m : m[k] \in DOMAIN built /\ built[m[k]].key = k

Pipeline == [logs : UNION {[c -> Nat] : c \in SUBSET Keys}, first : Nat]

HandlerState ==
  [pc : {"idle", "receiving", "reading", "logging", "sent", "switched", "answered", "storing"},
   gen : Nat, key : Keys \cup {NoKey}, conn : BOOLEAN]

Typed ==
  /\ runtime \in {"stopped", "starting", "running", "stopping", "failed"}
  /\ stopping \in {"no", "waiting", "forced", "logs"}
  /\ current \in Nat
  /\ services \in Seq(Service) /\ gens \in Seq(Pipeline)
  /\ \A g \in DOMAIN gens : LogsOf(gens[g].logs, services)
  /\ LogsOf(logServices, services)
  /\ DOMAIN queue = Roots

Drain == [gen : Nat, services : SUBSET Nat, phase : {"waiting", "aborted", "closing"}]

DrainsTyped ==
  /\ drains \subseteq Drain
  /\ \A d \in drains : /\ d.gen \in DOMAIN gens /\ d.gen < Len(gens)
                       /\ d.services \subseteq DOMAIN services

\* A handler keeps the generation it came to, and the key it writes to is one of its.
Handlers ==
  /\ req \in [Requests -> HandlerState]
  /\ \A r \in Requests :
       /\ req[r].pc # "idle" => req[r].gen \in DOMAIN gens
       /\ req[r].pc \notin {"idle", "reading"} => req[r].key \in DOMAIN gens[req[r].gen].logs

QueuedWrite == [service : Nat, request : Requests]

\* The service of the i-th write of root o is open, or closes once that write is done.
Waits(s, i, o) ==
  /\ s \in DOMAIN services /\ RootOf[services[s].key] = o
  /\ services[s].state = "open" \/ (services[s].state = "closing" /\ i <= services[s].left)

Accepted ==
  \A o \in Roots : /\ queue[o] \in Seq(QueuedWrite)
                   /\ \A i \in DOMAIN queue[o] : Waits(queue[o][i].service, i, o)

\* What the entry holds is what its pipeline logs to, and open.
EntryServes ==
  /\ current # 0 => /\ current = Len(gens) /\ gens[current].logs = logServices
                    /\ LogsOpen(current)
                    /\ runtime \in {"starting", "running"}
  /\ runtime = "running" => current # 0
  /\ runtime \in {"stopped", "failed"} => logServices = EmptyMap
  /\ runtime = "starting" => (current = 0 => logServices = EmptyMap)
  /\ stopping \in {"waiting", "forced", "logs"} => runtime = "stopping"

\* Each drain has services of its own, open as long as it has not come to close them.
DrainsApart ==
  \A d \in drains :
    /\ d.services \cap Range(logServices) = {}
    /\ d.phase # "closing" => \A s \in d.services : services[s].state = "open"
    /\ \A e \in drains : d # e => d.gen # e.gen /\ d.services \cap e.services = {}

\* What the pipeline before logged to is kept, or waits for its drain.
Predecessor ==
  current # 0 =>
    \A d \in drains :
      d.gen = current - 1 => Range(gens[d.gen].logs) \subseteq Range(logServices) \cup d.services

RuntimeInv ==
  /\ Typed /\ DrainsTyped /\ Handlers /\ Accepted /\ EntryServes /\ DrainsApart /\ Predecessor
  /\ OpenServicesHaveAnOwner

-----------------------------------------------------------------------------
\* Closing and building services

\* The services stay what they are for, and new ones may follow.
Extends(built, now) ==
  /\ DOMAIN built \subseteq DOMAIN now
  /\ \A s \in DOMAIN built : now[s].key = built[s].key

LEMMA ExtendedLogs ==
  ASSUME NEW m, NEW built, NEW now, LogsOf(m, built), Extends(built, now)
  PROVE  LogsOf(m, now)
BY DEF LogsOf, Extends

\* close(): only open services of S change, and they wait for the queue they share.
LEMMA CloseCloses ==
  ASSUME Typed, NEW S
  PROVE  /\ DOMAIN Close(S, services) = DOMAIN services
         /\ \A s \in DOMAIN services :
              /\ Close(S, services)[s].key = services[s].key
              /\ ~(s \in S /\ services[s].state = "open") => Close(S, services)[s] = services[s]
              /\ s \in S /\ services[s].state = "open" =>
                   Close(S, services)[s] =
                     [key |-> services[s].key, state |-> "closing",
                      left |-> Len(queue[RootOf[services[s].key]])]
<1> SUFFICES ASSUME NEW s \in DOMAIN services
             PROVE  /\ Close(S, services)[s].key = services[s].key
                    /\ ~(s \in S /\ services[s].state = "open") =>
                         Close(S, services)[s] = services[s]
                    /\ s \in S /\ services[s].state = "open" =>
                         Close(S, services)[s] =
                           [key |-> services[s].key, state |-> "closing",
                            left |-> Len(queue[RootOf[services[s].key]])]
  BY DEF Close
<1>1. services[s] \in Service
  BY DEF Typed
<1>2. services[s] = [key |-> services[s].key, state |-> services[s].state,
                     left |-> services[s].left]
  BY <1>1 DEF Service
<1>3. CASE s \in S /\ services[s].state = "open"
  BY <1>2, <1>3 DEF Close
<1>4. CASE ~(s \in S /\ services[s].state = "open")
  BY <1>4 DEF Close
<1> QED
  BY <1>3, <1>4

LEMMA CloseTyped ==
  ASSUME Typed, Accepted, NEW S
  PROVE  Close(S, services) \in Seq(Service)
<1> DEFINE now == Close(S, services)
<1>1. services \in Seq(Service)
  BY DEF Typed
<1>2. DOMAIN now = 1 .. Len(services)
  BY <1>1, CloseCloses
<1>3. \A s \in 1 .. Len(services) : now[s] \in Service
  <2> TAKE s \in 1 .. Len(services)
  <2>1. services[s] \in Service
    BY <1>1
  <2>2. Len(queue[RootOf[services[s].key]]) \in Nat
    BY <2>1, RuntimeAssumption DEF Accepted, Service
  <2>3. CASE s \in S /\ services[s].state = "open"
    <3>1. now[s] = [key |-> services[s].key, state |-> "closing",
                    left |-> Len(queue[RootOf[services[s].key]])]
      BY <1>1, <2>3, CloseCloses
    <3> QED
      BY <3>1, <2>1, <2>2 DEF Service
  <2>4. CASE ~(s \in S /\ services[s].state = "open")
    <3>1. s \in DOMAIN services
      BY <1>1
    <3>2. now[s] = services[s]
      BY <3>1, <2>4, CloseCloses
    <3> QED
      BY <3>2, <2>1
  <2> QED
    BY <2>3, <2>4
<1>4. now = [s \in 1 .. Len(services) |-> now[s]]
  BY <1>1 DEF Close
<1>5. Len(services) \in Nat
  BY <1>1
<1> HIDE DEF now
<1>6. now \in Seq(Service)
  BY <1>3, <1>4, <1>5
<1> QED
  BY <1>6 DEF now

\* What was accepted before a close is waited for.
LEMMA CloseAccepts ==
  ASSUME Typed, Accepted, NEW S, services' = Close(S, services), UNCHANGED queue
  PROVE  Accepted'
<1>1. DOMAIN services' = DOMAIN services
  BY CloseCloses
<1>2. ASSUME NEW o \in Roots, NEW i \in DOMAIN queue[o], NEW w, w = queue[o][i].service
      PROVE  Waits(w, i, o)'
  <2>1. Waits(w, i, o) /\ w \in DOMAIN services
    BY <1>2 DEF Accepted, Waits
  <2>2. i \in Nat /\ i <= Len(queue[o])
    BY <1>2 DEF Accepted
  <2>3. CASE w \in S /\ services[w].state = "open"
    <3>1. services'[w] = [key |-> services[w].key, state |-> "closing", left |-> Len(queue[o])]
      BY <2>1, <2>3, CloseCloses DEF Waits
    <3> QED
      BY <3>1, <2>1, <2>2, <1>1 DEF Waits
  <2>4. CASE ~(w \in S /\ services[w].state = "open")
    <3>1. services'[w] = services[w]
      BY <2>1, <2>4, CloseCloses
    <3> QED
      BY <3>1, <2>1, <1>1 DEF Waits
  <2> QED
    BY <2>3, <2>4
<1>3. \A o \in Roots : queue'[o] \in Seq(QueuedWrite)
  BY DEF Accepted
<1> QED
  BY <1>2, <1>3 DEF Accepted

\* Numbers given out one each.
LEMMA OneNumberEach ==
  ASSUME NEW ks, IsFiniteSet(ks), NEW n \in Nat, NEW m,
         {m[k] : k \in ks} = n + 1 .. n + Cardinality(ks)
  PROVE  /\ Cardinality(ks) \in Nat
         /\ \A k \in ks : m[k] \in n + 1 .. n + Cardinality(ks)
         /\ \A i \in 1 .. Cardinality(ks) : \E k \in ks : m[k] = n + i
         /\ \A k, q \in ks : m[k] = m[q] => k = q
<1>1. PICK z \in Nat : z = Cardinality(ks)
  BY FS_CardinalityType
<1> DEFINE T == n + 1 .. n + z
           f == [x \in ks |-> m[x]]
<1>2. {m[k] : k \in ks} = T
  BY <1>1
<1>3. Cardinality(T) = z
  <2>1. n + 1 \in Int /\ n + z \in Int
    OBVIOUS
  <2>2. Cardinality(T) = IF n + 1 > n + z THEN 0 ELSE (n + z) - (n + 1) + 1
    BY <2>1, FS_Interval
  <2> HIDE DEF T
  <2> QED
    BY <2>2
<1> HIDE DEF T
<1>4. f \in Surjection(ks, T)
  <2>1. f \in [ks -> T]
    BY <1>2
  <2>2. \A t \in T : \E x \in ks : f[x] = t
    BY <1>2
  <2> HIDE DEF f
  <2> QED
    BY <2>1, <2>2 DEF Surjection
<1>5. f \in Injection(ks, T)
  <2> HIDE DEF f
  <2> QED
    BY <1>1, <1>3, <1>4, FS_SurjSameCardinalityImpliesInj
<1>6. \A k, q \in ks : f[k] = f[q] => k = q
  <2>1. DOMAIN f = ks
    OBVIOUS
  <2> HIDE DEF f
  <2> QED
    BY <1>5, <2>1 DEF Injection, IsInjective
<1>7. \A k, q \in ks : m[k] = m[q] => k = q
  BY <1>6
<1>8. \A i \in 1 .. z : n + i \in T
  BY DEF T
<1>9. \A i \in 1 .. z : \E k \in ks : m[k] = n + i
  BY <1>2, <1>8
<1> QED
  BY <1>1, <1>2, <1>7, <1>9 DEF T

\* #compileTargets: services of the entry are used again, and each missing key gets a
\* service of its own.
LEMMA BuiltServices ==
  ASSUME Typed, NEW c \in Offers, NEW m \in Compilations(c)
  PROVE  LET now == Built(MissingKeys(c), m) IN
         /\ now \in Seq(Service) /\ Extends(services, now)
         /\ \A s \in DOMAIN services : now[s] = services[s]
         /\ DOMAIN m = c /\ LogsOf(m, now)
         /\ \A k \in c \cap DOMAIN logServices : m[k] = logServices[k]
         /\ \A k \in MissingKeys(c) : m[k] \notin DOMAIN services /\ now[m[k]].state = "open"
         /\ \A s \in DOMAIN now \ DOMAIN services : s \in Range(m)
<1> DEFINE ks == MissingKeys(c)
           n == Len(services)
           z == Cardinality(ks)
           new == [i \in 1 .. z |-> [key |-> CHOOSE k \in ks : m[k] = n + i,
                                     state |-> "open", left |-> 0]]
           now == Built(ks, m)
<1>1. c \subseteq Keys /\ ks \subseteq c /\ IsFiniteSet(ks)
  BY RuntimeAssumption, FS_Subset DEF MissingKeys
<1>2. z \in Nat /\ n \in Nat /\ services \in Seq(Service) /\ DOMAIN services = 1 .. n
  BY <1>1, FS_CardinalityType DEF Typed
<1>3. /\ m \in [c -> 1 .. (n + Cardinality(c))]
      /\ \A k \in c : IF k \in DOMAIN logServices THEN m[k] = logServices[k] ELSE m[k] > n
      /\ {m[k] : k \in ks} = n + 1 .. n + z
  BY DEF Compilations
<1>4. /\ \A k \in ks : m[k] \in n + 1 .. n + z
      /\ \A i \in 1 .. z : \E k \in ks : m[k] = n + i
      /\ \A k, q \in ks : m[k] = m[q] => k = q
  <2>1. {m[k] : k \in ks} = n + 1 .. n + Cardinality(ks)
    BY <1>3
  <2> HIDE DEF ks, n
  <2>2. /\ \A k \in ks : m[k] \in n + 1 .. n + Cardinality(ks)
        /\ \A i \in 1 .. Cardinality(ks) : \E k \in ks : m[k] = n + i
        /\ \A k, q \in ks : m[k] = m[q] => k = q
    BY <1>1, <1>2, <2>1, OneNumberEach
  <2> QED
    BY <2>2
<1>5. now = services \o new
  BY DEF Built
<1>6. \A i \in 1 .. z : /\ (CHOOSE k \in ks : m[k] = n + i) \in ks
                         /\ m[CHOOSE k \in ks : m[k] = n + i] = n + i
  BY <1>4
<1>7. new \in Seq(Service) /\ Len(new) = z
  <2>1. \A i \in 1 .. z : new[i] \in Service
    BY <1>6, <1>1 DEF Service
  <2>2. new = [i \in 1 .. z |-> new[i]]
    OBVIOUS
  <2> HIDE DEF new
  <2> QED
    BY <2>1, <2>2, <1>2
<1>8. /\ now \in Seq(Service) /\ DOMAIN now = 1 .. n + z
      /\ \A s \in 1 .. n : now[s] = services[s]
      /\ \A i \in 1 .. z : now[n + i] = new[i]
  BY <1>2, <1>5, <1>7
<1>9. \A s \in DOMAIN now \ DOMAIN services : s \in n + 1 .. n + z
  BY <1>2, <1>8
<1>10. ASSUME NEW k \in ks
       PROVE  m[k] \in n + 1 .. n + z /\ now[m[k]].key = k /\ now[m[k]].state = "open"
  <2>1. m[k] \in n + 1 .. n + z
    BY <1>4
  <2>2. PICK i \in 1 .. z : m[k] = n + i
    <3> DEFINE v == m[k]
    <3>1. v \in n + 1 .. n + z
      BY <2>1
    <3>2. n \in Nat /\ z \in Nat
      BY <1>2
    <3> HIDE DEF v, n, z
    <3>3. v - n \in 1 .. z /\ v = n + (v - n)
      BY <3>1, <3>2
    <3>4. \E i \in 1 .. z : v = n + i
      BY <3>3
    <3> QED
      BY <3>4 DEF v
  <2>3. (CHOOSE q \in ks : m[q] = n + i) = k
    BY <1>4, <1>6, <2>2
  <2>4. new[i] = [key |-> k, state |-> "open", left |-> 0]
    BY <2>3
  <2>5. now[m[k]] = new[i]
    BY <1>8, <2>2
  <2> QED
    BY <2>1, <2>4, <2>5
<1>11. ASSUME NEW k \in c
       PROVE  m[k] \in DOMAIN now /\ now[m[k]].key = k
  <2>1. CASE k \in ks
    BY <2>1, <1>10, <1>8, <1>2
  <2>2. CASE k \notin ks
    <3>1. k \in DOMAIN logServices /\ m[k] = logServices[k]
      BY <2>2, <1>3 DEF MissingKeys
    <3>2. m[k] \in DOMAIN services /\ services[m[k]].key = k
      BY <3>1 DEF Typed, LogsOf
    <3> QED
      BY <3>2, <1>8, <1>2
  <2> QED
    BY <2>1, <2>2
<1>12. \A s \in DOMAIN now \ DOMAIN services : s \in Range(m)
  BY <1>3, <1>9, <1>1 DEF Range
<1> HIDE DEF now, new, n, z
<1> USE DEF ks
<1>13. LogsOf(m, now) /\ DOMAIN m = c
  BY <1>1, <1>3, <1>11 DEF LogsOf
<1>14. Extends(services, now) /\ \A s \in DOMAIN services : now[s] = services[s]
  BY <1>8, <1>2 DEF Extends
<1>15. \A k \in c \cap DOMAIN logServices : m[k] = logServices[k]
  BY <1>3
<1>16. \A k \in ks : m[k] \notin DOMAIN services /\ now[m[k]].state = "open"
  BY <1>2, <1>10
<1> QED
  BY <1>8, <1>12, <1>13, <1>14, <1>15, <1>16 DEF now

-----------------------------------------------------------------------------
\* The handlers

\* An accepted write is queued behind the others of its root, for an open service.
LEMMA WriteAccepted ==
  ASSUME Typed, Accepted, NEW r \in Requests, NEW g \in DOMAIN gens,
         NEW k \in DOMAIN gens[g].logs, Write(r, g, k), UNCHANGED services
  PROVE  Accepted' /\ DOMAIN queue' = Roots
<1>1. PICK s : s = gens[g].logs[k]
  OBVIOUS
<1>2. s \in DOMAIN services /\ services[s].key = k /\ RootOf[k] \in Roots
  BY <1>1, RuntimeAssumption DEF Typed, LogsOf
<1>3. CASE services[s].state # "open"
  BY <1>1, <1>3 DEF Write, Accepted, Waits, Typed
<1>4. CASE services[s].state = "open"
  <2> DEFINE w == [service |-> s, request |-> r]
             o == RootOf[k]
  <2>1. queue' = [queue EXCEPT ![o] = Append(@, w)]
    BY <1>1, <1>4 DEF Write
  <2>2. DOMAIN queue' = Roots
    BY <2>1 DEF Typed
  <2>3. queue[o] \in Seq(QueuedWrite)
    BY <1>2 DEF Accepted
  <2>4. w \in QueuedWrite /\ w.service = s
    BY <1>2 DEF Typed, QueuedWrite
  <2>5. queue'[o] = Append(queue[o], w)
    BY <2>1, <1>2 DEF Typed
  <2>6. /\ queue'[o] \in Seq(QueuedWrite)
        /\ DOMAIN queue'[o] = 1 .. Len(queue[o]) + 1
        /\ queue'[o][Len(queue[o]) + 1] = w
        /\ \A i \in DOMAIN queue[o] : queue'[o][i] = queue[o][i]
        /\ DOMAIN queue[o] = 1 .. Len(queue[o])
    <3> HIDE DEF w, o
    <3> QED
      BY <2>3, <2>4, <2>5
  <2>7. \A p \in Roots : p # o => queue'[p] = queue[p]
    BY <2>1 DEF Typed
  <2>8. ASSUME NEW i \in DOMAIN queue'[o]
        PROVE  Waits(queue'[o][i].service, i, o)
    <3>1. CASE i \in DOMAIN queue[o]
      BY <3>1, <2>6, <1>2 DEF Accepted
    <3>2. CASE i \notin DOMAIN queue[o]
      <4>1. i = Len(queue[o]) + 1
        BY <3>2, <2>6, <2>3
      <4>2. queue'[o][i].service = s
        BY <4>1, <2>4, <2>6
      <4> QED
        BY <4>2, <1>2, <1>4 DEF Waits
    <3> QED
      BY <3>1, <3>2
  <2>9. \A p \in Roots : \A i \in DOMAIN queue'[p] : Waits(queue'[p][i].service, i, p)
    BY <2>7, <2>8 DEF Accepted
  <2>10. \A p \in Roots : queue'[p] \in Seq(QueuedWrite)
    BY <2>6, <2>7 DEF Accepted
  <2> HIDE DEF o, w
  <2> QED
    BY <2>2, <2>9, <2>10 DEF Accepted, Waits
<1> QED
  BY <1>3, <1>4

\* A step of a handler that logs at most.
LEMMA HandledKeeps ==
  ASSUME RuntimeInv, Handled, DOMAIN queue' = Roots, Handlers', Accepted'
  PROVE  RuntimeInv'
<1>1. Typed' /\ DrainsTyped'
  BY DEF RuntimeInv, Typed, DrainsTyped, Handled
<1>2. EntryServes' /\ DrainsApart' /\ Predecessor'
  BY DEF RuntimeInv, EntryServes, DrainsApart, Predecessor, LogsOpen, Handled
<1>3. OpenServicesHaveAnOwner'
  BY DEF RuntimeInv, OpenServicesHaveAnOwner, Handled
<1> QED
  BY <1>1, <1>2, <1>3 DEF RuntimeInv

\* Where a handler goes when it logs to a key of its generation, or not at all.
LEMMA StepHandled ==
  ASSUME RuntimeInv, Handled, NEW r \in Requests, NEW p \in HandlerState,
         req' = [req EXCEPT ![r] = p],
         p.pc # "idle" => p.gen \in DOMAIN gens,
         p.pc \notin {"idle", "reading"} => p.key \in DOMAIN gens[p.gen].logs,
         \/ UNCHANGED queue
         \/ p.gen \in DOMAIN gens /\ p.key \in DOMAIN gens[p.gen].logs /\ Write(r, p.gen, p.key)
  PROVE  RuntimeInv'
<1>1. Handlers'
  BY DEF RuntimeInv, Handlers, Handled
<1>2. DOMAIN queue' = Roots /\ Accepted'
  <2>1. CASE UNCHANGED queue
    BY <2>1 DEF RuntimeInv, Typed, Accepted, Waits, Handled
  <2>2. CASE p.gen \in DOMAIN gens /\ p.key \in DOMAIN gens[p.gen].logs /\ Write(r, p.gen, p.key)
    BY <2>2, WriteAccepted DEF RuntimeInv, Handled
  <2> QED
    BY <2>1, <2>2
<1> QED
  BY <1>1, <1>2, HandledKeeps

\* Aborting and closing connections moves handlers within their generation.
LEMMA AbortedHandler ==
  ASSUME NEW p \in HandlerState
  PROVE  /\ Aborted(p) \in HandlerState /\ [Aborted(p) EXCEPT !.conn = FALSE] \in HandlerState
         /\ Aborted(p).gen = p.gen /\ Aborted(p).key = p.key
         /\ [Aborted(p) EXCEPT !.conn = FALSE].pc = Aborted(p).pc
         /\ [Aborted(p) EXCEPT !.conn = FALSE].gen = p.gen
         /\ [Aborted(p) EXCEPT !.conn = FALSE].key = p.key
         /\ Aborted(p).pc = p.pc \/ (p.pc = "sent" /\ Aborted(p).pc = "switched")
<1>1. CASE p.pc = "sent"
  <2>1. Aborted(p) = [p EXCEPT !.pc = "switched"]
    BY <1>1 DEF Aborted
  <2> QED
    BY <2>1, <1>1 DEF HandlerState
<1>2. CASE p.pc # "sent"
  <2>1. Aborted(p) = p
    BY <1>2 DEF Aborted
  <2> QED
    BY <2>1 DEF HandlerState
<1> QED
  BY <1>1, <1>2

\* A handler whose request was aborted serves its generation still.
Onwards(p, q) ==
  /\ q \in HandlerState /\ q.gen = p.gen /\ q.key = p.key
  /\ q.pc = p.pc \/ (p.pc = "sent" /\ q.pc = "switched")

LEMMA HandlerOnwards ==
  ASSUME NEW p \in HandlerState,
         NEW q \in {p, Aborted(p), [Aborted(p) EXCEPT !.conn = FALSE]}
  PROVE  Onwards(p, q)
<1> PICK u : u = Aborted(p)
  OBVIOUS
<1>1. /\ u \in HandlerState /\ u.gen = p.gen /\ u.key = p.key
      /\ u.pc = p.pc \/ (p.pc = "sent" /\ u.pc = "switched")
  BY AbortedHandler
<1>2. CASE q = p
  BY <1>2 DEF Onwards
<1>3. CASE q = u
  BY <1>1, <1>3 DEF Onwards
<1>4. CASE q = [u EXCEPT !.conn = FALSE]
  <2>1. q \in HandlerState
    BY <1>1, <1>4 DEF HandlerState
  <2>2. q.gen = u.gen /\ q.key = u.key /\ q.pc = u.pc
    BY <1>1, <1>4 DEF HandlerState
  <2> QED
    BY <1>1, <2>1, <2>2 DEF Onwards
<1> QED
  BY <1>2, <1>3, <1>4

LEMMA AbortKeepsHandlers ==
  ASSUME Handlers, NEW S, req' = Abort(S) \/ req' = Destroy(S), UNCHANGED gens
  PROVE  Handlers'
<1>1. DOMAIN req' = Requests /\ req' = [r \in Requests |-> req'[r]]
  BY DEF Abort, Destroy
<1>2. ASSUME NEW r \in Requests
      PROVE  /\ req'[r] \in HandlerState
             /\ req'[r].gen = req[r].gen /\ req'[r].key = req[r].key
             /\ req'[r].pc = req[r].pc \/ (req[r].pc = "sent" /\ req'[r].pc = "switched")
  <2>1. req[r] \in HandlerState
    BY DEF Handlers
  <2>2. req'[r] \in {req[r], Aborted(req[r]), [Aborted(req[r]) EXCEPT !.conn = FALSE]}
    BY DEF Abort, Destroy
  <2>3. Onwards(req[r], req'[r])
    BY <2>1, <2>2, HandlerOnwards
  <2> QED
    BY <2>3 DEF Onwards
<1>3. req' \in [Requests -> HandlerState]
  BY <1>1, <1>2
<1> QED
  BY <1>2, <1>3 DEF Handlers

LEMMA HandlerKeeps ==
  ASSUME RuntimeInv, NEW r \in Requests, Handler(r)
  PROVE  RuntimeInv'
<1> DEFINE h == req[r]
<1>1. /\ h \in HandlerState /\ req \in [Requests -> HandlerState]
      /\ h.pc # "idle" => h.gen \in DOMAIN gens
      /\ h.pc \notin {"idle", "reading"} => h.key \in DOMAIN gens[h.gen].logs
  BY DEF RuntimeInv, Handlers
<1>2. \A g \in DOMAIN gens : DOMAIN gens[g].logs \subseteq Keys /\ g \in Nat
  BY DEF RuntimeInv, Typed, LogsOf
<1>3. NoRequest \in HandlerState /\ NoRequest.pc = "idle"
  BY DEF NoRequest, HandlerState
<1>4. CASE Arrive(r)
  <2>1. current \in DOMAIN gens /\ Handled
    BY <1>4 DEF Arrive, RuntimeInv, EntryServes, Typed
  <2>2. CASE OneTarget(current)
    <3>1. PICK k \in DOMAIN gens[current].logs :
            /\ req' = [req EXCEPT ![r] = [pc |-> "receiving", gen |-> current, key |-> k,
                                         conn |-> TRUE]]
            /\ Write(r, current, k)
      BY <1>4, <2>2 DEF Arrive
    <3>2. [pc |-> "receiving", gen |-> current, key |-> k, conn |-> TRUE] \in HandlerState
      BY <1>2, <2>1 DEF HandlerState
    <3> QED
      BY <3>1, <3>2, <2>1, StepHandled
  <2>3. CASE ~OneTarget(current)
    <3>1. req' = [req EXCEPT ![r] = [NoRequest EXCEPT !.pc = "reading", !.gen = current,
                                                     !.conn = TRUE]] /\ UNCHANGED queue
      BY <1>4, <2>3 DEF Arrive
    <3> DEFINE p == [NoRequest EXCEPT !.pc = "reading", !.gen = current, !.conn = TRUE]
    <3>2. p \in HandlerState /\ p.pc = "reading" /\ p.gen = current
      BY <1>2, <2>1 DEF HandlerState, NoRequest
    <3> HIDE DEF p
    <3> QED
      BY <3>1, <3>2, <2>1, StepHandled DEF p
  <2> QED
    BY <2>2, <2>3
<1>5. CASE Received(r)
  <2>1. Handled /\ h.pc = "receiving"
    BY <1>5 DEF Received
  <2>2. CASE OneTarget(h.gen)
    <3> DEFINE p == [h EXCEPT !.pc = "reading"]
    <3>1. p \in HandlerState /\ p.pc = "reading" /\ p.gen = h.gen
      BY <1>1 DEF HandlerState
    <3>2. req' = [req EXCEPT ![r] = p] /\ UNCHANGED queue
      BY <1>5, <2>2, <1>1 DEF Received
    <3> HIDE DEF p
    <3> QED
      BY <3>1, <3>2, <2>1, <1>1, StepHandled
  <2>3. CASE ~OneTarget(h.gen)
    <3> DEFINE p == [h EXCEPT !.pc = "logging"]
    <3>1. p \in HandlerState /\ p.pc = "logging" /\ p.gen = h.gen /\ p.key = h.key
      BY <1>1 DEF HandlerState
    <3>2. req' = [req EXCEPT ![r] = p] /\ Write(r, h.gen, h.key)
      BY <1>5, <2>3, <1>1 DEF Received
    <3> HIDE DEF p
    <3> QED
      BY <3>1, <3>2, <2>1, <1>1, StepHandled
  <2> QED
    BY <2>2, <2>3
<1>6. CASE Select(r)
  <2>1. Handled /\ h.pc = "reading"
    BY <1>6 DEF Select
  <2>2. PICK k \in KeysOf(r) :
          /\ req' = [req EXCEPT ![r].pc = IF OneTarget(req[r].gen) THEN "logging"
                                                                 ELSE "receiving",
                                ![r].key = k]
          /\ Write(r, req[r].gen, k)
    BY <1>6 DEF Select
  <2>3. k \in DOMAIN gens[h.gen].logs /\ k \in Keys
    BY <2>1, <2>2, <1>1, <1>2 DEF KeysOf
  <2> DEFINE p == [h EXCEPT !.pc = IF OneTarget(h.gen) THEN "logging" ELSE "receiving", !.key = k]
  <2>4. p \in HandlerState /\ p.gen = h.gen /\ p.key = k
    BY <1>1, <2>3 DEF HandlerState
  <2>5. req' = [req EXCEPT ![r] = p]
    BY <2>2, <1>1
  <2> HIDE DEF p
  <2> QED
    BY <2>1, <2>2, <2>3, <2>4, <2>5, <1>1, StepHandled
<1>7. CASE Refuse(r)
  <2>1. Handled /\ h.pc = "reading"
    BY <1>7 DEF Refuse
  <2>2. PICK k \in KeysOf(r) :
          /\ req' = [req EXCEPT ![r].pc = "storing", ![r].key = k, ![r].conn = FALSE]
          /\ Write(r, req[r].gen, k)
    BY <1>7 DEF Refuse
  <2>3. k \in DOMAIN gens[h.gen].logs /\ k \in Keys
    BY <2>1, <2>2, <1>1, <1>2 DEF KeysOf
  <2> DEFINE p == [h EXCEPT !.pc = "storing", !.key = k, !.conn = FALSE]
  <2>4. p \in HandlerState /\ p.gen = h.gen /\ p.key = k
    BY <1>1, <2>3 DEF HandlerState
  <2>5. req' = [req EXCEPT ![r] = p]
    BY <2>2, <1>1
  <2> HIDE DEF p
  <2> QED
    BY <2>1, <2>2, <2>3, <2>4, <2>5, <1>1, StepHandled
<1>8. CASE BodyFails(r) \/ End(r)
  <2>1. Handled /\ UNCHANGED queue /\ req' = [req EXCEPT ![r] = NoRequest]
    BY <1>8 DEF BodyFails, End
  <2> QED
    BY <2>1, <1>3, StepHandled
<1>9. CASE Dispatch(r)
  <2>1. Handled /\ UNCHANGED queue /\ h.pc = "logging" /\ req' = [req EXCEPT ![r].pc = "sent"]
    BY <1>9 DEF Dispatch
  <2> DEFINE p == [h EXCEPT !.pc = "sent"]
  <2>2. p \in HandlerState /\ p.gen = h.gen /\ p.key = h.key /\ req' = [req EXCEPT ![r] = p]
    BY <1>1, <2>1 DEF HandlerState
  <2> HIDE DEF p
  <2> QED
    BY <2>1, <2>2, <1>1, StepHandled
<1>10. CASE Failover(r)
  <2>1. Handled /\ UNCHANGED queue /\ h.pc = "sent"
    BY <1>10 DEF Failover
  <2>2. PICK k \in KeysOf(r) : req' = [req EXCEPT ![r].pc = "switched", ![r].key = k]
    BY <1>10 DEF Failover
  <2>3. k \in DOMAIN gens[h.gen].logs /\ k \in Keys
    BY <2>1, <2>2, <1>1, <1>2 DEF KeysOf
  <2> DEFINE p == [h EXCEPT !.pc = "switched", !.key = k]
  <2>4. p \in HandlerState /\ p.gen = h.gen /\ p.key = k /\ req' = [req EXCEPT ![r] = p]
    BY <1>1, <2>2, <2>3 DEF HandlerState
  <2> HIDE DEF p
  <2> QED
    BY <2>1, <2>3, <2>4, <1>1, StepHandled
<1>11. CASE Answer(r)
  <2>1. Handled /\ UNCHANGED queue /\ h.pc \in {"sent", "switched"}
        /\ req' = [req EXCEPT ![r].pc = "answered", ![r].conn = FALSE]
    BY <1>11 DEF Answer
  <2> DEFINE p == [h EXCEPT !.pc = "answered", !.conn = FALSE]
  <2>2. p \in HandlerState /\ p.gen = h.gen /\ p.key = h.key /\ req' = [req EXCEPT ![r] = p]
    BY <1>1, <2>1 DEF HandlerState
  <2> HIDE DEF p
  <2> QED
    BY <2>1, <2>2, <1>1, StepHandled
<1>12. CASE Store(r)
  <2>1. Handled /\ h.pc = "answered" /\ req' = [req EXCEPT ![r].pc = "storing"]
        /\ Write(r, h.gen, h.key)
    BY <1>12 DEF Store
  <2> DEFINE p == [h EXCEPT !.pc = "storing"]
  <2>2. p \in HandlerState /\ p.gen = h.gen /\ p.key = h.key /\ req' = [req EXCEPT ![r] = p]
    BY <1>1, <2>1 DEF HandlerState
  <2> HIDE DEF p
  <2> QED
    BY <2>1, <2>2, <1>1, StepHandled
<1>13. CASE ClientLeaves(r)
  <2>1. Handled /\ UNCHANGED queue /\ req' = Destroy({r})
    BY <1>13 DEF ClientLeaves
  <2>2. Handlers'
    BY <2>1, AbortKeepsHandlers DEF RuntimeInv, Handled
  <2>3. DOMAIN queue' = Roots /\ Accepted'
    BY <2>1 DEF RuntimeInv, Typed, Accepted, Waits, Handled
  <2> QED
    BY <2>1, <2>2, <2>3, HandledKeeps
<1> QED
  BY <1>4, <1>5, <1>6, <1>7, <1>8, <1>9, <1>10, <1>11, <1>12, <1>13 DEF Handler

-----------------------------------------------------------------------------
\* The queues and what is closed

LEMMA SaveKeeps ==
  ASSUME RuntimeInv, NEW o \in Roots, Save(o)
  PROVE  RuntimeInv'
<1>1. /\ services \in Seq(Service) /\ DOMAIN queue = Roots
      /\ queue[o] # <<>> /\ queue' = [queue EXCEPT ![o] = Tail(@)]
      /\ services' = [s \in DOMAIN services |->
            IF RootOfService(s) = o /\ services[s].state = "closing" /\ services[s].left > 0
            THEN [services[s] EXCEPT !.left = @ - 1] ELSE services[s]]
      /\ UNCHANGED <<runtime, stopping, current, gens, logServices, drains, req>>
  BY DEF Save, RuntimeInv, Typed
<1>2. \A s \in DOMAIN services : services[s] \in Service
  BY <1>1
<1>3. /\ DOMAIN services' = DOMAIN services
      /\ \A s \in DOMAIN services : /\ services'[s] \in Service
                                    /\ services'[s].key = services[s].key
                                    /\ services'[s].state = services[s].state
  <2>1. DOMAIN services' = DOMAIN services
    BY <1>1
  <2>2. ASSUME NEW s \in DOMAIN services
        PROVE  /\ services'[s] \in Service
               /\ services'[s].key = services[s].key
               /\ services'[s].state = services[s].state
    <3>1. services[s] \in Service
      BY <1>2
    <3>2. CASE services'[s] = services[s]
      BY <3>1, <3>2
    <3>3. CASE services[s].left > 0 /\ services'[s] = [services[s] EXCEPT !.left = @ - 1]
      BY <3>1, <3>3 DEF Service
    <3> QED
      BY <3>2, <3>3, <1>1
  <2> QED
    BY <2>1, <2>2
<1>4. services' \in Seq(Service)
  <2>1. DOMAIN services' = 1 .. Len(services) /\ Len(services) \in Nat
    BY <1>1, <1>3
  <2>2. services' = [s \in 1 .. Len(services) |-> services'[s]]
    BY <1>1, <2>1
  <2> QED
    BY <2>1, <2>2, <1>3
<1>5. Typed' /\ DrainsTyped'
  <2>1. Extends(services, services')
    BY <1>3 DEF Extends
  <2>2. /\ \A g \in DOMAIN gens' : LogsOf(gens'[g].logs, services')
        /\ LogsOf(logServices', services')
    BY <2>1, <1>1, ExtendedLogs DEF RuntimeInv, Typed
  <2>3. Typed'
    BY <2>2, <1>1, <1>4 DEF RuntimeInv, Typed
  <2>4. DrainsTyped'
    BY <1>1, <1>3 DEF RuntimeInv, DrainsTyped
  <2> QED
    BY <2>3, <2>4
<1>6. EntryServes' /\ DrainsApart' /\ Predecessor' /\ OpenServicesHaveAnOwner'
  <2>1. EntryServes'
    <3>1. current # 0 => LogsOpen(current)'
      <4> HAVE current # 0
      <4>1. current \in DOMAIN gens /\ LogsOpen(current)
        BY <1>1 DEF RuntimeInv, EntryServes, Typed, LogsOf, EmptyMap
      <4>2. \A s \in Range(gens[current].logs) : s \in DOMAIN services
        BY <4>1 DEF RuntimeInv, Typed, LogsOf, Range
      <4> QED
        BY <4>1, <4>2, <1>1, <1>3 DEF LogsOpen
    <3> QED
      BY <3>1, <1>1 DEF RuntimeInv, EntryServes
  <2>2. DrainsApart'
    BY <1>1, <1>3 DEF RuntimeInv, DrainsApart, DrainsTyped
  <2>3. Predecessor' /\ OpenServicesHaveAnOwner'
    BY <1>1, <1>3 DEF RuntimeInv, Predecessor, OpenServicesHaveAnOwner
  <2> QED
    BY <2>1, <2>2, <2>3
<1>7. Accepted'
  <2>1. ASSUME NEW p \in Roots, p # o
        PROVE  /\ queue'[p] \in Seq(QueuedWrite)
               /\ \A i \in DOMAIN queue'[p] : \A s : s = queue'[p][i].service => Waits(s, i, p)'
    <3>1. queue'[p] = queue[p] /\ queue[p] \in Seq(QueuedWrite)
      BY <2>1, <1>1 DEF RuntimeInv, Accepted
    <3>2. ASSUME NEW i \in DOMAIN queue[p], NEW s, s = queue[p][i].service
          PROVE  Waits(s, i, p)'
      <4>1. Waits(s, i, p) /\ s \in DOMAIN services
        BY <3>2 DEF RuntimeInv, Accepted, Waits
      <4>2. services'[s] = services[s]
        BY <4>1, <2>1, <1>1 DEF Waits, RootOfService
      <4> QED
        BY <4>1, <4>2, <1>3 DEF Waits
    <3> QED
      BY <3>1, <3>2
  <2>2. /\ queue'[o] \in Seq(QueuedWrite)
        /\ \A i \in DOMAIN queue'[o] : \A s : s = queue'[o][i].service => Waits(s, i, o)'
    <3>1. queue'[o] = Tail(queue[o]) /\ queue[o] # <<>> /\ queue[o] \in Seq(QueuedWrite)
      BY <1>1 DEF RuntimeInv, Accepted
    <3>2. /\ queue'[o] \in Seq(QueuedWrite)
          /\ \A i \in DOMAIN queue'[o] : /\ i \in Nat /\ i + 1 \in DOMAIN queue[o]
                                         /\ queue'[o][i] = queue[o][i + 1]
      BY <3>1
    <3>3. ASSUME NEW i \in Nat, i + 1 \in DOMAIN queue[o], NEW s, s = queue[o][i + 1].service
          PROVE  Waits(s, i, o)'
      <4>1. Waits(s, i + 1, o) /\ s \in DOMAIN services
        BY <3>3 DEF RuntimeInv, Accepted, Waits
      <4>2. services[s] \in Service /\ services'[s].key = services[s].key
            /\ services'[s].state = services[s].state
        BY <4>1, <1>2, <1>3
      <4>3. CASE services[s].state = "open"
        BY <4>1, <4>2, <4>3, <1>3 DEF Waits
      <4>4. CASE services[s].state = "closing" /\ i + 1 <= services[s].left
        <5>1. services[s].left \in Nat /\ services[s].left > 0
          BY <4>2, <4>4 DEF Service
        <5>2. services'[s] = [services[s] EXCEPT !.left = @ - 1]
          BY <4>1, <4>4, <5>1, <1>1 DEF Waits, RootOfService
        <5>3. services'[s].left = services[s].left - 1
          BY <5>2, <4>2 DEF Service
        <5>4. i <= services'[s].left
          BY <5>1, <5>3, <4>4
        <5> QED
          BY <4>1, <4>2, <4>4, <5>4, <1>3 DEF Waits
      <4> QED
        BY <4>1, <4>3, <4>4 DEF Waits
    <3> QED
      BY <3>2, <3>3
  <2> QED
    BY <2>1, <2>2 DEF Accepted
<1>8. Handlers'
  BY <1>1 DEF RuntimeInv, Handlers
<1> QED
  BY <1>5, <1>6, <1>7, <1>8 DEF RuntimeInv

LEMMA ClosedKeeps ==
  ASSUME RuntimeInv, NEW s \in DOMAIN services, Closed(s)
  PROVE  RuntimeInv'
<1>1. /\ services \in Seq(Service) /\ services[s] \in Service
      /\ services[s].state = "closing" /\ services[s].left = 0
      /\ services' = [services EXCEPT ![s].state = "closed"]
      /\ UNCHANGED <<runtime, stopping, current, gens, logServices, drains, req, queue>>
  BY DEF Closed, RuntimeInv, Typed
<1>2. /\ DOMAIN services' = DOMAIN services /\ services' \in Seq(Service)
      /\ services'[s].key = services[s].key /\ services'[s].state = "closed"
      /\ \A t \in DOMAIN services : t # s => services'[t] = services[t]
  BY <1>1 DEF Service
<1>3. Extends(services, services')
  BY <1>2 DEF Extends
<1>4. Typed' /\ DrainsTyped'
  <2>1. /\ \A g \in DOMAIN gens' : LogsOf(gens'[g].logs, services')
        /\ LogsOf(logServices', services')
    BY <1>3, <1>1, ExtendedLogs DEF RuntimeInv, Typed
  <2>2. Typed'
    BY <2>1, <1>1, <1>2 DEF RuntimeInv, Typed
  <2>3. DrainsTyped'
    BY <1>1, <1>2 DEF RuntimeInv, DrainsTyped
  <2> QED
    BY <2>2, <2>3
<1>5. EntryServes'
  <2>1. current # 0 => LogsOpen(current)'
    <3> HAVE current # 0
    <3>1. current \in DOMAIN gens /\ LogsOpen(current)
      BY <1>1 DEF RuntimeInv, EntryServes, Typed
    <3>2. \A t \in Range(gens[current].logs) : t \in DOMAIN services
      BY <3>1 DEF RuntimeInv, Typed, LogsOf, Range
    <3> QED
      BY <3>1, <3>2, <1>1, <1>2 DEF LogsOpen
  <2> QED
    BY <2>1, <1>1 DEF RuntimeInv, EntryServes
<1>6. DrainsApart' /\ Predecessor' /\ OpenServicesHaveAnOwner'
  <2>1. DrainsApart'
    BY <1>1, <1>2 DEF RuntimeInv, DrainsApart, DrainsTyped
  <2> QED
    BY <2>1, <1>1, <1>2 DEF RuntimeInv, Predecessor, OpenServicesHaveAnOwner
<1>7. Accepted'
  <2>1. ASSUME NEW o \in Roots, NEW i \in DOMAIN queue[o], NEW w, w = queue[o][i].service
        PROVE  Waits(w, i, o)'
    <3>1. Waits(w, i, o) /\ i \in Nat /\ i >= 1
      BY <2>1 DEF RuntimeInv, Accepted
    <3>2. w # s
      BY <3>1, <1>1 DEF Waits
    <3> QED
      BY <3>1, <3>2, <1>2 DEF Waits
  <2> QED
    BY <2>1, <1>1 DEF RuntimeInv, Accepted
<1>8. Handlers'
  BY <1>1 DEF RuntimeInv, Handlers
<1> QED
  BY <1>4, <1>5, <1>6, <1>7, <1>8 DEF RuntimeInv

-----------------------------------------------------------------------------
\* Closing on behalf of a drain or of the entry

LEMMA CloseKeeps ==
  ASSUME RuntimeInv, NEW S, services' = Close(S, services), UNCHANGED <<gens, queue>>
  PROVE  /\ services' \in Seq(Service) /\ DOMAIN services' = DOMAIN services
         /\ Accepted' /\ DOMAIN queue' = Roots /\ gens' \in Seq(Pipeline)
         /\ Extends(services, services')
         /\ \A g \in DOMAIN gens' : LogsOf(gens'[g].logs, services')
         /\ \A s \in DOMAIN services :
              services'[s].state = "open" <=> services[s].state = "open" /\ s \notin S
<1>1. services' \in Seq(Service) /\ DOMAIN services' = DOMAIN services
  BY CloseTyped, CloseCloses DEF RuntimeInv
<1>2. Accepted'
  BY CloseAccepts DEF RuntimeInv
<1>3. Extends(services, services')
  BY <1>1, CloseCloses DEF RuntimeInv, Extends
<1>4. \A g \in DOMAIN gens' : LogsOf(gens'[g].logs, services')
  BY <1>3, ExtendedLogs DEF RuntimeInv, Typed
<1>5. \A s \in DOMAIN services :
        services'[s].state = "open" <=> services[s].state = "open" /\ s \notin S
  <2> TAKE s \in DOMAIN services
  <2>1. CASE s \in S /\ services[s].state = "open"
    <3>1. services'[s] = [key |-> services[s].key, state |-> "closing",
                          left |-> Len(queue[RootOf[services[s].key]])]
      BY <2>1, CloseCloses DEF RuntimeInv
    <3> HIDE DEF RuntimeInv
    <3>2. services'[s].state = "closing"
      BY <3>1
    <3> QED
      BY <2>1, <3>2
  <2>2. CASE ~(s \in S /\ services[s].state = "open")
    <3>1. services'[s] = services[s]
      BY <2>2, CloseCloses DEF RuntimeInv
    <3> QED
      BY <2>2, <3>1
  <2> QED
    BY <2>1, <2>2
<1> QED
  BY <1>1, <1>2, <1>3, <1>4, <1>5 DEF RuntimeInv, Typed

LEMMA CloseSupersededKeeps ==
  ASSUME RuntimeInv, NEW d \in drains, CloseSuperseded(d),
         UNCHANGED <<runtime, stopping, current, gens, logServices, req, queue>>
  PROVE  RuntimeInv'
<1> DEFINE e == [d EXCEPT !.phase = "closing"]
<1>1. /\ services' = Close(d.services, services)
      /\ drains' = (drains \ {d}) \cup {e}
  BY DEF CloseSuperseded, Phase
<1>2. d \in Drain /\ e \in Drain /\ e.gen = d.gen /\ e.services = d.services /\ e.phase = "closing"
  BY DEF RuntimeInv, DrainsTyped, Drain
<1> HIDE DEF e
<1>3. /\ services' \in Seq(Service) /\ DOMAIN services' = DOMAIN services
      /\ Accepted' /\ DOMAIN queue' = Roots /\ gens' \in Seq(Pipeline)
      /\ Extends(services, services')
      /\ \A g \in DOMAIN gens' : LogsOf(gens'[g].logs, services')
      /\ \A s \in DOMAIN services :
           services'[s].state = "open" <=> services[s].state = "open" /\ s \notin d.services
  BY <1>1, CloseKeeps
<1>4. LogsOf(logServices', services')
  BY <1>3, ExtendedLogs DEF RuntimeInv, Typed
<1>5. Typed' /\ Handlers'
  BY <1>3, <1>4 DEF RuntimeInv, Typed, Handlers
<1>6. DrainsTyped'
  BY <1>1, <1>2, <1>3 DEF RuntimeInv, DrainsTyped
<1>7. EntryServes'
  <2>1. current # 0 => LogsOpen(current)'
    <3> HAVE current # 0
    <3>1. current \in DOMAIN gens /\ LogsOpen(current) /\ gens[current].logs = logServices
      BY DEF RuntimeInv, EntryServes, Typed
    <3>2. \A s \in Range(gens[current].logs) : s \in DOMAIN services
      BY <3>1 DEF RuntimeInv, Typed, LogsOf, Range
    <3>3. \A s \in Range(gens[current].logs) : s \notin d.services
      BY <3>1 DEF RuntimeInv, DrainsApart
    <3> QED
      BY <3>1, <3>2, <3>3, <1>3 DEF LogsOpen
  <2> QED
    BY <2>1 DEF RuntimeInv, EntryServes
<1>8. DrainsApart'
  BY <1>1, <1>2, <1>3 DEF RuntimeInv, DrainsApart, DrainsTyped
<1>9. Predecessor'
  BY <1>1, <1>2 DEF RuntimeInv, Predecessor
<1>10. OpenServicesHaveAnOwner'
  BY <1>1, <1>3 DEF RuntimeInv, OpenServicesHaveAnOwner
<1> QED
  BY <1>3, <1>5, <1>6, <1>7, <1>8, <1>9, <1>10 DEF RuntimeInv

LEMMA DrainKeeps ==
  ASSUME RuntimeInv, NEW d \in drains,
         DrainIdle(d) \/ DrainTimesOut(d) \/ DrainGivesUp(d) \/ Drained(d)
  PROVE  RuntimeInv'
<1>1. CASE DrainIdle(d) \/ DrainGivesUp(d)
  BY <1>1, CloseSupersededKeeps DEF DrainIdle, DrainGivesUp
<1>2. CASE DrainTimesOut(d)
  <2> DEFINE e == [d EXCEPT !.phase = "aborted"]
  <2>1. /\ drains' = (drains \ {d}) \cup {e} /\ req' = Abort(Active(d.gen))
        /\ d.phase = "waiting"
        /\ UNCHANGED <<runtime, stopping, current, gens, logServices, services, queue>>
    BY <1>2 DEF DrainTimesOut, Phase
  <2>2. d \in Drain /\ e \in Drain /\ e.gen = d.gen /\ e.services = d.services
        /\ e.phase = "aborted"
    BY DEF RuntimeInv, DrainsTyped, Drain
  <2> HIDE DEF e
  <2>3. Handlers'
    BY <2>1, AbortKeepsHandlers DEF RuntimeInv
  <2>4. Typed' /\ Accepted'
    BY <2>1 DEF RuntimeInv, Typed, Accepted, Waits
  <2>5. DrainsTyped'
    BY <2>1, <2>2 DEF RuntimeInv, DrainsTyped
  <2>6. EntryServes'
    BY <2>1 DEF RuntimeInv, EntryServes, LogsOpen
  <2>7. DrainsApart'
    BY <2>1, <2>2 DEF RuntimeInv, DrainsApart
  <2>8. Predecessor'
    BY <2>1, <2>2 DEF RuntimeInv, Predecessor
  <2>9. OpenServicesHaveAnOwner'
    BY <2>1, <2>2 DEF RuntimeInv, OpenServicesHaveAnOwner
  <2> QED
    BY <2>3, <2>4, <2>5, <2>6, <2>7, <2>8, <2>9 DEF RuntimeInv
<1>3. CASE Drained(d)
  <2>1. /\ d.phase = "closing" /\ drains' = drains \ {d}
        /\ UNCHANGED <<runtime, stopping, current, gens, logServices, services, req, queue>>
    BY <1>3 DEF Drained
  <2>2. Typed' /\ Accepted' /\ Handlers'
    BY <2>1 DEF RuntimeInv, Typed, Accepted, Waits, Handlers
  <2>3. DrainsTyped' /\ DrainsApart' /\ Predecessor'
    BY <2>1 DEF RuntimeInv, DrainsTyped, DrainsApart, Predecessor
  <2>4. EntryServes' /\ OpenServicesHaveAnOwner'
    BY <2>1 DEF RuntimeInv, EntryServes, LogsOpen, OpenServicesHaveAnOwner
  <2> QED
    BY <2>2, <2>3, <2>4 DEF RuntimeInv
<1> QED
  BY <1>1, <1>2, <1>3

-----------------------------------------------------------------------------
\* A pipeline is built, for a start or a reload

LEMMA BuildKeeps ==
  ASSUME RuntimeInv, NEW c \in Offers, NEW m \in Compilations(c), NEW n \in Nat,
         gens' = Append(gens, [logs |-> m, first |-> n]),
         services' = Built(MissingKeys(c), m), logServices' = m, UNCHANGED <<queue, req>>
  PROVE  /\ gens' \in Seq(Pipeline) /\ Len(gens') = Len(gens) + 1
         /\ gens'[Len(gens) + 1].logs = m /\ DOMAIN gens \subseteq DOMAIN gens'
         /\ \A g \in DOMAIN gens : gens'[g] = gens[g]
         /\ \A g \in DOMAIN gens' : LogsOf(gens'[g].logs, services')
         /\ services' \in Seq(Service) /\ LogsOf(m, services') /\ DOMAIN queue' = Roots
         /\ Accepted' /\ Handlers'
<1> DEFINE p == [logs |-> m, first |-> n]
<1>1. /\ services' \in Seq(Service) /\ Extends(services, services')
      /\ \A s \in DOMAIN services : services'[s] = services[s]
      /\ DOMAIN m = c /\ LogsOf(m, services')
  BY BuiltServices DEF RuntimeInv
<1>2. p \in Pipeline
  <2>1. c \in SUBSET Keys /\ Len(services) \in Nat /\ Cardinality(c) \in Nat
    BY RuntimeAssumption, FS_CardinalityType DEF RuntimeInv, Typed
  <2>2. m \in [c -> 1 .. (Len(services) + Cardinality(c))]
    BY DEF Compilations
  <2>3. m \in [c -> Nat]
    BY <2>1, <2>2
  <2> QED
    BY <2>1, <2>3 DEF Pipeline
<1>3. gens \in Seq(Pipeline) /\ gens' = Append(gens, p)
  BY DEF RuntimeInv, Typed
<1>4. p.logs = m
  OBVIOUS
<1> HIDE DEF p
<1>5. /\ gens' \in Seq(Pipeline) /\ Len(gens') = Len(gens) + 1
      /\ gens'[Len(gens) + 1].logs = m /\ DOMAIN gens \subseteq DOMAIN gens'
      /\ \A g \in DOMAIN gens : gens'[g] = gens[g]
      /\ DOMAIN gens' = DOMAIN gens \cup {Len(gens) + 1}
  BY <1>2, <1>3, <1>4
<1>6. \A g \in DOMAIN gens' : LogsOf(gens'[g].logs, services')
  <2> TAKE g \in DOMAIN gens'
  <2>1. CASE g \in DOMAIN gens
    BY <2>1, <1>1, <1>5, ExtendedLogs DEF RuntimeInv, Typed
  <2>2. CASE g \notin DOMAIN gens
    BY <2>2, <1>1, <1>5
  <2> QED
    BY <2>1, <2>2
<1>7. Accepted'
  <2>1. ASSUME NEW o \in Roots, NEW i \in DOMAIN queue[o], NEW w, w = queue[o][i].service
        PROVE  Waits(w, i, o)'
    <3>1. Waits(w, i, o)
      BY <2>1 DEF RuntimeInv, Accepted
    <3> QED
      BY <3>1, <1>1 DEF Waits, Extends
  <2> QED
    BY <2>1 DEF RuntimeInv, Accepted
<1>8. Handlers'
  BY <1>5 DEF RuntimeInv, Handlers
<1> QED
  BY <1>1, <1>5, <1>6, <1>7, <1>8 DEF RuntimeInv, Typed

LEMMA BeginStartKeeps ==
  ASSUME RuntimeInv, NEW c \in Offers, BeginStart(c)
  PROVE  RuntimeInv'
<1>1. /\ runtime \in {"stopped", "failed"} /\ runtime' = "starting"
      /\ current' = Len(gens) + 1 /\ UNCHANGED <<stopping, drains, req, queue>>
  BY DEF BeginStart
<1>2. PICK m \in Compilations(c) :
        /\ gens' = Append(gens, [logs |-> m, first |-> Len(gens) + 1])
        /\ services' = Built(MissingKeys(c), m) /\ logServices' = m
  BY DEF BeginStart
<1>3. Len(gens) \in Nat /\ DOMAIN gens = 1 .. Len(gens)
  BY DEF RuntimeInv, Typed
<1>4. /\ gens' \in Seq(Pipeline) /\ Len(gens') = Len(gens) + 1
      /\ gens'[Len(gens) + 1].logs = m /\ DOMAIN gens \subseteq DOMAIN gens'
      /\ \A g \in DOMAIN gens' : LogsOf(gens'[g].logs, services')
      /\ services' \in Seq(Service) /\ LogsOf(m, services') /\ DOMAIN queue' = Roots
      /\ Accepted' /\ Handlers'
  BY <1>1, <1>2, <1>3, BuildKeeps
<1>5. /\ DOMAIN services \subseteq DOMAIN services'
      /\ \A s \in DOMAIN services : services'[s] = services[s]
      /\ DOMAIN m = c
      /\ \A k \in MissingKeys(c) : m[k] \notin DOMAIN services /\ services'[m[k]].state = "open"
      /\ \A s \in DOMAIN services' \ DOMAIN services : s \in Range(m)
  BY <1>2, BuiltServices DEF RuntimeInv, Extends
<1>6. logServices = EmptyMap /\ MissingKeys(c) = c
  BY <1>1 DEF RuntimeInv, EntryServes, MissingKeys, EmptyMap
<1>7. Typed'
  BY <1>1, <1>2, <1>3, <1>4 DEF RuntimeInv, Typed
<1>8. DrainsTyped'
  BY <1>1, <1>3, <1>4, <1>5 DEF RuntimeInv, DrainsTyped, Drain
<1>9. EntryServes'
  <2>1. LogsOpen(current)'
    BY <1>1, <1>4, <1>5, <1>6 DEF LogsOpen, Range
  <2>2. stopping = "no"
    BY <1>1 DEF RuntimeInv, EntryServes, Typed
  <2> QED
    BY <2>1, <2>2, <1>1, <1>2, <1>3, <1>4 DEF EntryServes
<1>10. DrainsApart'
  <2>1. \A d \in drains : d.services \cap Range(m) = {}
    BY <1>5, <1>6 DEF RuntimeInv, DrainsTyped, Range
  <2> QED
    BY <2>1, <1>1, <1>2, <1>5 DEF RuntimeInv, DrainsApart, DrainsTyped
<1>11. Predecessor'
  BY <1>1, <1>3 DEF RuntimeInv, DrainsTyped, Predecessor
<1>12. OpenServicesHaveAnOwner'
  <2>1. Range(logServices) = {}
    BY <1>6 DEF Range, EmptyMap
  <2> QED
    BY <2>1, <1>1, <1>2, <1>5 DEF RuntimeInv, OpenServicesHaveAnOwner
<1> QED
  BY <1>4, <1>7, <1>8, <1>9, <1>10, <1>11, <1>12 DEF RuntimeInv

LEMMA ReloadKeeps ==
  ASSUME RuntimeInv, NEW c \in Offers, Reload(c)
  PROVE  RuntimeInv'
<1> DEFINE e == [gen |-> current, services |-> Superseded(c), phase |-> "waiting"]
<1>1. /\ runtime = "running" /\ current' = Len(gens) + 1
      /\ drains' = drains \cup {e} /\ UNCHANGED <<runtime, stopping, req, queue>>
  BY DEF Reload
<1>2. PICK m \in Compilations(c) :
        /\ gens' = Append(gens, [logs |-> m, first |-> gens[current].first])
        /\ services' = Built(MissingKeys(c), m) /\ logServices' = m
  BY DEF Reload
<1>3. /\ Len(gens) \in Nat /\ DOMAIN gens = 1 .. Len(gens) /\ gens \in Seq(Pipeline)
      /\ current = Len(gens) /\ current \in DOMAIN gens /\ current # 0
      /\ gens[current].logs = logServices /\ LogsOpen(current)
  BY <1>1 DEF RuntimeInv, Typed, EntryServes
<1>4. gens[current].first \in Nat
  <2>1. gens[current] \in Pipeline
    BY <1>3
  <2> QED
    BY <2>1 DEF Pipeline
<1>5. /\ gens' \in Seq(Pipeline) /\ Len(gens') = Len(gens) + 1
      /\ gens'[Len(gens) + 1].logs = m /\ DOMAIN gens \subseteq DOMAIN gens'
      /\ \A g \in DOMAIN gens : gens'[g] = gens[g]
      /\ \A g \in DOMAIN gens' : LogsOf(gens'[g].logs, services')
      /\ services' \in Seq(Service) /\ LogsOf(m, services') /\ DOMAIN queue' = Roots
      /\ Accepted' /\ Handlers'
  BY <1>1, <1>2, <1>4, BuildKeeps
<1>6. /\ DOMAIN services \subseteq DOMAIN services'
      /\ \A s \in DOMAIN services : services'[s] = services[s]
      /\ DOMAIN m = c
      /\ \A k \in c \cap DOMAIN logServices : m[k] = logServices[k]
      /\ \A k \in MissingKeys(c) : m[k] \notin DOMAIN services /\ services'[m[k]].state = "open"
      /\ \A s \in DOMAIN services' \ DOMAIN services : s \in Range(m)
  BY <1>2, BuiltServices DEF RuntimeInv, Extends
<1>7. \A k \in DOMAIN logServices : /\ logServices[k] \in DOMAIN services
                                    /\ services[logServices[k]].key = k
                                    /\ services[logServices[k]].state = "open"
  BY <1>3 DEF RuntimeInv, Typed, LogsOf, LogsOpen, Range
<1>8. /\ e \in Drain /\ e.gen = current /\ e.services = Superseded(c) /\ e.phase = "waiting"
  <2>1. DOMAIN services \subseteq Nat
    BY DEF RuntimeInv, Typed
  <2> QED
    BY <2>1, <1>3, <1>7 DEF Drain, Superseded
<1> HIDE DEF e
<1>9. /\ Superseded(c) \subseteq Range(logServices)
      /\ Superseded(c) \subseteq DOMAIN services
      /\ Superseded(c) \cap Range(m) = {}
      /\ Range(logServices) \subseteq Range(m) \cup Superseded(c)
      /\ \A s \in Superseded(c) : services[s].state = "open"
  <2>1. \A k \in DOMAIN logServices \ c : \A q \in c : m[q] # logServices[k]
    <3> TAKE k \in DOMAIN logServices \ c
    <3> TAKE q \in c
    <3>1. CASE q \in DOMAIN logServices
      BY <3>1, <1>6, <1>7
    <3>2. CASE q \notin DOMAIN logServices
      BY <3>2, <1>6, <1>7 DEF MissingKeys
    <3> QED
      BY <3>1, <3>2
  <2> QED
    BY <2>1, <1>6, <1>7 DEF Superseded, Range
<1>10. Range(m) \cap DOMAIN services \subseteq Range(logServices)
  BY <1>6 DEF Range, MissingKeys
<1>11. Typed'
  BY <1>1, <1>2, <1>3, <1>5 DEF RuntimeInv, Typed
<1>12. DrainsTyped'
  BY <1>1, <1>3, <1>5, <1>6, <1>8, <1>9 DEF RuntimeInv, DrainsTyped
<1>13. EntryServes'
  <2>1. LogsOpen(current)'
    <3>1. \A k \in c : services'[m[k]].state = "open"
      <4> TAKE k \in c
      <4>1. CASE k \in DOMAIN logServices
        BY <4>1, <1>6, <1>7
      <4>2. CASE k \notin DOMAIN logServices
        BY <4>2, <1>6 DEF MissingKeys
      <4> QED
        BY <4>1, <4>2
    <3> QED
      BY <3>1, <1>1, <1>5, <1>6 DEF LogsOpen, Range
  <2>2. stopping = "no"
    BY <1>1 DEF RuntimeInv, EntryServes, Typed
  <2> QED
    BY <2>1, <2>2, <1>1, <1>2, <1>3, <1>5 DEF EntryServes
<1>14. DrainsApart'
  <2>1. \A d \in drains : /\ d.services \cap Range(m) = {}
                          /\ d.services \cap Superseded(c) = {}
                          /\ d.services \subseteq DOMAIN services
                          /\ d.gen # current
    BY <1>3, <1>9, <1>10 DEF RuntimeInv, DrainsTyped, DrainsApart
  <2>2. ASSUME NEW d \in drains'
        PROVE  /\ d.services \cap Range(m) = {}
               /\ d.phase # "closing" => \A s \in d.services : services'[s].state = "open"
    BY <2>1, <1>1, <1>6, <1>8, <1>9 DEF RuntimeInv, DrainsApart
  <2>3. ASSUME NEW d \in drains', NEW x \in drains', d # x
        PROVE  d.gen # x.gen /\ d.services \cap x.services = {}
    BY <2>1, <2>3, <1>1, <1>8 DEF RuntimeInv, DrainsApart
  <2> QED
    BY <2>2, <2>3, <1>2 DEF DrainsApart
<1>15. Predecessor'
  <2> SUFFICES ASSUME NEW d \in drains', d.gen = current' - 1
               PROVE  Range(gens'[d.gen].logs) \subseteq Range(m) \cup d.services
    BY <1>2 DEF Predecessor
  <2>1. d = e
    BY <1>1, <1>3 DEF RuntimeInv, DrainsTyped
  <2> QED
    BY <2>1, <1>3, <1>5, <1>8, <1>9
<1>16. OpenServicesHaveAnOwner'
  <2> SUFFICES ASSUME NEW s \in DOMAIN services', services'[s].state = "open"
               PROVE  s \in Range(m) \/ \E d \in drains' : s \in d.services /\ d.phase # "closing"
    BY <1>2 DEF OpenServicesHaveAnOwner
  <2>1. CASE s \notin DOMAIN services
    BY <2>1, <1>6
  <2>2. CASE s \in DOMAIN services
    <3>1. s \in Range(logServices) \/ \E d \in drains : s \in d.services /\ d.phase # "closing"
      BY <2>2, <1>6 DEF RuntimeInv, OpenServicesHaveAnOwner
    <3> QED
      BY <3>1, <1>1, <1>8, <1>9
  <2> QED
    BY <2>1, <2>2
<1> QED
  BY <1>5, <1>11, <1>12, <1>13, <1>14, <1>15, <1>16 DEF RuntimeInv

-----------------------------------------------------------------------------
\* The rest of a start, and a stop

\* What changes neither services nor drains keeps most of the invariant.
LEMMA StandingKeeps ==
  ASSUME RuntimeInv, UNCHANGED <<gens, services, drains, queue>>
  PROVE  DrainsTyped' /\ Accepted'
BY DEF RuntimeInv, DrainsTyped, Accepted, Waits

LEMMA StartKeeps ==
  ASSUME RuntimeInv, Started \/ StartFailed
  PROVE  RuntimeInv'
<1>1. /\ UNCHANGED <<stopping, current, gens, logServices, services, drains, req, queue>>
      /\ \/ runtime = "starting" /\ current # 0 /\ runtime' = "running"
         \/ runtime = "starting" /\ current = 0 /\ runtime' = "failed"
  BY DEF Started, StartFailed
<1>2. DrainsTyped' /\ Accepted'
  BY <1>1, StandingKeeps
<1>3. Typed' /\ Handlers'
  BY <1>1 DEF RuntimeInv, Typed, Handlers
<1>4. EntryServes'
  BY <1>1 DEF RuntimeInv, EntryServes, LogsOpen, Typed
<1>5. DrainsApart' /\ Predecessor' /\ OpenServicesHaveAnOwner'
  BY <1>1 DEF RuntimeInv, DrainsApart, Predecessor, OpenServicesHaveAnOwner
<1> QED
  BY <1>2, <1>3, <1>4, <1>5 DEF RuntimeInv

\* The entry closes what it holds, and keeps or drops it: nothing it held stays open.
LEMMA EntryClosesKeeps ==
  ASSUME RuntimeInv, services' = Close(Range(logServices), services),
         logServices' \in {logServices, EmptyMap}, current' = 0,
         UNCHANGED <<gens, drains, req, queue>>,
         runtime' = runtime, stopping' \in {"no", "waiting", "forced", "logs"},
         \/ runtime = "starting" /\ logServices' = EmptyMap /\ stopping' = stopping
         \/ runtime = "stopping"
  PROVE  RuntimeInv'
<1>1. /\ services' \in Seq(Service) /\ DOMAIN services' = DOMAIN services
      /\ Accepted' /\ DOMAIN queue' = Roots /\ gens' \in Seq(Pipeline)
      /\ Extends(services, services')
      /\ \A g \in DOMAIN gens' : LogsOf(gens'[g].logs, services')
      /\ \A s \in DOMAIN services :
           services'[s].state = "open" <=> services[s].state = "open" /\ s \notin Range(logServices)
  BY CloseKeeps
<1>2. LogsOf(logServices', services')
  <2>1. LogsOf(logServices, services')
    BY <1>1, ExtendedLogs DEF RuntimeInv, Typed
  <2>2. LogsOf(EmptyMap, services')
    BY DEF LogsOf, EmptyMap
  <2> QED
    BY <2>1, <2>2
<1>3. Typed' /\ Handlers'
  BY <1>1, <1>2 DEF RuntimeInv, Typed, Handlers
<1>4. DrainsTyped'
  BY <1>1 DEF RuntimeInv, DrainsTyped
<1>5. EntryServes'
  BY DEF RuntimeInv, EntryServes
<1>6. Range(logServices') \subseteq Range(logServices)
  BY DEF Range, EmptyMap
<1>7. DrainsApart'
  <2>1. ASSUME NEW d \in drains
        PROVE  /\ d.services \cap Range(logServices) = {}
               /\ d.services \subseteq DOMAIN services
               /\ d.phase # "closing" => \A s \in d.services : services'[s].state = "open"
    BY <1>1 DEF RuntimeInv, DrainsApart, DrainsTyped
  <2> HIDE DEF Range
  <2>2. \A d \in drains : d.services \cap Range(logServices') = {}
    BY <2>1, <1>6
  <2> QED
    BY <2>1, <2>2 DEF RuntimeInv, DrainsApart
<1>8. Predecessor'
  BY DEF Predecessor
<1>9. OpenServicesHaveAnOwner'
  BY <1>1 DEF RuntimeInv, OpenServicesHaveAnOwner
<1> QED
  BY <1>1, <1>3, <1>4, <1>5, <1>7, <1>8, <1>9 DEF RuntimeInv

LEMMA StopKeeps ==
  ASSUME RuntimeInv, StopPair \/ StopAll \/ StopTimesOut \/ Stopped
  PROVE  RuntimeInv'
<1>1. CASE StopPair \/ StopAll
  <2>1. /\ runtime' = "stopping" /\ stopping' = "waiting" /\ current' = 0
        /\ UNCHANGED <<gens, logServices, services, drains, queue>>
        /\ UNCHANGED req \/ req' = Abort(UNION {Active(d.gen) : d \in drains})
    BY <1>1 DEF StopPair, StopAll, BeginStop
  <2>2. Handlers'
    <3>1. CASE UNCHANGED req
      BY <3>1, <2>1 DEF RuntimeInv, Handlers
    <3>2. CASE req' = Abort(UNION {Active(d.gen) : d \in drains})
      BY <3>2, <2>1, AbortKeepsHandlers DEF RuntimeInv
    <3> QED
      BY <3>1, <3>2, <2>1
  <2>3. DrainsTyped' /\ Accepted'
    BY <2>1, StandingKeeps
  <2>4. Typed' /\ EntryServes'
    BY <2>1 DEF RuntimeInv, Typed, EntryServes
  <2>5. DrainsApart' /\ Predecessor' /\ OpenServicesHaveAnOwner'
    BY <2>1 DEF RuntimeInv, DrainsApart, Predecessor, OpenServicesHaveAnOwner
  <2> QED
    BY <2>2, <2>3, <2>4, <2>5 DEF RuntimeInv
<1>2. CASE StopTimesOut
  <2>1. /\ stopping = "waiting" /\ stopping' = "forced" /\ req' = Destroy(Connected)
        /\ UNCHANGED <<runtime, current, gens, logServices, services, drains, queue>>
    BY <1>2 DEF StopTimesOut
  <2>2. Handlers'
    BY <2>1, AbortKeepsHandlers DEF RuntimeInv
  <2>3. DrainsTyped' /\ Accepted'
    BY <2>1, StandingKeeps
  <2>4. Typed' /\ EntryServes'
    BY <2>1 DEF RuntimeInv, Typed, EntryServes, LogsOpen
  <2>5. DrainsApart' /\ Predecessor' /\ OpenServicesHaveAnOwner'
    BY <2>1 DEF RuntimeInv, DrainsApart, Predecessor, OpenServicesHaveAnOwner
  <2> QED
    BY <2>2, <2>3, <2>4, <2>5 DEF RuntimeInv
<1>3. CASE Stopped
  <2>1. /\ stopping = "logs" /\ AllClosed(Range(logServices)) /\ runtime' = "stopped"
        /\ stopping' = "no" /\ logServices' = EmptyMap
        /\ UNCHANGED <<current, gens, services, drains, req, queue>>
    BY <1>3 DEF Stopped
  <2>2. current = 0
    BY <2>1 DEF RuntimeInv, EntryServes
  <2>3. Range(EmptyMap) = {} /\ LogsOf(EmptyMap, services)
    BY DEF Range, EmptyMap, LogsOf
  <2>4. DrainsTyped' /\ Accepted'
    BY <2>1, StandingKeeps
  <2>5. Typed' /\ Handlers'
    BY <2>1, <2>3 DEF RuntimeInv, Typed, Handlers
  <2>6. EntryServes' /\ Predecessor'
    BY <2>1, <2>2 DEF EntryServes, Predecessor
  <2>7. DrainsApart'
    BY <2>1, <2>3 DEF RuntimeInv, DrainsApart
  <2>8. OpenServicesHaveAnOwner'
    BY <2>1 DEF RuntimeInv, OpenServicesHaveAnOwner, AllClosed
  <2> QED
    BY <2>4, <2>5, <2>6, <2>7, <2>8 DEF RuntimeInv
<1> QED
  BY <1>1, <1>2, <1>3

\* A process that begins, for the first time or again.
LEMMA Begun ==
  ASSUME runtime = "stopped", stopping = "no", current = 0, gens = <<>>,
         logServices = EmptyMap, services = <<>>, drains = {},
         req = [r \in Requests |-> NoRequest], queue = [o \in Roots |-> <<>>]
  PROVE  RuntimeInv
<1>1. Typed
  BY DEF Typed, LogsOf, EmptyMap
<1>2. Handlers /\ DrainsTyped
  BY DEF Handlers, DrainsTyped, NoRequest, HandlerState
<1>3. Accepted
  BY DEF Accepted
<1>4. EntryServes /\ DrainsApart /\ Predecessor /\ OpenServicesHaveAnOwner
  BY DEF EntryServes, DrainsApart, Predecessor, OpenServicesHaveAnOwner
<1> QED
  BY <1>1, <1>2, <1>3, <1>4 DEF RuntimeInv

LEMMA CrashKeeps ==
  ASSUME Crash
  PROVE  RuntimeInv'
<1>1. Typed'
  BY DEF Crash, Typed, LogsOf, EmptyMap
<1>2. Handlers' /\ DrainsTyped'
  BY DEF Crash, Handlers, DrainsTyped, NoRequest, HandlerState
<1>3. Accepted'
  BY DEF Crash, Accepted
<1>4. EntryServes' /\ DrainsApart' /\ Predecessor' /\ OpenServicesHaveAnOwner'
  BY DEF Crash, EntryServes, DrainsApart, Predecessor, OpenServicesHaveAnOwner
<1> QED
  BY <1>1, <1>2, <1>3, <1>4 DEF RuntimeInv

LEMMA NextKeeps ==
  ASSUME RuntimeInv, [Next]_vars
  PROVE  RuntimeInv'
<1>1. ASSUME NEW r \in Requests, Handler(r) PROVE RuntimeInv'
  BY <1>1, HandlerKeeps
<1>2. ASSUME NEW o \in Roots, Save(o) PROVE RuntimeInv'
  BY <1>2, SaveKeeps
<1>3. ASSUME NEW s \in DOMAIN services, Closed(s) PROVE RuntimeInv'
  BY <1>3, ClosedKeeps
<1>4. ASSUME NEW d \in drains,
             DrainIdle(d) \/ DrainTimesOut(d) \/ DrainGivesUp(d) \/ Drained(d)
      PROVE  RuntimeInv'
  BY <1>4, DrainKeeps
<1>5. ASSUME NEW c \in Offers, BeginStart(c) \/ Reload(c) PROVE RuntimeInv'
  BY <1>5, BeginStartKeeps, ReloadKeeps
<1>6. CASE StopPair \/ StopAll \/ StopTimesOut \/ Stopped
  BY <1>6, StopKeeps
<1>7. CASE Started \/ StartFailed
  BY <1>7, StartKeeps
<1>8. CASE StartFails
  <2>1. /\ runtime = "starting" /\ current # 0 /\ current' = 0 /\ logServices' = EmptyMap
        /\ services' = Close(Range(gens[current].logs), services)
        /\ UNCHANGED <<runtime, stopping, gens, drains, req, queue>>
    BY <1>8 DEF StartFails
  <2>2. gens[current].logs = logServices
    BY <2>1 DEF RuntimeInv, EntryServes
  <2>3. stopping' \in {"no", "waiting", "forced", "logs"}
    BY <2>1 DEF RuntimeInv, Typed
  <2> QED
    BY <2>1, <2>2, <2>3, EntryClosesKeeps
<1>9. CASE ListenerClosed
  <2>1. /\ stopping \in {"waiting", "forced"} /\ stopping' = "logs"
        /\ services' = Close(Range(logServices), services)
        /\ UNCHANGED <<runtime, current, gens, logServices, drains, req, queue>>
    BY <1>9 DEF ListenerClosed
  <2>2. runtime = "stopping" /\ current = 0
    BY <2>1 DEF RuntimeInv, EntryServes
  <2> QED
    BY <2>1, <2>2, EntryClosesKeeps
<1>10. CASE Crash
  BY <1>10, CrashKeeps
<1>11. CASE UNCHANGED vars
  <2>1. /\ UNCHANGED <<runtime, stopping, current, gens, logServices, services, drains>>
        /\ UNCHANGED req /\ UNCHANGED queue
    BY <1>11 DEF vars
  <2>2. Handlers' /\ Accepted' /\ DOMAIN queue' = Roots
    BY <2>1 DEF RuntimeInv, Handlers, Accepted, Waits, Typed
  <2> QED
    BY <2>1, <2>2, HandledKeeps DEF Handled
<1> QED
  BY <1>1, <1>2, <1>3, <1>4, <1>5, <1>6, <1>7, <1>8, <1>9, <1>10, <1>11 DEF Next, Calls

-----------------------------------------------------------------------------

LEMMA RuntimeStays == Spec => []RuntimeInv
<1>1. Init => RuntimeInv
  BY Begun DEF Init
<1>2. RuntimeInv /\ [Next]_vars => RuntimeInv'
  BY NextKeeps
<1> QED
  BY <1>1, <1>2, PTL DEF Spec

(* Whatever is saved, stopped or aborted meanwhile, no log service is      *)
(* closed under a write it accepted, and none that is open is forgotten    *)
(* (proxy-runtime-registry.ts reloadPair, #drain, stopPair;                *)
(* traffic-log-service.ts close).                                          *)
THEOREM ServicesAreKeptAndClosed == Spec => []ServicesLiveAsLongAsNeeded
<1>1. RuntimeInv => ServicesLiveAsLongAsNeeded
  <2> SUFFICES ASSUME RuntimeInv PROVE NoWriteOnClosedDatabase /\ OpenServicesHaveAnOwner
    BY DEF ServicesLiveAsLongAsNeeded
  <2>1. NoWriteOnClosedDatabase
    BY DEF RuntimeInv, Accepted, Waits, NoWriteOnClosedDatabase
  <2> QED
    BY <2>1 DEF RuntimeInv
<1> QED
  BY <1>1, RuntimeStays, PTL

(* However many saves follow one another, each leaves the new pipeline and *)
(* the requests of the one before their logs, until a drain runs out of    *)
(* time (reloadPair, #drain).                                              *)
THEOREM ReloadsKeepLogs == Spec => []ReloadKeepsLogs
<1>1. RuntimeInv => ReloadKeepsLogs
  <2> SUFFICES ASSUME RuntimeInv, runtime = "running"
               PROVE  /\ LogsOpen(current)
                      /\ \A d \in drains : d.gen = current - 1 /\ d.phase # "closing" =>
                           LogsOpen(d.gen)
    BY DEF ReloadKeepsLogs
  <2>1. current # 0 /\ LogsOpen(current) /\ gens[current].logs = logServices
    BY DEF RuntimeInv, EntryServes
  <2>2. ASSUME NEW d \in drains, d.gen = current - 1, d.phase # "closing"
        PROVE  LogsOpen(d.gen)
    <3>1. Range(gens[d.gen].logs) \subseteq Range(logServices) \cup d.services
      BY <2>1, <2>2 DEF RuntimeInv, Predecessor
    <3>2. \A s \in d.services : services[s].state = "open"
      BY <2>2 DEF RuntimeInv, DrainsApart
    <3> QED
      BY <2>1, <3>1, <3>2 DEF LogsOpen
  <2> QED
    BY <2>1, <2>2
<1> QED
  BY <1>1, RuntimeStays, PTL

=============================================================================
