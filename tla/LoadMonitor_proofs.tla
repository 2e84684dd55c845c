------------------------- MODULE LoadMonitor_proofs -------------------------
(***************************************************************************)
(* The advisor among any number of engines, bindings, requests, moves and  *)
(* saves: what it suggests rests on as many different reads of an engine   *)
(* as it says, can be acted on when it is made or looked at again, and     *)
(* promises no binding and no room twice.                                  *)
(***************************************************************************)
EXTENDS LoadMonitor, FiniteSetTheorems, WellFoundedInduction, TLAPS

Sample == [seq : Nat, at : Nat, load : Loads, of : Engines]

MonitorTyped ==
  /\ now \in Nat /\ gRev \in Nat /\ cfg \in Configs
  /\ sample \in [DOMAIN cfg -> Sample \cup {NoSample}]
  /\ sequences \in [Engines -> Nat]
  /\ DOMAIN binding \subseteq Bindings
  /\ \A i \in DOMAIN binding : binding[i] \in [target : Targets, rev : Nat, busy : BOOLEAN]

\* What was counted of an imbalance: each time a read later than all before.
Looks(c) ==
  /\ c = [counted |-> c.counted, stable |-> c.stable, reads |-> c.reads]
  /\ c.counted \in Int /\ c.stable \in Nat
  /\ c.reads \subseteq Engines \X Nat /\ IsFiniteSet(c.reads)
  /\ Cardinality(c.reads) >= c.stable
  /\ \A r \in c.reads : r[2] <= c.counted

CountsAreSound == \A p \in DOMAIN stability : Looks(stability[p])

States == {"suggested", "rejected", "expired", "unused"}
Whys ==
  {"none", "episode_live", "binding_cooldown", "group_budget", "destination_commitment",
   "anti_flap", "store_full"}

Advice ==
  [inc : Bindings, src : Targets, dst : Targets, rev : Nat, gRev : Nat, at : Nat,
   state : States, reason : Whys, end : Nat, stable : Nat, reads : SUBSET (Engines \X Nat)]

Numbered(store) == IsFiniteSet(DOMAIN store) /\ DOMAIN store \subseteq Nat
Promised(store, t) == {k \in Live(store) : store[k].dst = t}

OneEpisodeEach(store) == \A k, l \in Live(store) : store[k].inc = store[l].inc => k = l
RoomForAll(store) == \A t \in Targets : Cardinality(Promised(store, t)) <= CommitmentCap

Rests(s) == s.state # "rejected" => s.stable >= StableMin /\ Cardinality(s.reads) >= s.stable

StoreIsSound(store) ==
  /\ Numbered(store)
  /\ \A k \in DOMAIN store : store[k] \in Advice /\ Rests(store[k])
  /\ OneEpisodeEach(store) /\ RoomForAll(store)

MonitorInv == MonitorTyped /\ CountsAreSound /\ StoreIsSound(suggestions)

-----------------------------------------------------------------------------
\* The least and the greatest of finitely many numbers

LEMMA LeastNatural ==
  ASSUME NEW T \in SUBSET Nat, T # {}
  PROVE  \E x \in T : \A y \in T : x <= y
<1> DEFINE R == OpToRel(<, Nat)
<1>1. IsWellFoundedOn(R, Nat)
  BY NatLessThanWellFounded
<1>2. \A x, y \in Nat : <<y, x>> \in R <=> y < x
  BY DEF OpToRel
<1> HIDE DEF R
<1>3. PICK x \in T : \A y \in T : <<y, x>> \notin R
  BY <1>1, WFMin
<1>4. ASSUME NEW y \in T
      PROVE  x <= y
  <2>1. x \in Nat /\ y \in Nat
    OBVIOUS
  <2>2. ~(y < x)
    BY <1>2, <1>3, <2>1
  <2> QED
    BY <2>1, <2>2
<1> QED
  BY <1>4

\* The element with the fewest above it is the greatest.
LEMMA GreatestNatural ==
  ASSUME NEW T \in SUBSET Nat, T # {}, IsFiniteSet(T)
  PROVE  Max(T) \in T /\ \A y \in T : y <= Max(T)
<1> DEFINE above(x) == {y \in T : y > x}
           C == {Cardinality(above(x)) : x \in T}
<1>1. \A x \in T : IsFiniteSet(above(x)) /\ Cardinality(above(x)) \in Nat
  <2> TAKE x \in T
  <2>1. above(x) \in SUBSET T
    OBVIOUS
  <2> HIDE DEF above
  <2> QED
    BY <2>1, FS_Subset, FS_CardinalityType
<1>2. C \in SUBSET Nat /\ C # {}
  <2> HIDE DEF above
  <2> QED
    BY <1>1
<1>3. PICK c \in C : \A e \in C : c <= e
  <2> HIDE DEF C
  <2> QED
    BY <1>2, LeastNatural
<1>4. PICK x \in T : c = Cardinality(above(x))
  <2> HIDE DEF above
  <2> QED
    BY <1>3
<1>5. ASSUME NEW y \in T, y > x
      PROVE  FALSE
  <2>1. above(y) \subseteq above(x) /\ y \in above(x) /\ y \notin above(y)
    <3>1. x \in Nat /\ y \in Nat /\ \A z \in T : z \in Nat
      OBVIOUS
    <3>2. \A z \in above(y) : z \in above(x)
      <4> TAKE z \in above(y)
      <4>1. z \in T /\ z > y
        OBVIOUS
      <4>2. z > x
        BY <4>1, <3>1, <1>5
      <4> QED
        BY <4>1, <4>2
    <3>3. y \in above(x)
      BY <3>1, <1>5
    <3>4. y \notin above(y)
      BY <3>1
    <3> HIDE DEF above
    <3> QED
      BY <3>2, <3>3, <3>4
  <2>2. Cardinality(above(y)) \in C
    <3> HIDE DEF above
    <3> QED
      OBVIOUS
  <2> HIDE DEF above, C
  <2>3. /\ Cardinality(above(y)) <= Cardinality(above(x))
        /\ Cardinality(above(y)) # Cardinality(above(x))
    BY <2>1, <1>1, FS_Subset
  <2> QED
    BY <1>1, <1>3, <1>4, <2>2, <2>3
<1>6. \A y \in T : x >= y
  BY <1>5
<1> QED
  BY <1>6 DEF Max

\* What holds of 0 and goes on to the next number holds up to n.
LEMMA UpTo ==
  ASSUME NEW n \in Nat, NEW T \in SUBSET (0 .. n), 0 \in T, \A m \in T : m < n => m + 1 \in T
  PROVE  T = 0 .. n
<1> DEFINE rest == (0 .. n) \ T
<1> SUFFICES ASSUME rest # {} PROVE FALSE
  OBVIOUS
<1>0. rest \in SUBSET Nat
  OBVIOUS
<1>1. PICK x \in rest : \A y \in rest : x <= y
  <2> HIDE DEF rest
  <2> QED
    BY <1>0, LeastNatural
<1>2. x # 0 /\ x \in 0 .. n /\ x - 1 \in 0 .. n /\ x - 1 < n
  BY <1>1
<1>3. x - 1 \notin rest
  BY <1>1, <1>2
<1> QED
  BY <1>1, <1>2, <1>3

-----------------------------------------------------------------------------
\* Candidates are considered each once, and no other is

LEMMA RankedAreOf ==
  ASSUME NEW S \in SUBSET (Nat \X Bindings), IsFiniteSet(S)
  PROVE  /\ Cardinality(S) \in Nat
         /\ Ranked(S) \in [1 .. Cardinality(S) -> S]
<1> DEFINE n == Cardinality(S)
           below(c) == {d \in S : Before(d, c)}
           rank == [c \in S |-> Cardinality(below(c))]
<1>0. /\ n \in Nat /\ IsFiniteSet(0 .. n - 1) /\ Cardinality(0 .. n - 1) = n
  <2>1. n \in Nat
    BY FS_CardinalityType
  <2> HIDE DEF n
  <2> QED
    BY <2>1, FS_Interval
<1>1. \A c \in S : c = <<c[1], c[2]>> /\ c[1] \in Nat /\ c[2] \in Nat /\ Cost[c[2]] \in Nat
  <2>1. Bindings \subseteq Nat /\ Cost \in [Bindings -> Nat]
    BY MonitorAssumption
  <2> HIDE DEF n, below, rank
  <2> TAKE c \in S
  <2>2. c \in Nat \X Bindings
    OBVIOUS
  <2>3. c = <<c[1], c[2]>> /\ c[1] \in Nat /\ c[2] \in Bindings
    BY <2>2
  <2> QED
    BY <2>1, <2>3
<1>2. /\ \A c \in S : ~Before(c, c)
      /\ \A c, d \in S : c # d => Before(c, d) \/ Before(d, c)
      /\ \A c, d, e \in S : Before(c, d) /\ Before(d, e) => Before(c, e)
  BY <1>1 DEF Before
<1>3. ASSUME NEW c \in S
      PROVE  IsFiniteSet(below(c)) /\ Cardinality(below(c)) \in 0 .. n - 1
  <2>1. below(c) \subseteq S \ {c}
    BY <1>2
  <2> HIDE DEF below
  <2>2. IsFiniteSet(S \ {c}) /\ Cardinality(S \ {c}) = n - 1
    BY FS_RemoveElement
  <2>3. IsFiniteSet(below(c)) /\ Cardinality(below(c)) <= n - 1 /\ Cardinality(below(c)) \in Nat
    BY <2>1, <2>2, FS_Subset, FS_CardinalityType
  <2> QED
    BY <2>3, <1>0
<1>4. ASSUME NEW c \in S, NEW d \in S, Before(c, d)
      PROVE  Cardinality(below(c)) # Cardinality(below(d))
  <2>1. below(c) \subseteq below(d) /\ c \in below(d) /\ c \notin below(c)
    BY <1>2, <1>4
  <2> HIDE DEF below
  <2>2. below(c) \in SUBSET (below(d) \ {c})
    BY <2>1
  <2>3. /\ IsFiniteSet(below(d) \ {c})
        /\ Cardinality(below(d) \ {c}) = Cardinality(below(d)) - 1
    BY <1>3, <2>1, FS_RemoveElement
  <2>4. Cardinality(below(c)) <= Cardinality(below(d)) - 1
    BY <2>2, <2>3, FS_Subset
  <2> QED
    BY <2>4, <1>3, <1>0
<1>5. rank \in Injection(S, 0 .. n - 1)
  <2>1. rank \in [S -> 0 .. n - 1]
    <3> HIDE DEF below, n
    <3> QED
      BY <1>3
  <2>2. \A c, d \in S : rank[c] = rank[d] => c = d
    <3> HIDE DEF below, n
    <3> QED
      BY <1>2, <1>4
  <2> HIDE DEF rank, n
  <2> QED
    BY <2>1, <2>2 DEF Injection, IsInjective
<1>6. rank \in Surjection(S, 0 .. n - 1)
  <2> HIDE DEF rank
  <2> QED
    BY <1>0, <1>5, FS_Injection
<1>7. \A m \in 1 .. n : \E c \in S : Cardinality(below(c)) = m - 1
  <2> TAKE m \in 1 .. n
  <2>1. m - 1 \in 0 .. n - 1
    BY <1>0
  <2>2. \E c \in S : rank[c] = m - 1
    <3> HIDE DEF rank
    <3> QED
      BY <1>6, <2>1 DEF Surjection
  <2> HIDE DEF below
  <2> QED
    BY <2>2
<1>8. \A m \in 1 .. n : (CHOOSE c \in S : Cardinality(below(c)) = m - 1) \in S
  <2> HIDE DEF below
  <2> QED
    BY <1>7
<1>9. Ranked(S) \in [1 .. n -> S]
  BY <1>8 DEF Ranked
<1> QED
  BY <1>0, <1>9

-----------------------------------------------------------------------------
\* What is read of an engine, and counted

LEMMA EnginesAre ==
  ASSUME MonitorTyped
  PROVE  /\ DOMAIN cfg \subseteq Targets /\ IsFiniteSet(DOMAIN cfg)
         /\ Present \subseteq Engines /\ IsFiniteSet(Present)
<1>1. DOMAIN cfg \subseteq Targets /\ \A t \in DOMAIN cfg : cfg[t].engine \in Engines
  BY MonitorAssumption DEF MonitorTyped
<1>2. IsFiniteSet(Targets)
  BY MonitorAssumption
<1>3. IsFiniteSet(DOMAIN cfg)
  BY <1>1, <1>2, FS_Subset
<1>4. Present \subseteq Engines
  BY <1>1 DEF Present
<1>5. [t \in DOMAIN cfg |-> cfg[t].engine] \in Surjection(DOMAIN cfg, Present)
  BY DEF Surjection, Present
<1>6. IsFiniteSet(Present)
  BY <1>3, <1>5, FS_Surjection
<1> QED
  BY <1>1, <1>3, <1>4, <1>6

LEMMA ViewIsSample ==
  ASSUME MonitorTyped, NEW e, View(e) # NoSample
  PROVE  View(e) \in Sample
<1> DEFINE sampled == {t \in TargetsOf(e) : sample[t] # NoSample}
           seq == [t \in sampled |-> sample[t].seq]
           seqs == {seq[t] : t \in sampled}
<1>1. sampled # {} /\ sampled \subseteq DOMAIN cfg
  BY DEF View, TargetsOf
<1>2. \A t \in sampled : sample[t] \in Sample
  BY <1>1 DEF MonitorTyped
<1>3. \A t \in sampled : seq[t] = sample[t].seq /\ seq[t] \in Nat
  BY <1>2 DEF Sample
<1>4. IsFiniteSet(sampled)
  BY <1>1, EnginesAre, FS_Subset
<1>5. seqs # {} /\ seqs \in SUBSET Nat
  <2> HIDE DEF sampled, seq
  <2> QED
    BY <1>1, <1>3
<1>6. IsFiniteSet(seqs)
  <2>1. seq \in Surjection(sampled, seqs)
    BY DEF Surjection
  <2> HIDE DEF sampled, seq, seqs
  <2> QED
    BY <1>4, <2>1, FS_Surjection
<1>7. Max(seqs) \in seqs /\ \A y \in seqs : y <= Max(seqs)
  <2> HIDE DEF sampled, seq, seqs
  <2> QED
    BY <1>5, <1>6, GreatestNatural
<1>8. \E t \in sampled : \A u \in sampled : sample[u].seq <= sample[t].seq
  <2>1. PICK t \in sampled : Max(seqs) = seq[t]
    BY <1>7
  <2>2. \A u \in sampled : seq[u] \in seqs
    OBVIOUS
  <2> HIDE DEF sampled, seq, seqs
  <2>3. \A u \in sampled : sample[u].seq <= sample[t].seq
    BY <1>3, <1>7, <2>1, <2>2
  <2> QED
    BY <2>3
<1>9. View(e) = sample[CHOOSE t \in sampled : \A u \in sampled : sample[u].seq <= sample[t].seq]
  BY <1>1 DEF View
<1> HIDE DEF sampled
<1> QED
  BY <1>2, <1>8, <1>9

LEMMA HeldAre ==
  ASSUME MonitorTyped
  PROVE  /\ IsFiniteSet(Held)
         /\ \A p \in Held :
              /\ Usable(p[1]) /\ Usable(p[2]) /\ View(p[1]) \in Sample
              /\ View(p[2]).load = "idle" /\ \A t \in TargetsOf(p[2]) : InFlight(t) = 0
<1>1. IsFiniteSet(Present \X Present)
  BY EnginesAre, FS_Product
<1>2. Held \subseteq Present \X Present
  BY DEF Held
<1>3. IsFiniteSet(Held)
  BY <1>1, <1>2, FS_Subset
<1>4. ASSUME NEW p \in Held
      PROVE  Usable(p[1]) /\ Usable(p[2]) /\ View(p[1]) \in Sample
             /\ View(p[2]).load = "idle" /\ \A t \in TargetsOf(p[2]) : InFlight(t) = 0
  <2>1. Usable(p[1]) /\ Idle(p[2])
    BY DEF Held, Busy
  <2>2. View(p[1]) # NoSample
    BY <2>1 DEF Usable
  <2>3. Usable(p[2]) /\ View(p[2]).load = "idle" /\ \A t \in TargetsOf(p[2]) : InFlight(t) = 0
    BY <2>1 DEF Idle
  <2> QED
    BY <2>1, <2>2, <2>3, ViewIsSample
<1> QED
  BY <1>3, <1>4

\* A read later than those that were counted is another one.
LEMMA LookCounts ==
  ASSUME MonitorTyped, NEW e, View(e) \in Sample, NEW c, Looks(c)
  PROVE  Looks(Counted(e, c))
<1> CASE ~(View(e).seq > c.counted)
  BY DEF Counted
<1> CASE View(e).seq > c.counted
  <2> DEFINE r == <<View(e).of, View(e).seq>>
             reads == c.reads \cup {r}
  <2>1. r \in Engines \X Nat /\ r[2] = View(e).seq
    BY DEF Sample
  <2>2. /\ c.counted \in Int /\ c.stable \in Nat
        /\ c.reads \subseteq Engines \X Nat /\ IsFiniteSet(c.reads)
        /\ Cardinality(c.reads) >= c.stable /\ Cardinality(c.reads) \in Nat
        /\ \A q \in c.reads : q[2] <= c.counted /\ q[2] \in Nat
    BY FS_CardinalityType DEF Looks
  <2>3. r \notin c.reads
    BY <2>1, <2>2
  <2>4. IsFiniteSet(reads) /\ Cardinality(reads) = Cardinality(c.reads) + 1
    <3> HIDE DEF r
    <3> QED
      BY <2>2, <2>3, FS_AddElement
  <2>5. \A q \in reads : q[2] <= View(e).seq
    BY <2>1, <2>2
  <2>6. reads \subseteq Engines \X Nat /\ View(e).seq \in Int
    BY <2>1, <2>2
  <2>7. Counted(e, c) = [counted |-> View(e).seq, stable |-> c.stable + 1, reads |-> reads]
    BY DEF Counted, AlsoCounted
  <2> HIDE DEF r, reads
  <2> QED
    BY <2>2, <2>4, <2>5, <2>6, <2>7 DEF Looks
<1> QED
  OBVIOUS

LEMMA StabilitySound ==
  ASSUME MonitorTyped, CountsAreSound
  PROVE  \A p \in Held : Looks(Stability[p])
<1> TAKE p \in Held
<1> DEFINE none == [counted |-> -1, stable |-> 0, reads |-> {}]
           before == IF p \in DOMAIN stability THEN stability[p] ELSE none
<1>1. Looks(none)
  <2>1. IsFiniteSet({}) /\ Cardinality({}) = 0
    BY FS_EmptySet
  <2> QED
    BY <2>1 DEF Looks
<1>2. Looks(before)
  <2> HIDE DEF none
  <2> QED
    BY <1>1 DEF CountsAreSound
<1>3. Stability[p] = Counted(p[1], before)
  BY DEF Stability
<1> HIDE DEF before
<1> QED
  BY <1>2, <1>3, HeldAre, LookCounts

-----------------------------------------------------------------------------
\* The store

AllCurrent(store) == \A k \in Live(store) : CouldBeActedOn(store[k])

\* A record as it was, or over.
Remains(r, s) ==
  /\ r \in Advice /\ r.inc = s.inc /\ r.dst = s.dst /\ r.stable = s.stable /\ r.reads = s.reads
  /\ (r.state = "rejected" <=> s.state = "rejected")
  /\ (r.state = "suggested" => r = s)

Less(less, store) ==
  DOMAIN less \subseteq DOMAIN store /\ \A k \in DOMAIN less : Remains(less[k], store[k])

LEMMA LiveAreFewer ==
  ASSUME NEW store, NEW less, Numbered(store), Less(less, store)
  PROVE  /\ Numbered(less)
         /\ Live(less) \subseteq Live(store) /\ \A k \in Live(less) : less[k] = store[k]
         /\ \A t : /\ IsFiniteSet(Promised(store, t)) /\ Cardinality(Promised(store, t)) \in Nat
                   /\ Cardinality(Promised(less, t)) \in Nat
                   /\ Cardinality(Promised(less, t)) <= Cardinality(Promised(store, t))
<1>1. Numbered(less)
  BY FS_Subset DEF Numbered, Less
<1>2. Live(less) \subseteq Live(store) /\ \A k \in Live(less) : less[k] = store[k]
  BY DEF Live, Less, Remains
<1>3. ASSUME NEW t
      PROVE  /\ IsFiniteSet(Promised(store, t)) /\ Cardinality(Promised(store, t)) \in Nat
             /\ Cardinality(Promised(less, t)) \in Nat
             /\ Cardinality(Promised(less, t)) <= Cardinality(Promised(store, t))
  <2>1. Promised(less, t) \subseteq Promised(store, t)
    BY <1>2 DEF Promised
  <2>2. Promised(store, t) \subseteq DOMAIN store
    BY DEF Promised, Live
  <2>3. IsFiniteSet(Promised(store, t))
    BY <2>2, FS_Subset DEF Numbered
  <2> QED
    BY <2>1, <2>3, FS_Subset, FS_CardinalityType
<1> QED
  BY <1>1, <1>2, <1>3

LEMMA SoundWhenLess ==
  ASSUME NEW store, NEW less, StoreIsSound(store), Less(less, store)
  PROVE  StoreIsSound(less) /\ (AllCurrent(store) => AllCurrent(less))
<1>1. /\ Numbered(less)
      /\ Live(less) \subseteq Live(store) /\ \A k \in Live(less) : less[k] = store[k]
      /\ \A t : /\ Cardinality(Promised(store, t)) \in Nat
                /\ Cardinality(Promised(less, t)) \in Nat
                /\ Cardinality(Promised(less, t)) <= Cardinality(Promised(store, t))
  BY LiveAreFewer DEF StoreIsSound
<1>2. \A k \in DOMAIN less : less[k] \in Advice /\ Rests(less[k])
  BY DEF StoreIsSound, Less, Remains, Rests
<1>3. OneEpisodeEach(less)
  BY <1>1 DEF StoreIsSound, OneEpisodeEach
<1>4. RoomForAll(less)
  <2>1. CommitmentCap \in Nat
    BY MonitorAssumption
  <2> QED
    BY <1>1, <2>1 DEF StoreIsSound, RoomForAll
<1>5. AllCurrent(store) => AllCurrent(less)
  BY <1>1 DEF AllCurrent
<1> QED
  BY <1>1, <1>2, <1>3, <1>4, <1>5 DEF StoreIsSound

LEMMA EndedRemains ==
  ASSUME MonitorTyped, NEW s \in Advice, s.state # "rejected", NEW state \in {"expired", "unused"}
  PROVE  Remains(Ended(s, state), s)
BY DEF MonitorTyped, Advice, States, Ended, Remains

LEMMA PrunedIsLess ==
  ASSUME MonitorTyped, NEW store, StoreIsSound(store)
  PROVE  Less(Pruned(store), store)
<1> DEFINE old == {k \in Terminals(store) : now - store[k].end >= Retention}
           unused(k) == k \in Live(store) /\ now - store[k].at >= Retention
<1>1. /\ DOMAIN Pruned(store) = DOMAIN store \ old
      /\ \A k \in DOMAIN store \ old :
           Pruned(store)[k] = IF unused(k) THEN Ended(store[k], "unused") ELSE store[k]
  BY DEF Pruned
<1>2. ASSUME NEW k \in DOMAIN store
      PROVE  Remains(IF unused(k) THEN Ended(store[k], "unused") ELSE store[k], store[k])
  <2>1. store[k] \in Advice
    BY DEF StoreIsSound
  <2>2. CASE unused(k)
    BY <2>1, <2>2, EndedRemains DEF Live
  <2>3. CASE ~unused(k)
    BY <2>1, <2>3 DEF Remains
  <2> QED
    BY <2>2, <2>3
<1> HIDE DEF old, unused
<1> QED
  BY <1>1, <1>2 DEF Less

\* What is looked over could be acted on.
LEMMA CheckedIsLess ==
  ASSUME MonitorTyped, NEW store, StoreIsSound(store)
  PROVE  Less(Checked(store), store) /\ AllCurrent(Checked(store))
<1> DEFINE ends(k) == k \in Live(store) /\ ~PremiseHolds(store[k])
<1>1. /\ DOMAIN Checked(store) = DOMAIN store
      /\ \A k \in DOMAIN store :
           Checked(store)[k] = IF ends(k) THEN Ended(store[k], "expired") ELSE store[k]
  BY DEF Checked
<1>2. ASSUME NEW k \in DOMAIN store
      PROVE  Remains(IF ends(k) THEN Ended(store[k], "expired") ELSE store[k], store[k])
  <2>1. store[k] \in Advice
    BY DEF StoreIsSound
  <2>2. CASE ends(k)
    BY <2>1, <2>2, EndedRemains DEF Live
  <2>3. CASE ~ends(k)
    BY <2>1, <2>3 DEF Remains
  <2> QED
    BY <2>2, <2>3
<1>3. Less(Checked(store), store)
  <2> HIDE DEF ends
  <2> QED
    BY <1>1, <1>2 DEF Less
<1>4. ASSUME NEW k \in Live(Checked(store))
      PROVE  CouldBeActedOn(Checked(store)[k])
  <2>1. k \in DOMAIN store /\ Checked(store)[k].state = "suggested"
    BY <1>1 DEF Live
  <2>2. ~ends(k)
    <3>1. store[k] \in Advice
      BY <2>1 DEF StoreIsSound
    <3>2. Ended(store[k], "expired").state = "expired"
      BY <3>1 DEF Ended, Advice
    <3> QED
      BY <1>1, <2>1, <3>2
  <2>3. Checked(store)[k] = store[k] /\ k \in Live(store)
    BY <1>1, <2>1, <2>2 DEF Live
  <2>4. PremiseHolds(store[k])
    BY <2>2, <2>3
  <2> QED
    BY <2>3, <2>4 DEF PremiseHolds, CouldBeActedOn, Eligible
<1> QED
  BY <1>3, <1>4 DEF AllCurrent

LEMMA RoomIsLess ==
  ASSUME NEW store, StoreIsSound(store)
  PROVE  Less(RoomIn(store), store)
<1>1. \A k \in DOMAIN store : Remains(store[k], store[k])
  BY DEF StoreIsSound, Remains
<1>2. CASE RoomIn(store) = store
  BY <1>1, <1>2 DEF Less
<1>3. ASSUME NEW S, RoomIn(store) = Without(store, S)
      PROVE  Less(RoomIn(store), store)
  BY <1>1, <1>3 DEF Less, Without
<1> QED
  BY <1>2, <1>3 DEF RoomIn

LEMMA NextIsNew ==
  ASSUME NEW store, Numbered(store)
  PROVE  NextNumber(store) \in Nat /\ NextNumber(store) \notin DOMAIN store
<1> DEFINE N == DOMAIN store \cup {0}
<1>1. N \in SUBSET Nat /\ N # {} /\ IsFiniteSet(N)
  BY FS_AddElement DEF Numbered
<1>2. Max(N) \in N /\ \A y \in N : y <= Max(N)
  <2> HIDE DEF N
  <2> QED
    BY <1>1, GreatestNatural
<1>3. NextNumber(store) = 1 + Max(N) /\ Max(N) \in Nat
  BY <1>1, <1>2 DEF NextNumber
<1> QED
  BY <1>2, <1>3

\* A suggestion is new, has room, and could be acted on; or nothing follows from it.
MayJoin(store, s) ==
  /\ s \in Advice /\ Rests(s) /\ s.state \in {"rejected", "suggested"}
  /\ s.state = "suggested" =>
       ~EpisodeLive(store, s.inc) /\ ~Committed(store, s.dst) /\ CouldBeActedOn(s)

LEMMA JoinsLess ==
  ASSUME NEW store, NEW less, StoreIsSound(store), Less(less, store), NEW s, MayJoin(store, s)
  PROVE  MayJoin(less, s)
<1>1. /\ Live(less) \subseteq Live(store) /\ \A k \in Live(less) : less[k] = store[k]
      /\ Cardinality(Promised(store, s.dst)) \in Nat /\ Cardinality(Promised(less, s.dst)) \in Nat
      /\ Cardinality(Promised(less, s.dst)) <= Cardinality(Promised(store, s.dst))
  BY LiveAreFewer DEF StoreIsSound
<1>2. CommitmentCap \in Nat
  BY MonitorAssumption
<1>3. ~EpisodeLive(store, s.inc) => ~EpisodeLive(less, s.inc)
  BY <1>1 DEF EpisodeLive
<1>4. ~Committed(store, s.dst) => ~Committed(less, s.dst)
  BY <1>1, <1>2 DEF Committed, Promised
<1> QED
  BY <1>3, <1>4 DEF MayJoin

LEMMA SoundWith ==
  ASSUME NEW store, StoreIsSound(store), AllCurrent(store), NEW s, MayJoin(store, s)
  PROVE  StoreIsSound(With(store, s)) /\ AllCurrent(With(store, s))
<1> DEFINE n == NextNumber(store)
           more == With(store, s)
<1>1. n \in Nat /\ n \notin DOMAIN store
  BY NextIsNew DEF StoreIsSound
<1>2. /\ DOMAIN more = DOMAIN store \cup {n} /\ more[n] = s
      /\ \A k \in DOMAIN store : more[k] = store[k]
  BY <1>1 DEF With, Put
<1> HIDE DEF n, more
<1>3. Numbered(more)
  BY <1>1, <1>2, FS_AddElement DEF StoreIsSound, Numbered
<1>4. \A k \in DOMAIN more : more[k] \in Advice /\ Rests(more[k])
  BY <1>2 DEF StoreIsSound, MayJoin
<1>5. Live(more) = Live(store) \cup (IF s.state = "suggested" THEN {n} ELSE {})
  BY <1>1, <1>2 DEF Live
<1>6. \A k \in Live(store) : k # n /\ more[k] = store[k]
  BY <1>1, <1>2 DEF Live
<1>7. OneEpisodeEach(more)
  BY <1>2, <1>5, <1>6 DEF OneEpisodeEach, StoreIsSound, MayJoin, EpisodeLive
<1>8. ASSUME NEW t \in Targets
      PROVE  Cardinality(Promised(more, t)) <= CommitmentCap
  <2>1. CASE s.state = "suggested" /\ s.dst = t
    <3>1. Promised(more, t) = Promised(store, t) \cup {n} /\ n \notin Promised(store, t)
      BY <1>2, <1>5, <1>6, <2>1 DEF Promised
    <3>2. IsFiniteSet(Promised(store, t)) /\ Cardinality(Promised(store, t)) \in Nat
      <4>1. Promised(store, t) \subseteq DOMAIN store
        BY DEF Promised, Live
      <4> QED
        BY <4>1, FS_Subset, FS_CardinalityType DEF StoreIsSound, Numbered
    <3>3. Cardinality(Promised(more, t)) = Cardinality(Promised(store, t)) + 1
      BY <3>1, <3>2, FS_AddElement
    <3>4. ~(Cardinality(Promised(store, t)) >= CommitmentCap)
      BY <2>1 DEF MayJoin, Committed, Promised
    <3>5. CommitmentCap \in Nat
      BY MonitorAssumption
    <3> QED
      BY <3>2, <3>3, <3>4, <3>5
  <2>2. CASE ~(s.state = "suggested" /\ s.dst = t)
    <3>1. Promised(more, t) = Promised(store, t)
      BY <1>2, <1>5, <1>6, <2>2 DEF Promised
    <3> QED
      BY <3>1 DEF StoreIsSound, RoomForAll
  <2> QED
    BY <2>1, <2>2
<1>9. AllCurrent(more)
  BY <1>2, <1>5, <1>6 DEF AllCurrent, MayJoin
<1> QED
  BY <1>3, <1>4, <1>7, <1>8, <1>9 DEF StoreIsSound, RoomForAll, more

-----------------------------------------------------------------------------
\* One candidate

LEMMA NotRefused ==
  ASSUME NEW st, NEW i, NEW e, NEW f
  PROVE  /\ Refusal(st, i, e, f) \in Whys
         /\ Refusal(st, i, e, f) = "none" =>
              ~EpisodeLive(st.store, i) /\ ~Committed(st.store, Destination(i, f))
<1> DEFINE hits == {n \in DOMAIN Reasons : Refuses(Reasons[n], st, i, e, f)}
           first == CHOOSE n \in hits : \A m \in hits : n <= m
<1>1. DOMAIN Reasons = 1 .. 6 /\ \A n \in 1 .. 6 : Reasons[n] \in Whys \ {"none"}
  BY DEF Reasons, Whys
<1>2. Reasons[1] = "episode_live" /\ Reasons[4] = "destination_commitment"
  BY DEF Reasons
<1>3. EpisodeLive(st.store, i) => 1 \in hits
  BY <1>1, <1>2 DEF Refuses
<1>4. Committed(st.store, Destination(i, f)) => 4 \in hits
  BY <1>1, <1>2 DEF Refuses
<1>5. hits \subseteq 1 .. 6
  BY <1>1
<1>6. Refusal(st, i, e, f) = IF hits = {} THEN "none" ELSE Reasons[first]
  BY DEF Refusal
<1> HIDE DEF hits
<1>7. hits # {} => first \in hits
  <2>1. hits \in SUBSET Nat
    BY <1>5
  <2> QED
    BY <2>1, LeastNatural
<1> HIDE DEF first
<1>8. hits # {} => Refusal(st, i, e, f) # "none" /\ Refusal(st, i, e, f) \in Whys
  BY <1>1, <1>5, <1>6, <1>7
<1>9. Refusal(st, i, e, f) \in Whys
  BY <1>6, <1>8 DEF Whys
<1>10. ASSUME Refusal(st, i, e, f) = "none"
       PROVE  ~EpisodeLive(st.store, i) /\ ~Committed(st.store, Destination(i, f))
  <2>1. hits = {}
    BY <1>8, <1>10
  <2> QED
    BY <1>3, <1>4, <2>1
<1> QED
  BY <1>9, <1>10

Tried(x) ==
  /\ x = [store |-> x.store, mem |-> x.mem, made |-> x.made, full |-> x.full]
  /\ StoreIsSound(x.store) /\ AllCurrent(x.store)

\* A binding that would leave by an imbalance that is stable
Candidate(p, i) ==
  /\ p \in Held /\ Stability[p].stable >= StableMin
  /\ i \in DOMAIN binding /\ MayMove(i, p[1], p[2])

LEMMA CandidateMayJoin ==
  ASSUME MonitorTyped, CountsAreSound, NEW p, NEW i, Candidate(p, i),
         NEW state \in {"rejected", "suggested"}, NEW reason \in Whys
  PROVE  LET s == Suggestion(i, Destination(i, p[2]), state, reason, Stability[p])
         IN /\ s \in Advice /\ Rests(s) /\ s.state = state /\ s.inc = i
            /\ s.dst = Destination(i, p[2]) /\ CouldBeActedOn(s)
<1> DEFINE t == Destination(i, p[2])
           c == Stability[p]
           s == Suggestion(i, t, state, reason, c)
<1>1. /\ Usable(p[1]) /\ Usable(p[2]) /\ View(p[2]).load = "idle"
      /\ \A u \in TargetsOf(p[2]) : InFlight(u) = 0
  BY HeldAre DEF Candidate
<1>2. t \in TargetsOf(p[2]) /\ Eligible(i, t)
  BY DEF Candidate, MayMove, Destination
<1>3. cfg[binding[i].target].engine = p[1] /\ i \in DOMAIN binding
  BY DEF Candidate, MayMove
<1>4. Looks(c) /\ c.stable >= StableMin
  BY StabilitySound DEF Candidate
<1>5. t \in DOMAIN cfg /\ cfg[t].engine = p[2] /\ cfg[t].enabled /\ t \in Targets
  BY <1>2, EnginesAre DEF TargetsOf, Eligible
<1>6. binding[i].target \in Targets /\ binding[i].rev \in Nat /\ i \in Bindings
  BY <1>3 DEF MonitorTyped
<1> HIDE DEF t, c
<1>7. s = [inc |-> i, src |-> binding[i].target, dst |-> t, rev |-> binding[i].rev, gRev |-> gRev,
           at |-> now, state |-> state, reason |-> reason, end |-> now,
           stable |-> c.stable, reads |-> c.reads]
  BY DEF Suggestion
<1>8. s \in Advice
  BY <1>4, <1>5, <1>6, <1>7 DEF Advice, States, MonitorTyped, Looks
<1>9. Rests(s)
  BY <1>4, <1>7 DEF Rests, Looks
<1>10. CouldBeActedOn(s)
  BY <1>1, <1>2, <1>3, <1>5, <1>7 DEF CouldBeActedOn
<1> QED
  BY <1>7, <1>8, <1>9, <1>10 DEF t, c

LEMMA ConsideredIsTried ==
  ASSUME MonitorTyped, CountsAreSound, NEW x, Tried(x), NEW n, NEW p, NEW i, Candidate(p, i)
  PROVE  Tried(Considered(x, n, p, i))
<1> DEFINE t == Destination(i, p[2])
           refusal == Refusal(x, i, p[1], p[2])
           advice(state, reason) == Suggestion(i, t, state, reason, Stability[p])
           room == RoomIn(x.store)
<1>1. refusal \in Whys /\ "none" \in Whys
  BY NotRefused DEF Whys
<1>2. MayJoin(x.store, advice("rejected", refusal))
  BY <1>1, CandidateMayJoin DEF MayJoin
<1>3. refusal = "none" => MayJoin(x.store, advice("suggested", "none"))
  BY <1>1, CandidateMayJoin, NotRefused DEF MayJoin
<1>4. /\ Less(room, x.store) /\ StoreIsSound(room) /\ AllCurrent(room)
      /\ StoreIsSound(x.store)
  BY RoomIsLess, SoundWhenLess DEF Tried
<1> HIDE DEF refusal, room, advice
<1>5. /\ StoreIsSound(With(room, advice("rejected", refusal)))
      /\ AllCurrent(With(room, advice("rejected", refusal)))
  BY <1>2, <1>4, JoinsLess, SoundWith
<1>6. refusal = "none" => /\ StoreIsSound(With(room, advice("suggested", "none")))
                          /\ AllCurrent(With(room, advice("suggested", "none")))
  BY <1>3, <1>4, JoinsLess, SoundWith
<1>7. ASSUME NEW y, y = [x EXCEPT !.full = n]
      PROVE  Tried(y)
  BY <1>7 DEF Tried
<1>8. ASSUME NEW s, StoreIsSound(s), AllCurrent(s), NEW y, y = [x EXCEPT !.store = s]
      PROVE  Tried(y)
  BY <1>8 DEF Tried
<1>9. CASE refusal # "none"
  <2>1. /\ Considered(x, n, p, i) = IF x.made \/ x.full = n THEN x
                                    ELSE Rejected(x, n, i, t, refusal, Stability[p])
    BY <1>9 DEF Considered, refusal
  <2>2. \/ Rejected(x, n, i, t, refusal, Stability[p]) = [x EXCEPT !.full = n]
        \/ Rejected(x, n, i, t, refusal, Stability[p]) = [x EXCEPT !.store = room]
        \/ Rejected(x, n, i, t, refusal, Stability[p]) =
             [x EXCEPT !.store = With(room, advice("rejected", refusal))]
    BY DEF Rejected, room, advice
  <2> QED
    BY <2>1, <2>2, <1>4, <1>5, <1>7, <1>8
<1>10. CASE refusal = "none"
  <2> DEFINE mem == x.mem \cup {[inc |-> i, from |-> p[1], to |-> p[2], at |-> now]}
             s == With(room, advice("suggested", "none"))
             y == [store |-> s, mem |-> mem, made |-> TRUE, full |-> x.full]
  <2>1. Considered(x, n, p, i) = IF x.made \/ x.full = n THEN x ELSE y
    BY <1>10 DEF Considered, refusal, room, advice, Tried
  <2>2. StoreIsSound(s) /\ AllCurrent(s)
    BY <1>6, <1>10
  <2> HIDE DEF mem, s
  <2>4. Tried(y)
    BY <2>2 DEF Tried
  <2> QED
    BY <2>1, <2>4
<1> QED
  BY <1>9, <1>10

-----------------------------------------------------------------------------
\* One after the other

LEMMA AfterAllIsTried ==
  ASSUME MonitorTyped, CountsAreSound, NEW store, StoreIsSound(store), AllCurrent(store),
         NEW stable, NEW N \in Nat, NEW ranked, Len(ranked) = N,
         \A m \in 1 .. N : Candidate(stable[ranked[m][1]], ranked[m][2])
  PROVE  Tried(AfterAll(store, stable, ranked))
<1> DEFINE base == [store |-> store, mem |-> memory, made |-> FALSE, full |-> 0]
           step(x, m) == Considered(x, ranked[m][1], stable[ranked[m][1]], ranked[m][2])
           runs(g, k) == g = [m \in 0 .. k |-> IF m = 0 THEN base ELSE step(g[m - 1], m)]
           T == {k \in 0 .. N : \E g : runs(g, k)}
           after == CHOOSE g : runs(g, N)
           U == {k \in 0 .. N : Tried(after[k])}
<1>1. Tried(base)
  BY DEF Tried
<1>2. ASSUME NEW x, Tried(x), NEW m \in 1 .. N
      PROVE  Tried(step(x, m))
  BY <1>2, ConsideredIsTried
<1>3. AfterAll(store, stable, ranked) = after[N]
  BY DEF AfterAll
<1> HIDE DEF base, step
<1>4. 0 \in T
  <2> DEFINE g == [m \in 0 .. 0 |-> base]
  <2>1. runs(g, 0)
    OBVIOUS
  <2> HIDE DEF g, runs
  <2> QED
    BY <2>1
<1>5. ASSUME NEW k \in T, k < N
      PROVE  k + 1 \in T
  <2>1. PICK g : runs(g, k)
    OBVIOUS
  <2> DEFINE h == [m \in 0 .. k + 1 |-> IF m = k + 1 THEN step(g[k], k + 1) ELSE g[m]]
  <2>2. \A m \in 0 .. k + 1 : h[m] = IF m = k + 1 THEN step(g[k], k + 1) ELSE g[m]
    OBVIOUS
  <2>3. \A m \in 0 .. k : g[m] = IF m = 0 THEN base ELSE step(g[m - 1], m)
    BY <2>1
  <2>4. \A m \in 0 .. k + 1 : h[m] = IF m = 0 THEN base ELSE step(h[m - 1], m)
    <3> TAKE m \in 0 .. k + 1
    <3> HIDE DEF h
    <3>1. CASE m = k + 1
      <4>1. m # 0 /\ m - 1 = k /\ k \in 0 .. k + 1 /\ k # k + 1
        BY <3>1
      <4> QED
        BY <2>2, <3>1, <4>1
    <3>2. CASE m # k + 1 /\ m # 0
      <4>1. m \in 0 .. k /\ m - 1 \in 0 .. k + 1 /\ m - 1 # k + 1
        BY <3>2
      <4> QED
        BY <2>2, <2>3, <3>2, <4>1
    <3>3. CASE m = 0
      BY <2>2, <2>3, <3>3
    <3> QED
      BY <3>1, <3>2, <3>3
  <2>5. h = [m \in 0 .. k + 1 |-> h[m]]
    OBVIOUS
  <2>6. runs(h, k + 1)
    <3> HIDE DEF h
    <3> QED
      BY <2>4, <2>5
  <2> HIDE DEF h, runs
  <2> QED
    BY <2>6, <1>5
<1>6. runs(after, N)
  <2>1. N \in T
    <3>1. T \subseteq 0 .. N
      OBVIOUS
    <3> HIDE DEF T
    <3>2. T = 0 .. N
      BY <1>4, <1>5, <3>1, UpTo
    <3> QED
      BY <3>2
  <2> HIDE DEF runs
  <2> QED
    BY <2>1
<1> HIDE DEF after
<1>7. \A m \in 0 .. N : after[m] = IF m = 0 THEN base ELSE step(after[m - 1], m)
  BY <1>6
<1>8. 0 \in U
  BY <1>1, <1>7
<1>9. ASSUME NEW k \in U, k < N
      PROVE  k + 1 \in U
  <2>1. k + 1 \in 1 .. N /\ k + 1 \in 0 .. N /\ k + 1 # 0 /\ (k + 1) - 1 = k
    BY <1>9
  <2>2. after[k + 1] = step(after[k], k + 1)
    BY <1>7, <2>1
  <2> QED
    BY <1>2, <2>1, <2>2
<1>10. U = 0 .. N
  <2>1. U \subseteq 0 .. N
    OBVIOUS
  <2> HIDE DEF U
  <2> QED
    BY <1>8, <1>9, <2>1, UpTo
<1> QED
  BY <1>3, <1>10

\* What a tick leaves is sound, and could be acted on.
LEMMA AdvisedStore ==
  ASSUME MonitorInv, RunAdvisor
  PROVE  /\ \A s : suggestions' = s => StoreIsSound(s) /\ AllCurrent(s)
         /\ \A p : stability' = p => \A q \in DOMAIN p : Looks(p[q])
<1> DEFINE ripe == {p \in Held : Stability[p].stable >= StableMin}
           store == Checked(Pruned(suggestions))
<1>1. PICK stable \in SetToSeqs(ripe), active \in SUBSET DOMAIN binding :
        LET candidates == {c \in (DOMAIN stable) \X active :
                             MayMove(c[2], stable[c[1]][1], stable[c[1]][2])}
        IN suggestions' = AfterAll(store, stable, Ranked(candidates)).store
  BY DEF RunAdvisor
<1> DEFINE candidates == {c \in (DOMAIN stable) \X active :
                            MayMove(c[2], stable[c[1]][1], stable[c[1]][2])}
           N == Cardinality(candidates)
           ranked == Ranked(candidates)
<1>2. StoreIsSound(store) /\ AllCurrent(store)
  <2>1. StoreIsSound(Pruned(suggestions))
    BY PrunedIsLess, SoundWhenLess DEF MonitorInv
  <2> QED
    BY <2>1, CheckedIsLess, SoundWhenLess DEF MonitorInv
<1>3. Cardinality(ripe) \in Nat /\ DOMAIN stable = 1 .. Cardinality(ripe)
      /\ \A n \in DOMAIN stable : stable[n] \in ripe
  <2>1. IsFiniteSet(ripe)
    BY HeldAre, FS_Subset DEF MonitorInv
  <2> HIDE DEF ripe
  <2>2. Cardinality(ripe) \in Nat
    BY <2>1, FS_CardinalityType
  <2>3. stable \in [1 .. Cardinality(ripe) -> ripe]
    BY DEF SetToSeqs
  <2> QED
    BY <2>2, <2>3
<1>4. active \subseteq Bindings /\ IsFiniteSet(active)
  <2>1. IsFiniteSet(Bindings) /\ DOMAIN binding \subseteq Bindings
    BY MonitorAssumption DEF MonitorInv, MonitorTyped
  <2> QED
    BY <2>1, FS_Subset
<1>5. candidates \in SUBSET (Nat \X Bindings) /\ IsFiniteSet(candidates)
  <2>1. IsFiniteSet(DOMAIN stable) /\ DOMAIN stable \subseteq Nat
    <3> HIDE DEF ripe
    <3> QED
      BY <1>3, FS_Interval
  <2>2. IsFiniteSet((DOMAIN stable) \X active)
    BY <1>4, <2>1, FS_Product
  <2>3. candidates \in SUBSET ((DOMAIN stable) \X active)
    OBVIOUS
  <2>4. IsFiniteSet(candidates)
    <3> HIDE DEF candidates
    <3> QED
      BY <2>2, <2>3, FS_Subset
  <2>5. candidates \subseteq Nat \X Bindings
    BY <1>4, <2>1
  <2> QED
    BY <2>4, <2>5
<1>6. N \in Nat /\ ranked \in [1 .. N -> candidates]
  <2> HIDE DEF candidates
  <2> QED
    BY <1>5, RankedAreOf
<1>7. \A c \in candidates : Candidate(stable[c[1]], c[2])
  <2> TAKE c \in candidates
  <2>1. c[1] \in DOMAIN stable /\ c[2] \in DOMAIN binding
        /\ MayMove(c[2], stable[c[1]][1], stable[c[1]][2])
    OBVIOUS
  <2>2. stable[c[1]] \in Held /\ Stability[stable[c[1]]].stable >= StableMin
    BY <1>3, <2>1
  <2> QED
    BY <2>1, <2>2 DEF Candidate
<1> HIDE DEF candidates, N, ranked
<1>8. Len(ranked) = N /\ \A m \in 1 .. N : Candidate(stable[ranked[m][1]], ranked[m][2])
  BY <1>6, <1>7
<1> HIDE DEF store
<1>9. Tried(AfterAll(store, stable, ranked))
  BY <1>2, <1>6, <1>8, AfterAllIsTried DEF MonitorInv
<1>10. suggestions' = AfterAll(store, stable, ranked).store
  BY <1>1 DEF candidates, ranked
<1>11. \A q \in DOMAIN Stability : Looks(Stability[q])
  <2>1. DOMAIN Stability = Held
    BY DEF Stability
  <2> QED
    BY <2>1, StabilitySound DEF MonitorInv
<1>12. stability' = Stability \/ stability' = EmptyMap
  BY DEF RunAdvisor
<1> QED
  BY <1>9, <1>10, <1>11, <1>12 DEF Tried, EmptyMap

-----------------------------------------------------------------------------
\* The other steps

LEMMA MonitorInit == ASSUME Init PROVE MonitorInv
<1>1. MonitorTyped
  <2>1. /\ cfg \in Configs /\ now = 0 /\ gRev = 1
        /\ sample = [t \in DOMAIN cfg |-> NoSample] /\ sequences = [e \in Engines |-> 0]
    BY DEF Init
  <2>2. /\ DOMAIN binding \subseteq Bindings
        /\ \A i \in DOMAIN binding : binding[i] \in [target : Targets, rev : Nat, busy : BOOLEAN]
    <3>1. binding = [i \in {i \in Bindings : Home[i] \in DOMAIN cfg} |->
                       [target |-> Home[i], rev |-> 1, busy |-> FALSE]]
      BY DEF Init
    <3>2. Home \in [Bindings -> Targets]
      BY MonitorAssumption
    <3> QED
      BY <3>1, <3>2
  <2> QED
    BY <2>1, <2>2 DEF MonitorTyped
<1>2. CountsAreSound
  BY DEF Init, EmptyMap, CountsAreSound
<1>3. StoreIsSound(suggestions)
  <2>1. DOMAIN suggestions = {} /\ Live(suggestions) = {}
    BY DEF Init, EmptyMap, Live
  <2>2. \A t : Promised(suggestions, t) = {}
    BY <2>1 DEF Promised
  <2>3. CommitmentCap \in Nat
    BY MonitorAssumption
  <2>4. \A t \in Targets : Cardinality(Promised(suggestions, t)) = 0
    BY <2>2, FS_EmptySet
  <2>5. RoomForAll(suggestions)
    BY <2>3, <2>4 DEF RoomForAll
  <2>6. Numbered(suggestions)
    BY <2>1, FS_EmptySet DEF Numbered
  <2> QED
    BY <2>1, <2>5, <2>6 DEF StoreIsSound, OneEpisodeEach
<1> QED
  BY <1>1, <1>2, <1>3 DEF MonitorInv

\* Where the advisor does nothing its part stays as it is.
LEMMA AdviceStays ==
  ASSUME MonitorInv, UNCHANGED advisor
  PROVE  CountsAreSound' /\ StoreIsSound(suggestions)'
BY DEF MonitorInv, advisor, CountsAreSound, StoreIsSound, Looks, Numbered, Rests, OneEpisodeEach,
       RoomForAll, Promised, Live

LEMMA ReadStep ==
  ASSUME MonitorInv, NEW e \in Engines, StartRead(e) \/ ReadFails(e) \/ \E load \in Loads : ReadAnswers(e, load)
  PROVE  MonitorInv'
<1>1. UNCHANGED <<now, gRev, cfg, binding>> /\ UNCHANGED advisor
  BY DEF StartRead, ReadFails, ReadAnswers, advisor
<1>2. sequences' \in [Engines -> Nat]
  <2>1. sequences \in [Engines -> Nat]
    BY DEF MonitorInv, MonitorTyped
  <2>2. sequences' = sequences \/ sequences' = [sequences EXCEPT ![e] = sequences[e] + 1]
    BY DEF StartRead, ReadFails, ReadAnswers, NextSequence
  <2> QED
    BY <2>1, <2>2
<1>3. sample' \in [DOMAIN cfg -> Sample \cup {NoSample}]
  <2>1. sample \in [DOMAIN cfg -> Sample \cup {NoSample}]
    BY DEF MonitorInv, MonitorTyped
  <2>2. ASSUME NEW s \in Sample \cup {NoSample}
        PROVE  SetSample(e, s) \in [DOMAIN cfg -> Sample \cup {NoSample}]
    BY <2>1 DEF SetSample
  <2>3. ASSUME NEW load \in Loads
        PROVE  [seq |-> NextSequence(e), at |-> now, load |-> load, of |-> e] \in Sample
    BY DEF NextSequence, Sample, MonitorInv, MonitorTyped
  <2> QED
    BY <2>1, <2>2, <2>3 DEF StartRead, ReadFails, ReadAnswers
<1>4. MonitorTyped'
  BY <1>1, <1>2, <1>3 DEF MonitorInv, MonitorTyped
<1> QED
  BY <1>1, <1>4, AdviceStays DEF MonitorInv

LEMMA BindingStep ==
  ASSUME MonitorInv, NEW i \in DOMAIN binding,
         RequestStarts(i) \/ RequestEnds(i) \/ Gone(i) \/ \E t \in Targets : Moved(i, t)
  PROVE  MonitorInv'
<1>1. UNCHANGED <<now, gRev, cfg, sample, sequences>> /\ UNCHANGED advisor
  BY DEF RequestStarts, RequestEnds, Gone, Moved, advisor
<1> DEFINE B == [target : Targets, rev : Nat, busy : BOOLEAN]
<1>2. DOMAIN binding \subseteq Bindings /\ \A j \in DOMAIN binding : binding[j] \in B
  BY DEF MonitorInv, MonitorTyped
<1>3. DOMAIN binding' \subseteq Bindings /\ \A j \in DOMAIN binding' : binding'[j] \in B
  <2>1. CASE RequestStarts(i) \/ RequestEnds(i)
    BY <1>2, <2>1 DEF RequestStarts, RequestEnds
  <2>2. CASE Gone(i)
    BY <1>2, <2>2 DEF Gone, Without
  <2>3. ASSUME NEW t \in Targets, Moved(i, t)
        PROVE  DOMAIN binding' \subseteq Bindings /\ \A j \in DOMAIN binding' : binding'[j] \in B
    <3>1. binding' = [binding EXCEPT ![i].target = t, ![i].rev = @ + 1]
      BY <2>3 DEF Moved
    <3>2. /\ DOMAIN binding' = DOMAIN binding
          /\ \A j \in DOMAIN binding : j # i => binding'[j] = binding[j]
          /\ binding'[i] = [target |-> t, rev |-> binding[i].rev + 1, busy |-> binding[i].busy]
      BY <1>2, <3>1
    <3>3. binding'[i] \in B
      BY <1>2, <3>2
    <3> QED
      BY <1>2, <3>2, <3>3
  <2> QED
    BY <2>1, <2>2, <2>3
<1>4. MonitorTyped'
  BY <1>1, <1>3 DEF MonitorInv, MonitorTyped
<1> QED
  BY <1>1, <1>4, AdviceStays DEF MonitorInv

LEMMA SaveStep ==
  ASSUME MonitorInv, NEW c \in Configs, Reconfigure(c)
  PROVE  MonitorInv'
<1>1. UNCHANGED <<now, sequences>> /\ UNCHANGED advisor /\ cfg' = c /\ gRev' = gRev + 1
  BY DEF Reconfigure, advisor
<1>2. sample' \in [DOMAIN cfg' -> Sample \cup {NoSample}]
  BY <1>1 DEF Reconfigure, MonitorInv, MonitorTyped
<1>3. /\ DOMAIN binding' \subseteq Bindings
      /\ \A i \in DOMAIN binding' : binding'[i] \in [target : Targets, rev : Nat, busy : BOOLEAN]
  BY DEF Reconfigure, Without, MonitorInv, MonitorTyped
<1>4. MonitorTyped'
  BY <1>1, <1>2, <1>3 DEF MonitorInv, MonitorTyped
<1> QED
  BY <1>1, <1>4, AdviceStays DEF MonitorInv

LEMMA AdvisorStep ==
  ASSUME MonitorInv, RunAdvisor
  PROVE  MonitorInv' /\ \A k \in Live(suggestions') : CouldBeActedOn(suggestions'[k])
<1>1. MonitorTyped'
  BY DEF RunAdvisor, MonitorInv, MonitorTyped
<1>2. PICK s : suggestions' = s
  OBVIOUS
<1>3. PICK p : stability' = p
  OBVIOUS
<1>4. StoreIsSound(s) /\ AllCurrent(s) /\ \A q \in DOMAIN p : Looks(p[q])
  BY <1>2, <1>3, AdvisedStore
<1>5. CountsAreSound'
  BY <1>3, <1>4 DEF CountsAreSound, Looks
<1>6. StoreIsSound(suggestions)'
  BY <1>2, <1>4 DEF StoreIsSound, Numbered, Rests, OneEpisodeEach, RoomForAll, Promised, Live
<1> QED
  BY <1>1, <1>2, <1>4, <1>5, <1>6 DEF MonitorInv, AllCurrent

LEMMA MonitorStep == ASSUME MonitorInv, [Next]_vars PROVE MonitorInv'
<1>1. CASE \E e \in Engines : StartRead(e) \/ ReadFails(e) \/ \E load \in Loads : ReadAnswers(e, load)
  BY <1>1, ReadStep
<1>2. CASE RunAdvisor
  BY <1>2, AdvisorStep
<1>3. CASE \E i \in DOMAIN binding : \/ RequestStarts(i) \/ RequestEnds(i) \/ Gone(i)
                                     \/ \E t \in Targets : Moved(i, t)
  BY <1>3, BindingStep
<1>4. CASE \E c \in Configs : Reconfigure(c)
  BY <1>4, SaveStep
<1>5. CASE AdviceOff
  <2>1. MonitorTyped'
    BY <1>5 DEF AdviceOff, MonitorInv, MonitorTyped
  <2>2. CountsAreSound'
    BY <1>5 DEF AdviceOff, EmptyMap, CountsAreSound
  <2>3. StoreIsSound(suggestions)'
    <3>1. Less(EmptyMap, suggestions)
      BY DEF Less, EmptyMap
    <3>2. StoreIsSound(EmptyMap)
      BY <3>1, SoundWhenLess DEF MonitorInv
    <3>3. suggestions' = EmptyMap
      BY <1>5 DEF AdviceOff
    <3> QED
      BY <3>2, <3>3 DEF StoreIsSound, Numbered, Rests, OneEpisodeEach, RoomForAll, Promised, Live
  <2> QED
    BY <2>1, <2>2, <2>3 DEF MonitorInv
<1>6. CASE Tick
  <2>1. MonitorTyped' /\ UNCHANGED advisor
    BY <1>6 DEF Tick, MonitorInv, MonitorTyped, advisor
  <2> QED
    BY <2>1, AdviceStays DEF MonitorInv
<1>7. CASE UNCHANGED vars
  <2>1. MonitorTyped' /\ UNCHANGED advisor
    BY <1>7 DEF vars, MonitorInv, MonitorTyped, advisor
  <2> QED
    BY <2>1, AdviceStays DEF MonitorInv
<1> QED
  BY <1>1, <1>2, <1>3, <1>4, <1>5, <1>6, <1>7 DEF Next

LEMMA MonitorHolds == Spec => []MonitorInv
<1>1. Init => MonitorInv
  BY MonitorInit
<1>2. MonitorInv /\ [Next]_vars => MonitorInv'
  BY MonitorStep
<1> QED
  BY <1>1, <1>2, PTL DEF Spec

-----------------------------------------------------------------------------

\* No two live suggestions are about one binding, and no target is promised to more bindings
\* than the cap (load-rebalance.ts #policyRefusal), whatever is saved, moved and read between.
THEOREM PromisesStayApart == Spec => []PromisesAreKeptApart
<1>1. MonitorInv => PromisesAreKeptApart
  BY DEF MonitorInv, StoreIsSound, OneEpisodeEach, RoomForAll, Promised, PromisesAreKeptApart
<1> QED
  BY <1>1, MonitorHolds, PTL

\* Every suggestion says how many stable reads it rests on: they are as many as the policy asks
\* for, and all different (load-rebalance.ts tick), also when targets move between engines.
THEOREM AdviceAlwaysRestsOnReads == Spec => []AdviceRestsOnDifferentReads
<1>1. MonitorInv => AdviceRestsOnDifferentReads
  BY DEF MonitorInv, StoreIsSound, Rests, Made, AdviceRestsOnDifferentReads
<1> QED
  BY <1>1, MonitorHolds, PTL

\* What is suggested after a tick could be acted on as it stands (load-rebalance.ts
\* #advanceLifecycle, #passesSafetyGates, #pickDestination).
THEOREM AdviceIsCurrentWhenGiven == Spec => LiveAdviceIsCurrent
<1>1. MonitorInv /\ [Next]_vars =>
        [RunAdvisor => \A k \in Live(suggestions') : CouldBeActedOn(suggestions'[k])]_vars
  BY AdvisorStep
<1> QED
  BY <1>1, MonitorHolds, PTL DEF Spec, LiveAdviceIsCurrent

=============================================================================
