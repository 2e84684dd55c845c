---------------------------- MODULE Page_proofs ----------------------------
(***************************************************************************)
(* What holds of three parts of the administration page, for any number of *)
(* records, tasks, pairs and calls.                                        *)
(*                                                                         *)
(* ConfigEditor: what was typed is shown until an answer carried it, a     *)
(* field written into the file by hand stays with its target, what the     *)
(* page sends is well formed, and only its own switch turns a pair on.     *)
(*                                                                         *)
(* RecordPane: the pane is of the record that is selected.                 *)
(*                                                                         *)
(* HistoryPage: the list is of what is searched for, once.                 *)
(***************************************************************************)
EXTENDS HistoryPage, RecordPane, ConfigEditor, TLAPS, FiniteSetTheorems, NaturalsInduction,
        WellFoundedInduction, SequenceTheorems

-----------------------------------------------------------------------------
(* The form: the invariant it keeps.                                      *)

\* ids that stand once
Apart(s) == \A i, j \in DOMAIN s : s[i].id = s[j].id => i = j

\* A target of pair p, and a pair, whose ids are of D
SoundTarget(p, x, D) ==
  x \in TargetConfig /\ x.id \in D /\ x.key = Keys[<<p, x.id>>] /\ NoneTwice(x.prices)

SoundMembers(members, targets) == \A m \in DOMAIN members : members[m].target \in IdsOf(targets)

SoundPair(pair, D) ==
  /\ pair \in ProxyPair /\ pair.id \in D
  /\ Apart(pair.targets) /\ pair.default \in IdsOf(pair.targets)
  /\ \A j \in DOMAIN pair.targets : SoundTarget(pair.id, pair.targets[j], D)
  /\ \A k \in DOMAIN pair.groups : SoundMembers(pair.groups[k].members, pair.targets)

Sound(ps, D) ==
  ps \in Seq(ProxyPair) /\ Apart(ps) /\ \A i \in DOMAIN ps : SoundPair(ps[i], D)

\* What a field shows if `last` was typed there last
Says(url, last) == IF last = None THEN Trimmed(url) = url ELSE url = last
Tells(pair, h) == \A j \in DOMAIN pair.targets : Says(pair.targets[j].url, h[<<pair.id, pair.targets[j].id>>])
AllTell(ps, h) == \A i \in DOMAIN ps : Tells(ps[i], h)

\* The controls of a pair
Fits(card, pair) ==
  /\ DOMAIN card = {"switch", "radio", "targets", "groups"}
  /\ card.switch \in BOOLEAN /\ card.radio \in 0 .. Len(pair.targets)
  /\ DOMAIN card.targets = DOMAIN pair.targets
  /\ \A j \in DOMAIN pair.targets :
       /\ card.targets[j] \in [url : Urls, on : BOOLEAN, prices : Seq(Rules)]
       /\ NoneTwice(card.targets[j].prices)
  /\ DOMAIN card.groups = DOMAIN pair.groups
  /\ \A k \in DOMAIN pair.groups :
       /\ DOMAIN card.groups[k] = {"ticked", "model"}
       /\ card.groups[k].ticked \subseteq TargetIds
       /\ card.groups[k].model \in [card.groups[k].ticked -> Models]
AllFit(f, ps) == DOMAIN f = DOMAIN ps /\ \A i \in DOMAIN ps : Fits(f[i], ps[i])
Answering(f, ps, h) ==
  \A i \in DOMAIN ps : \A j \in DOMAIN ps[i].targets :
    Says(f[i].targets[j].url, h[<<ps[i].id, ps[i].targets[j].id>>])

IsOrder(perm) ==
  /\ perm \in Seq(Nat)
  /\ \A n \in DOMAIN perm : perm[n] \in DOMAIN perm
  /\ \A m, n \in DOMAIN perm : perm[m] = perm[n] => m = n
  /\ \A j \in DOMAIN perm : \E n \in DOMAIN perm : perm[n] = j

DragInv ==
  drag # None =>
    /\ DOMAIN drag = {"pair", "order", "seen"} /\ IsOrder(drag.order) /\ AllTell(pairs, typed)
    /\ drag.seen => drag.pair \in DOMAIN pairs /\ Len(drag.order) = Len(pairs[drag.pair].targets)

HistoryInv ==
  /\ typed \in [Places -> Urls \cup {None}]
  /\ \A place \in Places : typed[place] # None \/ Keys[place] # None => place[2] \in drawn

PageInv == /\ Sound(pairs, drawn) /\ AllFit(form, pairs) /\ Answering(form, pairs, typed) 
           /\ DragInv /\ HistoryInv

PutFields == {"kind", "body", "then", "signature", "typed", "n", "heard", "at", "answer"}
SwitchFields == {"kind", "pair", "on", "n", "heard", "at", "answer"}
ImportFields == {"kind", "pair", "index", "stray", "n", "heard", "at", "answer"}

PutSound(c, D) ==
  /\ DOMAIN c = PutFields
  /\ Sound(c.body, D) /\ AllTell(c.body, c.typed)
  /\ \A i \in DOMAIN c.body : WellFormed(c.body[i])
  /\ \A i \in DOMAIN c.body : \A j \in DOMAIN c.body[i].targets :
       c.signature[i].targets[j][1].url = c.body[i].targets[j].url
  /\ c.then = None \/ c.then.on \in BOOLEAN
  /\ c.answer = None \/ c.answer = Stored(c.body)
SwitchSound(c) ==
  DOMAIN c = SwitchFields /\ c.on \in BOOLEAN /\ (c.answer = None \/ c.answer = c.on)
ImportSound(c, ps) ==
  /\ DOMAIN c = ImportFields /\ c.pair \in ProxyIds /\ (c.stray \/ c.pair \in IdsOf(ps))
  /\ c.at # "queued" /\ (c.answer = None \/ c.answer \in Catalog)

CallSound(c, ps, D) ==
  \/ c.kind = "put" /\ PutSound(c, D)
  \/ c.kind = "switch" /\ SwitchSound(c)
  \/ c.kind = "import" /\ ImportSound(c, ps)

CallsInv ==
  /\ made \in Nat
  /\ \A c \in calls : c.n \in Nat /\ c.n < made /\ CallSound(c, pairs, drawn)
  /\ \A c, d \in calls : c.n = d.n => c = d

ServerInv ==
  /\ Sound(committed, drawn)
  /\ writes \in Seq([n : Nat, list : Seq(ProxyPair)])
  /\ \A q \in DOMAIN writes :
       /\ Sound(writes[q].list, drawn)
       /\ \E c \in calls : c.n = writes[q].n /\ c.at = "queued"
            /\ (c.kind = "put" => writes[q].list = Stored(c.body))
  /\ \A q, r \in DOMAIN writes : writes[q].n = writes[r].n => q = r

-----------------------------------------------------------------------------
(* Sequences, and the recursive functions that make them.                  *)

LEMMA LeastNatural ==
  ASSUME NEW T \in SUBSET Nat, T # {}
  PROVE  \E x \in T : \A y \in T : x <= y
<1> DEFINE R == OpToRel(<, Nat)
<1>1. IsWellFoundedOn(R, Nat)
  BY NatLessThanWellFounded
<1>2. \A x, y \in Nat : <<y, x>> \in R <=> y < x
  BY DEF OpToRel
<1> HIDE DEF R
<1>3. PICK x \in T : \A y \in T : <<y, x>> \notin R
  BY <1>1, WFMin
<1>4. \A y \in T : x <= y
  <2> TAKE y \in T
  <2>1. x \in Nat /\ y \in Nat
    OBVIOUS
  <2>2. ~(y < x)
    BY <1>2, <1>3, <2>1
  <2> QED
    BY <2>1, <2>2
<1> QED
  BY <1>4

\* Induction over the numbers up to n
LEMMA UpTo ==
  ASSUME NEW n \in Nat, NEW T \in SUBSET (0 .. n), 0 \in T, \A m \in T : m < n => m + 1 \in T
  PROVE  T = 0 .. n
<1> DEFINE rest == (0 .. n) \ T
<1> SUFFICES ASSUME rest # {} PROVE FALSE
  OBVIOUS
<1>0. rest \in SUBSET Nat
  OBVIOUS
<1>1. PICK x \in rest : \A y \in rest : x <= y
  <2> HIDE DEF rest
  <2> QED
    BY <1>0, LeastNatural
<1>2. x # 0 /\ x \in 0 .. n /\ x - 1 \in 0 .. n /\ x - 1 < n
  BY <1>1
<1>3. x - 1 \notin rest
  BY <1>1, <1>2
<1> QED
  BY <1>1, <1>2, <1>3

\* A function that is defined from its value for one less
Runs(g, N, V, base, step) ==
  g \in [0 .. N -> V] /\ g[0] = base /\ \A n \in 1 .. N : g[n] = step[n][g[n - 1]]

\* There is one.
LEMMA StepByStep ==
  ASSUME NEW N \in Nat, NEW V, NEW base \in V, NEW step \in [1 .. N -> [V -> V]]
  PROVE  \E g : Runs(g, N, V, base, step)
<1> DEFINE runs(g, k) == /\ g \in [0 .. k -> V]
                         /\ g = [n \in 0 .. k |-> IF n = 0 THEN base ELSE step[n][g[n - 1]]]
           T == {k \in 0 .. N : \E g : runs(g, k)}
<1>1. 0 \in T
  <2> DEFINE g == [n \in 0 .. 0 |-> base]
  <2>1. runs(g, 0)
    OBVIOUS
  <2> HIDE DEF g, runs
  <2> QED
    BY <2>1
<1>2. ASSUME NEW k \in T, k < N
      PROVE  k + 1 \in T
  <2>1. PICK g : runs(g, k)
    OBVIOUS
  <2>2. k \in Nat /\ k + 1 \in 1 .. N
    <3> HIDE DEF runs
    <3>1. k \in 0 .. N
      OBVIOUS
    <3> QED
      BY <3>1, <1>2
  <2>3. step[k + 1][g[k]] \in V
    BY <2>1, <2>2
  <2> DEFINE h == [n \in 0 .. k + 1 |-> IF n = k + 1 THEN step[k + 1][g[k]] ELSE g[n]]
  <2>4. h \in [0 .. k + 1 -> V]
    BY <2>1, <2>2, <2>3
  <2>5. \A n \in 0 .. k : h[n] = g[n]
    BY <2>2
  <2>6. ASSUME NEW n \in 0 .. k + 1
        PROVE  h[n] = IF n = 0 THEN base ELSE step[n][h[n - 1]]
    <3>1. CASE n = k + 1
      <4>1. h[n] = step[k + 1][g[k]] /\ h[n - 1] = g[k] /\ n # 0
        BY <3>1, <2>2, <2>5
      <4> QED
        BY <4>1, <3>1
    <3>2. CASE n \in 0 .. k
      <4>1. g[n] = IF n = 0 THEN base ELSE step[n][g[n - 1]]
        BY <2>1, <3>2
      <4>2. n # 0 => h[n - 1] = g[n - 1]
        BY <3>2, <2>2, <2>5
      <4> QED
        BY <4>1, <4>2, <3>2, <2>5
    <3> QED
      BY <3>1, <3>2, <2>2
  <2>7. runs(h, k + 1)
    <3> HIDE DEF h
    <3>1. h = [n \in 0 .. k + 1 |-> h[n]]
      BY <2>4
    <3> QED
      BY <2>4, <2>6, <3>1
  <2> HIDE DEF h, runs
  <2> QED
    BY <2>2, <2>7
<1>3. T = 0 .. N
  <2> HIDE DEF T
  <2>1. T \in SUBSET (0 .. N)
    BY DEF T
  <2> QED
    BY <1>1, <1>2, <2>1, UpTo
<1>4. PICK g : runs(g, N)
  BY <1>3
<1>5. Runs(g, N, V, base, step)
  BY <1>4 DEF Runs
<1> QED
  BY <1>5

LEMMA KeepingIs ==
  ASSUME NEW V, NEW s \in Seq(V), NEW S
  PROVE  LET K == Keeping(s, S)
         IN /\ K \in Seq(V) /\ Len(K) <= Len(s)
            /\ \A n \in DOMAIN K : K[n] \in S /\ \E m \in DOMAIN s : K[n] = s[m]
            /\ \A m \in DOMAIN s : s[m] \in S => \E n \in DOMAIN K : K[n] = s[m]
            /\ (\A m, n \in DOMAIN s : s[m] = s[n] => m = n)
                 => \A m, n \in DOMAIN K : K[m] = K[n] => m = n
<1> DEFINE N == Len(s)
           step == [n \in 1 .. N |-> [x \in Seq(V) |-> IF s[n] \in S THEN Append(x, s[n]) ELSE x]]
           eq(f) == f = [n \in 0 .. N |->
                      IF n = 0 THEN <<>> ELSE IF s[n] \in S THEN Append(f[n - 1], s[n]) ELSE f[n - 1]]
           kept == CHOOSE f : eq(f)
<1>1. N \in Nat /\ DOMAIN s = 1 .. N /\ \A n \in 1 .. N : s[n] \in V
  OBVIOUS
<1>2. Keeping(s, S) = kept[N]
  BY DEF Keeping
<1>3. eq(kept) /\ kept \in [0 .. N -> Seq(V)]
  <2>1. <<>> \in Seq(V)
    OBVIOUS
  <2>2. step \in [1 .. N -> [Seq(V) -> Seq(V)]]
    <3>1. \A n \in 1 .. N, x \in Seq(V) : (IF s[n] \in S THEN Append(x, s[n]) ELSE x) \in Seq(V)
      BY <1>1
    <3> QED
      BY <3>1
  <2>3. \A n \in 1 .. N, x \in Seq(V) : step[n][x] = IF s[n] \in S THEN Append(x, s[n]) ELSE x
    OBVIOUS
  <2> DEFINE W == Seq(V)
             first == <<>>
  <2> HIDE DEF step, N
  <2>14. \E g : Runs(g, N, W, first, step)
    <3>1. N \in Nat /\ first \in W /\ step \in [1 .. N -> [W -> W]]
      BY <1>1, <2>1, <2>2
    <3> HIDE DEF W, first
    <3> QED
      BY <3>1, StepByStep
  <2>4. PICK g \in [0 .. N -> Seq(V)] :
          g[0] = <<>> /\ \A n \in 1 .. N : g[n] = step[n][g[n - 1]]
    BY <2>14 DEF Runs
  <2>5. \A n \in 0 .. N : n # 0 => n \in 1 .. N /\ n - 1 \in 0 .. N
    BY <1>1
  <2>6. \A n \in 0 .. N : n # 0 => step[n][g[n - 1]] = IF s[n] \in S THEN Append(g[n - 1], s[n]) ELSE g[n - 1]
    BY <2>3, <2>5
  <2>7. eq(g)
    <3>1. \A n \in 0 .. N :
            g[n] = IF n = 0 THEN <<>> ELSE IF s[n] \in S THEN Append(g[n - 1], s[n]) ELSE g[n - 1]
      BY <2>4, <2>5, <2>6
    <3>2. g = [n \in 0 .. N |-> g[n]]
      BY <2>4
    <3> QED
      BY <3>1, <3>2
  <2>8. eq(kept)
    BY <2>7
  <2> HIDE DEF kept
  <2> DEFINE T == {n \in 0 .. N : kept[n] \in Seq(V)}
  <2>9. 0 \in T
    BY <1>1, <2>1, <2>8
  <2>10. \A n \in T : n < N => n + 1 \in T
    <3> TAKE n \in T
    <3> HAVE n < N
    <3>1. n \in Nat /\ n + 1 \in 1 .. N /\ kept[n] \in Seq(V)
      BY <1>1
    <3>2. kept[n + 1] = IF s[n + 1] \in S THEN Append(kept[n], s[n + 1]) ELSE kept[n]
      <4>1. n + 1 # 0 /\ (n + 1) - 1 = n /\ n + 1 \in 0 .. N
        BY <3>1, <1>1
      <4> HIDE DEF T
      <4> QED
        BY <2>8, <4>1
    <3>3. s[n + 1] \in V
      BY <1>1, <3>1
    <3>4. kept[n + 1] \in Seq(V)
      BY <3>1, <3>2, <3>3
    <3> QED
      BY <3>1, <3>4, <1>1
  <2>11. T = 0 .. N
    <3>1. T \in SUBSET (0 .. N)
      OBVIOUS
    <3> HIDE DEF T
    <3> QED
      BY <2>9, <2>10, <3>1, <1>1, UpTo
  <2>12. \A n \in 0 .. N : kept[n] \in Seq(V)
    BY <2>11
  <2>13. kept = [n \in 0 .. N |-> kept[n]]
    BY <2>8
  <2> QED
    BY <2>8, <2>12, <2>13
<1> HIDE DEF kept, step, N
<1> DEFINE P(n) ==
      LET K == kept[n]
      IN /\ Len(K) <= n
         /\ \A a \in DOMAIN K : K[a] \in S /\ \E m \in 1 .. n : K[a] = s[m]
         /\ \A m \in 1 .. n : s[m] \in S => \E a \in DOMAIN K : K[a] = s[m]
         /\ (\A a, b \in DOMAIN s : s[a] = s[b] => a = b)
              => \A a, b \in DOMAIN K : K[a] = K[b] => a = b
    T == {n \in 0 .. N : P(n)}
<1>4. 0 \in T
  <2>1. kept[0] = <<>> /\ 0 \in 0 .. N
    BY <1>1, <1>3
  <2> QED
    BY <2>1
<1>5. ASSUME NEW n \in T, n < N
      PROVE  n + 1 \in T
  <2> DEFINE K == kept[n]
             L == kept[n + 1]
  <2>1. n \in Nat /\ n + 1 \in 1 .. N /\ n + 1 \in 0 .. N /\ n \in 0 .. N /\ P(n)
    BY <1>1, <1>5
  <2>2. L = IF s[n + 1] \in S THEN Append(K, s[n + 1]) ELSE K
    <3>1. n + 1 # 0 /\ (n + 1) - 1 = n
      BY <2>1
    <3> HIDE DEF T, P
    <3> QED
      BY <2>1, <3>1, <1>3
  <2>3. K \in Seq(V) /\ s[n + 1] \in V
    BY <1>1, <1>3, <2>1
  <2>4. CASE s[n + 1] \notin S
    <3>1. L = K
      BY <2>2, <2>4
    <3>2. P(n + 1)
      <4> HIDE DEF K, L
      <4>1. /\ Len(L) <= n + 1
            /\ \A a \in DOMAIN L : L[a] \in S /\ \E m \in 1 .. n + 1 : L[a] = s[m]
        BY <2>1, <2>3, <3>1 DEF K
      <4>2. \A m \in 1 .. n + 1 : s[m] \in S => \E a \in DOMAIN L : L[a] = s[m]
        BY <2>1, <2>4, <3>1 DEF K
      <4> QED
        BY <4>1, <4>2, <2>1, <3>1 DEF K, L
    <3> QED
      BY <3>2, <2>1
  <2>5. CASE s[n + 1] \in S
    <3>1. /\ L \in Seq(V) /\ Len(L) = Len(K) + 1 /\ L[Len(K) + 1] = s[n + 1]
          /\ \A a \in 1 .. Len(K) : L[a] = K[a]
          /\ DOMAIN L = 1 .. Len(K) + 1 /\ DOMAIN K = 1 .. Len(K) /\ Len(K) \in Nat
      BY <2>2, <2>3, <2>5
    <3>2. /\ Len(K) <= n
          /\ \A a \in DOMAIN K : K[a] \in S /\ \E m \in 1 .. n : K[a] = s[m]
          /\ \A m \in 1 .. n : s[m] \in S => \E a \in DOMAIN K : K[a] = s[m]
          /\ (\A a, b \in DOMAIN s : s[a] = s[b] => a = b)
               => \A a, b \in DOMAIN K : K[a] = K[b] => a = b
      BY <2>1
    <3> HIDE DEF K, L
    <3>3. \A a \in DOMAIN L : L[a] \in S /\ \E m \in 1 .. n + 1 : L[a] = s[m]
      <4> TAKE a \in DOMAIN L
      <4>1. CASE a = Len(K) + 1
        BY <4>1, <3>1, <2>1, <2>5
      <4>2. CASE a \in 1 .. Len(K)
        <5>1. L[a] = K[a] /\ a \in DOMAIN K
          BY <4>2, <3>1
        <5>2. PICK m \in 1 .. n : K[a] = s[m]
          BY <5>1, <3>2
        <5>3. m \in 1 .. n + 1
          BY <2>1
        <5> QED
          BY <5>1, <5>2, <5>3, <3>2
      <4> QED
        BY <4>1, <4>2, <3>1
    <3>4. \A m \in 1 .. n + 1 : s[m] \in S => \E a \in DOMAIN L : L[a] = s[m]
      <4> TAKE m \in 1 .. n + 1
      <4> HAVE s[m] \in S
      <4>1. CASE m = n + 1
        BY <4>1, <3>1
      <4>2. CASE m \in 1 .. n
        <5>1. PICK a \in DOMAIN K : K[a] = s[m]
          BY <4>2, <3>2
        <5> QED
          BY <5>1, <3>1
      <4> QED
        BY <4>1, <4>2, <2>1
    <3>5. ASSUME \A a, b \in DOMAIN s : s[a] = s[b] => a = b,
                 NEW a \in DOMAIN L, NEW b \in DOMAIN L, L[a] = L[b]
          PROVE  a = b
      <4>1. \A d \in 1 .. Len(K) : L[d] # s[n + 1]
        <5> TAKE d \in 1 .. Len(K)
        <5>1. PICK m \in 1 .. n : K[d] = s[m]
          BY <3>1, <3>2
        <5>2. s[m] # s[n + 1]
          <6>1. m \in DOMAIN s /\ n + 1 \in DOMAIN s /\ m # n + 1
            BY <1>1, <2>1
          <6> QED
            BY <3>5, <6>1
        <5> QED
          BY <5>1, <5>2, <3>1
      <4>2. CASE a \in 1 .. Len(K) /\ b \in 1 .. Len(K)
        BY <4>2, <3>5, <3>1, <3>2
      <4> QED
        BY <4>1, <4>2, <3>5, <3>1
    <3>6. P(n + 1)
      BY <3>1, <3>2, <3>3, <3>4, <3>5, <2>1 DEF L
    <3> QED
      BY <3>6, <2>1
  <2> QED
    BY <2>4, <2>5
<1>6. P(N)
  <2>1. T \in SUBSET (0 .. N)
    OBVIOUS
  <2> HIDE DEF P
  <2>2. T = 0 .. N
    <3> HIDE DEF T
    <3> QED
      BY <1>1, <1>4, <1>5, <2>1, UpTo
  <2> QED
    BY <2>2, <1>1
<1>7. kept[N] \in Seq(V)
  BY <1>1, <1>3
<1>8. /\ Len(kept[N]) <= N
      /\ \A a \in DOMAIN kept[N] : kept[N][a] \in S /\ \E m \in 1 .. N : kept[N][a] = s[m]
      /\ \A m \in 1 .. N : s[m] \in S => \E a \in DOMAIN kept[N] : kept[N][a] = s[m]
      /\ (\A a, b \in DOMAIN s : s[a] = s[b] => a = b)
           => \A a, b \in DOMAIN kept[N] : kept[N][a] = kept[N][b] => a = b
  BY <1>6
<1> DEFINE K == kept[N]
<1>9. K = Keeping(s, S)
  BY <1>2
<1> HIDE DEF K
<1>10. /\ K \in Seq(V) /\ Len(K) <= Len(s)
       /\ \A a \in DOMAIN K : K[a] \in S /\ \E m \in DOMAIN s : K[a] = s[m]
       /\ \A m \in DOMAIN s : s[m] \in S => \E a \in DOMAIN K : K[a] = s[m]
       /\ (\A a, b \in DOMAIN s : s[a] = s[b] => a = b) => \A a, b \in DOMAIN K : K[a] = K[b] => a = b
  BY <1>1, <1>7, <1>8 DEF K, N
<1> QED
  BY <1>9, <1>10

LEMMA RemoveAtIs ==
  ASSUME NEW V, NEW s \in Seq(V), NEW i \in DOMAIN s
  PROVE  /\ RemoveAt(s, i) \in Seq(V) /\ Len(RemoveAt(s, i)) = Len(s) - 1
         /\ \A j \in 1 .. Len(s) - 1 : RemoveAt(s, i)[j] = s[IF j < i THEN j ELSE j + 1]
<1> DEFINE a == SubSeq(s, 1, i - 1)
           b == SubSeq(s, i + 1, Len(s))
<1>1. Len(s) \in Nat /\ i \in 1 .. Len(s) /\ \A j \in 1 .. Len(s) : s[j] \in V
  OBVIOUS
<1>2. a \in Seq(V) /\ Len(a) = i - 1 /\ \A j \in 1 .. i - 1 : a[j] = s[j]
  <2>1. i - 1 \in Int /\ \A j \in 1 .. i - 1 : s[j] \in V
    BY <1>1
  <2> QED
    BY <1>1, <2>1, SubSeqProperties
<1>3. b \in Seq(V) /\ Len(b) = Len(s) - i /\ \A j \in 1 .. Len(s) - i : b[j] = s[i + j]
  <2>1. i + 1 \in Int /\ Len(s) \in Int /\ \A j \in i + 1 .. Len(s) : s[j] \in V
    BY <1>1
  <2> QED
    BY <1>1, <2>1, SubSeqProperties
<1> HIDE DEF a, b
<1>4. /\ a \o b \in Seq(V) /\ Len(a \o b) = Len(a) + Len(b)
      /\ \A j \in 1 .. Len(a) + Len(b) : (a \o b)[j] = IF j <= Len(a) THEN a[j] ELSE b[j - Len(a)]
  BY <1>2, <1>3, ConcatProperties
<1>5. RemoveAt(s, i) = a \o b
  BY DEF RemoveAt, a, b
<1>6. \A j \in 1 .. Len(s) - 1 : (a \o b)[j] = s[IF j < i THEN j ELSE j + 1]
  <2> TAKE j \in 1 .. Len(s) - 1
  <2>1. CASE j < i
    <3>1. j \in 1 .. i - 1 /\ j <= Len(a) /\ j \in 1 .. Len(a) + Len(b)
      BY <2>1, <1>1, <1>2, <1>3
    <3>2. (a \o b)[j] = a[j]
      BY <3>1, <1>4
    <3> QED
      BY <2>1, <3>1, <3>2, <1>2
  <2>2. CASE ~(j < i)
    <3>1. j - Len(a) \in 1 .. Len(s) - i /\ i + (j - Len(a)) = j + 1 /\ ~(j <= Len(a))
      BY <2>2, <1>1, <1>2
    <3>2. (a \o b)[j] = b[j - Len(a)]
      <4>1. j \in 1 .. Len(a) + Len(b)
        BY <1>1, <1>2, <1>3
      <4> QED
        BY <3>1, <4>1, <1>4
    <3> QED
      BY <2>2, <3>1, <3>2, <1>3
  <2> QED
    BY <2>1, <2>2
<1>7. Len(a) + Len(b) = Len(s) - 1
  BY <1>1, <1>2, <1>3
<1> QED
  BY <1>4, <1>5, <1>6, <1>7

LEMMA InsertAtIs ==
  ASSUME NEW V, NEW s \in Seq(V), NEW e \in V, NEW i \in 1 .. Len(s) + 1
  PROVE  /\ InsertAt(s, i, e) \in Seq(V) /\ Len(InsertAt(s, i, e)) = Len(s) + 1
         /\ \A j \in 1 .. Len(s) + 1 :
              InsertAt(s, i, e)[j] = IF j < i THEN s[j] ELSE IF j = i THEN e ELSE s[j - 1]
<1> DEFINE a == SubSeq(s, 1, i - 1)
           b == SubSeq(s, i, Len(s))
           c == a \o <<e>>
<1>1. Len(s) \in Nat /\ \A j \in 1 .. Len(s) : s[j] \in V
  OBVIOUS
<1>2. a \in Seq(V) /\ Len(a) = i - 1 /\ \A j \in 1 .. i - 1 : a[j] = s[j]
  <2>1. i - 1 \in Int /\ \A j \in 1 .. i - 1 : s[j] \in V
    BY <1>1
  <2> QED
    BY <1>1, <2>1, SubSeqProperties
<1>3. b \in Seq(V) /\ Len(b) = Len(s) - i + 1 /\ \A j \in 1 .. Len(s) - i + 1 : b[j] = s[i + j - 1]
  <2>1. i \in Int /\ Len(s) \in Int /\ \A j \in i .. Len(s) : s[j] \in V
    BY <1>1
  <2> QED
    BY <1>1, <2>1, SubSeqProperties
<1> HIDE DEF a, b
<1>4. c \in Seq(V) /\ Len(c) = i /\ \A j \in 1 .. i : c[j] = IF j < i THEN s[j] ELSE e
  <2>1. <<e>> \in Seq(V) /\ Len(<<e>>) = 1 /\ <<e>>[1] = e
    OBVIOUS
  <2>2. /\ c \in Seq(V) /\ Len(c) = Len(a) + 1
        /\ \A j \in 1 .. Len(a) + 1 : c[j] = IF j <= Len(a) THEN a[j] ELSE <<e>>[j - Len(a)]
    BY <1>2, <2>1, ConcatProperties
  <2> QED
    BY <1>2, <2>1, <2>2
<1> HIDE DEF c
<1>5. /\ c \o b \in Seq(V) /\ Len(c \o b) = Len(c) + Len(b)
      /\ \A j \in 1 .. Len(c) + Len(b) : (c \o b)[j] = IF j <= Len(c) THEN c[j] ELSE b[j - Len(c)]
  BY <1>4, <1>3, ConcatProperties
<1>6. InsertAt(s, i, e) = c \o b
  BY DEF InsertAt, a, b, c
<1>7. \A j \in 1 .. Len(s) + 1 :
        (c \o b)[j] = IF j < i THEN s[j] ELSE IF j = i THEN e ELSE s[j - 1]
  BY <1>1, <1>3, <1>4, <1>5
<1> QED
  BY <1>1, <1>3, <1>4, <1>5, <1>6, <1>7

\* An import adds rules without making any stand twice.
LEMMA ImportedIs ==
  ASSUME NEW rules \in Seq(Rules), NoneTwice(rules), NEW answer \in Catalog
  PROVE  Imported(rules, answer) \in Seq(Rules) /\ NoneTwice(Imported(rules, answer))
<1> DEFINE N == Len(answer)
           Good == {x \in Seq(Rules) : NoneTwice(x)}
           new(x, n) == IF answer[n] \in ToSet(x) THEN x ELSE Append(x, answer[n])
           eq(f) == f = [n \in 0 .. N |-> IF n = 0 THEN rules
                           ELSE IF answer[n] \in ToSet(f[n - 1]) THEN f[n - 1] ELSE Append(f[n - 1], answer[n])]
           after == CHOOSE f : eq(f)
           step == [n \in 1 .. N |-> [x \in Good |-> new(x, n)]]
<1>1. N \in Nat /\ \A n \in 1 .. N : answer[n] \in Rules
  <2>1. answer \in Seq(ToSet(answer)) /\ ToSet(answer) \subseteq Rules
    BY EditorAssumption DEF Rules
  <2> HIDE DEF N
  <2> QED
    BY <2>1 DEF N
<1>2. Imported(rules, answer) = after[N]
  BY DEF Imported
<1>3. ASSUME NEW n \in 1 .. N, NEW x \in Good
      PROVE  new(x, n) \in Good
  <2>1. x \in Seq(Rules) /\ answer[n] \in Rules /\ NoneTwice(x)
    BY <1>1
  <2> HIDE DEF N
  <2>2. CASE answer[n] \notin ToSet(x)
    <3> DEFINE y == Append(x, answer[n])
    <3>1. /\ y \in Seq(Rules) /\ DOMAIN y = 1 .. Len(x) + 1 /\ y[Len(x) + 1] = answer[n]
          /\ Len(x) \in Nat /\ DOMAIN x = 1 .. Len(x)
          /\ \A a \in 1 .. Len(x) : y[a] = x[a]
      BY <2>1
    <3>2. \A a \in 1 .. Len(x) : x[a] # answer[n]
      BY <2>2, <3>1 DEF ToSet
    <3> HIDE DEF y
    <3>3. NoneTwice(y)
      BY <2>1, <3>1, <3>2 DEF NoneTwice
    <3> QED
      BY <2>2, <3>1, <3>3 DEF y
  <2> QED
    BY <2>2, <2>1
<1>4. rules \in Good
  OBVIOUS
<1>5. step \in [1 .. N -> [Good -> Good]]
  <2> HIDE DEF new, Good, N
  <2> QED
    BY <1>3
<1>6. \A n \in 1 .. N, x \in Good : step[n][x] = new(x, n)
  <2> HIDE DEF new, Good, N
  <2> QED
    OBVIOUS
<1> HIDE DEF step, Good, N
<1>7. PICK g : Runs(g, N, Good, rules, step)
  <2>1. N \in Nat
    BY <1>1
  <2> QED
    BY <2>1, <1>4, <1>5, StepByStep
<1> USE DEF Runs
<1>8. eq(g)
  <2>1. \A n \in 0 .. N : n # 0 => n \in 1 .. N /\ n - 1 \in 0 .. N
    BY <1>1
  <2>2. \A n \in 0 .. N : n # 0 => g[n] = new(g[n - 1], n)
    <3> HIDE DEF new
    <3> QED
      BY <2>1, <1>6, <1>7
  <2>3. \A n \in 0 .. N : g[n] = IF n = 0 THEN rules
          ELSE IF answer[n] \in ToSet(g[n - 1]) THEN g[n - 1] ELSE Append(g[n - 1], answer[n])
    BY <2>1, <2>2, <1>7
  <2>4. g = [n \in 0 .. N |-> g[n]]
    BY <1>7
  <2> QED
    BY <2>3, <2>4
<1>9. eq(after)
  BY <1>8
<1> HIDE DEF after
<1> DEFINE T == {n \in 0 .. N : after[n] \in Good}
<1>10. 0 \in T
  BY <1>1, <1>4, <1>9
<1>11. ASSUME NEW n \in T, n < N
       PROVE  n + 1 \in T
  <2>1. n + 1 \in 1 .. N /\ n + 1 # 0 /\ (n + 1) - 1 = n /\ n + 1 \in 0 .. N /\ after[n] \in Good
    BY <1>1, <1>11
  <2>2. after[n + 1] = new(after[n], n + 1)
    <3> HIDE DEF T
    <3> QED
      BY <2>1, <1>9
  <2>3. new(after[n], n + 1) \in Good
    <3> HIDE DEF new, T
    <3> QED
      BY <2>1, <1>3
  <2> HIDE DEF new
  <2> QED
    BY <2>1, <2>2, <2>3
<1>12. T = 0 .. N
  <2>1. T \in SUBSET (0 .. N)
    OBVIOUS
  <2> HIDE DEF T
  <2> QED
    BY <1>1, <1>10, <1>11, <2>1, UpTo
<1>13. N \in 0 .. N
  BY <1>1
<1>14. after[N] \in Good
  BY <1>12, <1>13
<1> QED
  BY <1>2, <1>14 DEF Good

-----------------------------------------------------------------------------
(* Records of a configuration, one field changed.                          *)

Marks == {None} \cup {Keys[place] : place \in Places}

LEMMA TargetIs ==
  ASSUME NEW x \in TargetConfig
  PROVE  /\ x.id \in TargetIds /\ x.url \in Urls /\ x.on \in BOOLEAN /\ x.prices \in Seq(Rules)
         /\ x.key \in Marks
  BY DEF TargetConfig, Marks

LEMMA PairIs ==
  ASSUME NEW x \in ProxyPair
  PROVE  /\ x.id \in ProxyIds /\ x.enabled \in BOOLEAN /\ x.targets \in Seq(TargetConfig)
         /\ x.default \in TargetIds /\ x.groups \in Seq(LoadBalancerGroup)
  BY DEF ProxyPair

LEMMA GroupIs ==
  ASSUME NEW x \in LoadBalancerGroup
  PROVE  x.id \in GroupIds /\ x.members \in Seq([target : TargetIds, model : Models])
  BY DEF LoadBalancerGroup

LEMMA TargetWithKey ==
  ASSUME NEW x \in TargetConfig, NEW k \in Marks
  PROVE  LET y == [x EXCEPT !.key = k]
         IN  y \in TargetConfig /\ y.id = x.id /\ y.url = x.url /\ y.on = x.on /\ y.prices = x.prices
           /\ y.key = k
  BY DEF TargetConfig, Marks

LEMMA TargetWithPrices ==
  ASSUME NEW x \in TargetConfig, NEW p \in Seq(Rules)
  PROVE  LET y == [x EXCEPT !.prices = p]
         IN  y \in TargetConfig /\ y.id = x.id /\ y.url = x.url /\ y.on = x.on /\ y.prices = p /\ y.key = x.key
  BY DEF TargetConfig

LEMMA PairWithTargets ==
  ASSUME NEW x \in ProxyPair, NEW ts \in Seq(TargetConfig)
  PROVE  LET y == [x EXCEPT !.targets = ts]
         IN  /\ y \in ProxyPair /\ y.id = x.id /\ y.enabled = x.enabled /\ y.targets = ts
             /\ y.default = x.default /\ y.groups = x.groups
  BY DEF ProxyPair

LEMMA PairWithGroups ==
  ASSUME NEW x \in ProxyPair, NEW gs \in Seq(LoadBalancerGroup)
  PROVE  LET y == [x EXCEPT !.groups = gs]
         IN  /\ y \in ProxyPair /\ y.id = x.id /\ y.enabled = x.enabled /\ y.targets = x.targets
             /\ y.default = x.default /\ y.groups = gs
  BY DEF ProxyPair

LEMMA PairWithSwitch ==
  ASSUME NEW x \in ProxyPair, NEW on \in BOOLEAN
  PROVE  LET y == [x EXCEPT !.enabled = on]
         IN  /\ y \in ProxyPair /\ y.id = x.id /\ y.targets = x.targets
             /\ y.default = x.default /\ y.groups = x.groups
  BY DEF ProxyPair

LEMMA GroupWithMembers ==
  ASSUME NEW x \in LoadBalancerGroup, NEW ms \in Seq([target : TargetIds, model : Models])
  PROVE  LET y == [x EXCEPT !.members = ms]
         IN  y \in LoadBalancerGroup /\ y.id = x.id /\ y.members = ms
  BY DEF LoadBalancerGroup

\* A function over 1 .. n is a sequence.
LEMMA SequenceOf ==
  ASSUME NEW V, NEW n \in Nat, NEW f \in [1 .. n -> V]
  PROVE  f \in Seq(V) /\ Len(f) = n /\ DOMAIN f = 1 .. n
  OBVIOUS

LEMMA MappedSeq ==
  ASSUME NEW U, NEW s \in Seq(U), NEW V, NEW f,
         DOMAIN f = DOMAIN s, f = [j \in DOMAIN s |-> f[j]], \A j \in DOMAIN s : f[j] \in V
  PROVE  f \in Seq(V) /\ Len(f) = Len(s)
<1>1. Len(s) \in Nat /\ DOMAIN s = 1 .. Len(s)
  OBVIOUS
<1>2. f \in [1 .. Len(s) -> V]
  BY <1>1
<1> QED
  BY <1>1, <1>2, SequenceOf

-----------------------------------------------------------------------------
(* Sound lists: their parts, and what the server stores of them.           *)

LEMMA ListIs ==
  ASSUME NEW D, NEW ps, Sound(ps, D), NEW i \in DOMAIN ps
  PROVE  /\ ps \in Seq(ProxyPair) /\ DOMAIN ps = 1 .. Len(ps) /\ Len(ps) \in Nat /\ i \in Nat
         /\ SoundPair(ps[i], D) /\ ps[i] \in ProxyPair
  BY DEF Sound

LEMMA PairParts ==
  ASSUME NEW D, NEW pair, SoundPair(pair, D)
  PROVE  /\ pair \in ProxyPair /\ pair.id \in ProxyIds /\ pair.id \in D /\ pair.enabled \in BOOLEAN
         /\ pair.targets \in Seq(TargetConfig) /\ Len(pair.targets) \in Nat
         /\ DOMAIN pair.targets = 1 .. Len(pair.targets)
         /\ pair.default \in IdsOf(pair.targets) /\ pair.default \in TargetIds
         /\ pair.groups \in Seq(LoadBalancerGroup)
         /\ Len(pair.groups) \in Nat /\ DOMAIN pair.groups = 1 .. Len(pair.groups)
         /\ \A j \in DOMAIN pair.targets :
              /\ SoundTarget(pair.id, pair.targets[j], D) /\ pair.targets[j] \in TargetConfig
              /\ <<pair.id, pair.targets[j].id>> \in Places
         /\ \A k \in DOMAIN pair.groups :
              /\ pair.groups[k] \in LoadBalancerGroup
              /\ SoundMembers(pair.groups[k].members, pair.targets)
<1>1. pair \in ProxyPair
  BY DEF SoundPair
<1>2. /\ pair.id \in ProxyIds /\ pair.enabled \in BOOLEAN /\ pair.targets \in Seq(TargetConfig)
      /\ pair.default \in TargetIds /\ pair.groups \in Seq(LoadBalancerGroup)
  BY <1>1, PairIs
<1>3. \A j \in DOMAIN pair.targets :
        SoundTarget(pair.id, pair.targets[j], D) /\ pair.targets[j] \in TargetConfig
  BY DEF SoundPair, SoundTarget
<1>4. \A j \in DOMAIN pair.targets : <<pair.id, pair.targets[j].id>> \in Places
  BY <1>2, <1>3, TargetIs DEF Places
<1>5. \A k \in DOMAIN pair.groups : pair.groups[k] \in LoadBalancerGroup
  BY <1>2
<1> QED
  BY <1>1, <1>2, <1>3, <1>4, <1>5 DEF SoundPair

\* Of the same targets, or of others that are sound, a pair is sound.
LEMMA PairMade ==
  ASSUME NEW D, NEW pair, pair \in ProxyPair, pair.id \in D, Apart(pair.targets),
         pair.default \in IdsOf(pair.targets),
         \A j \in DOMAIN pair.targets : SoundTarget(pair.id, pair.targets[j], D),
         \A k \in DOMAIN pair.groups : SoundMembers(pair.groups[k].members, pair.targets)
  PROVE  SoundPair(pair, D)
  BY DEF SoundPair

LEMMA StoredPair ==
  ASSUME NEW D, NEW ps, Sound(ps, D), NEW i \in DOMAIN ps
  PROVE  LET x == ps[i]
             y == Stored(ps)[i]
         IN  /\ SoundPair(y, D) /\ y.id = x.id
             /\ DOMAIN y.targets = DOMAIN x.targets
             /\ \A j \in DOMAIN x.targets :
                  y.targets[j].id = x.targets[j].id /\ y.targets[j].url = Trimmed(x.targets[j].url)
<1> DEFINE x == ps[i]
           t1(j) == ParsedTarget(x.targets[j])
           ts1 == [j \in DOMAIN x.targets |-> t1(j)]
           p == ParsedPair(x)
           t2(j) == [ts1[j] EXCEPT !.key = x.targets[j].key]
           ts2 == [j \in DOMAIN ts1 |-> t2(j)]
           y == [p EXCEPT !.targets = ts2]
<1>1. SoundPair(x, D) /\ x \in ProxyPair
  BY ListIs
<1>2. DefaultOf(x) = x.default
  BY <1>1, PairParts DEF DefaultOf
<1>3. \A j \in DOMAIN x.targets :
        /\ t1(j) \in TargetConfig /\ t1(j).id = x.targets[j].id
        /\ t1(j).url = Trimmed(x.targets[j].url) /\ t1(j).prices = x.targets[j].prices
  <2> TAKE j \in DOMAIN x.targets
  <2>1. x.targets[j] \in TargetConfig
    BY <1>1, PairParts
  <2>2. Trimmed(x.targets[j].url) \in Urls /\ None \in Marks
    BY <2>1, TargetIs, EditorAssumption DEF Marks
  <2> DEFINE e == x.targets[j]
             u == Trimmed(e.url)
  <2> HIDE DEF x
  <2> QED
    BY <2>1, <2>2 DEF ParsedTarget, TargetConfig, Marks
<1>4. ts1 \in Seq(TargetConfig) /\ DOMAIN ts1 = DOMAIN x.targets
  <2>1. x.targets \in Seq(TargetConfig)
    BY <1>1, PairParts
  <2>2. \A j \in DOMAIN x.targets : ts1[j] \in TargetConfig
    BY <1>3
  <2> HIDE DEF x, t1
  <2> QED
    BY <2>1, <2>2, MappedSeq
<1>5. p \in ProxyPair /\ p.id = x.id /\ p.targets = ts1 /\ p.default = x.default /\ p.groups = x.groups
  <2>1. x.default \in TargetIds
    BY <1>1, PairParts
  <2> DEFINE d == DefaultOf(x)
  <2>2. p = [x EXCEPT !.default = d, !.targets = ts1]
    BY DEF ParsedPair
  <2> HIDE DEF x, ts1, p, d
  <2>3. d = x.default
    BY <1>2 DEF d
  <2> QED
    BY <1>1, <1>4, <2>1, <2>2, <2>3 DEF ProxyPair
<1>6. \A j \in DOMAIN x.targets :
        /\ t2(j) \in TargetConfig /\ t2(j).id = x.targets[j].id
        /\ t2(j).url = Trimmed(x.targets[j].url) /\ t2(j).prices = x.targets[j].prices
        /\ t2(j).key = x.targets[j].key
  <2> TAKE j \in DOMAIN x.targets
  <2>1. x.targets[j].key \in Marks
    BY <1>1, PairParts, TargetIs
  <2>2. ts1[j] = t1(j)
    OBVIOUS
  <2> HIDE DEF x, t1, ts1
  <2> QED
    BY <2>1, <2>2, <1>3, TargetWithKey
<1>7. ts2 \in Seq(TargetConfig) /\ DOMAIN ts2 = DOMAIN x.targets /\ \A j \in DOMAIN x.targets : ts2[j] = t2(j)
  <2>1. \A j \in DOMAIN x.targets : ts2[j] = t2(j)
    BY <1>4
  <2> HIDE DEF x, t2, ts1
  <2> QED
    BY <1>4, <1>6, <2>1, MappedSeq
<1>8. y \in ProxyPair /\ y.id = x.id /\ y.targets = ts2 /\ y.default = x.default /\ y.groups = x.groups
  <2> HIDE DEF p, ts2, x
  <2> QED
    BY <1>5, <1>7, PairWithTargets
<1>9. Stored(ps)[i] = y
  <2>1. Parsed(ps)[i] = p
    BY DEF Parsed
  <2>2. DOMAIN Parsed(ps) = DOMAIN ps
    BY DEF Parsed
  <2>3. Stored(ps)[i] = [Parsed(ps)[i] EXCEPT !.targets =
           [j \in DOMAIN Parsed(ps)[i].targets |-> [Parsed(ps)[i].targets[j] EXCEPT !.key = x.targets[j].key]]]
    BY <2>2 DEF Stored, Preserved
  <2>4. [j \in DOMAIN p.targets |-> [p.targets[j] EXCEPT !.key = x.targets[j].key]] = ts2
    BY <1>5
  <2> HIDE DEF p, ts2, x
  <2> QED
    BY <2>1, <2>3, <2>4
<1> HIDE DEF y, p, ts1, ts2, t1, t2
<1>10. SoundPair(y, D)
  <2>1. \A j \in DOMAIN x.targets : y.targets[j].id = x.targets[j].id
    BY <1>6, <1>7, <1>8
  <2>2. Apart(y.targets)
    BY <1>1, <1>7, <1>8, <2>1 DEF Apart, SoundPair
  <2>3. IdsOf(y.targets) = IdsOf(x.targets)
    BY <1>7, <1>8, <2>1 DEF IdsOf
  <2>4. \A j \in DOMAIN y.targets : SoundTarget(y.id, y.targets[j], D)
    <3> TAKE j \in DOMAIN y.targets
    <3>1. j \in DOMAIN x.targets /\ y.targets[j] = t2(j)
      BY <1>7, <1>8
    <3>2. SoundTarget(x.id, x.targets[j], D)
      BY <3>1, <1>1, PairParts
    <3> HIDE DEF x
    <3> QED
      BY <3>1, <3>2, <1>6, <1>8 DEF SoundTarget
  <2>5. \A k \in DOMAIN y.groups : SoundMembers(y.groups[k].members, y.targets)
    BY <1>1, <1>8, <2>3, PairParts DEF SoundMembers
  <2>6. y.id \in D /\ y.default \in IdsOf(y.targets)
    BY <1>1, <1>8, <2>3, PairParts
  <2> QED
    BY <1>8, <2>2, <2>4, <2>5, <2>6, PairMade
<1> QED
  BY <1>6, <1>7, <1>8, <1>9, <1>10

\* Lists of sound pairs with the ids of a sound list.
LEMMA ListMade ==
  ASSUME NEW D, NEW E, NEW ps, Sound(ps, D), NEW new, new = [i \in DOMAIN ps |-> new[i]],
         \A i \in DOMAIN ps : SoundPair(new[i], E) /\ new[i].id = ps[i].id
  PROVE  Sound(new, E)
<1>1. ps \in Seq(ProxyPair) /\ Apart(ps)
  BY DEF Sound
<1>2. DOMAIN new = DOMAIN ps /\ \A i \in DOMAIN ps : new[i] \in ProxyPair
  BY PairParts
<1>3. new \in Seq(ProxyPair)
  BY <1>1, <1>2, MappedSeq
<1> QED
  BY <1>1, <1>2, <1>3 DEF Sound, Apart

LEMMA StoredIs ==
  ASSUME NEW D, NEW ps, Sound(ps, D)
  PROVE  /\ Sound(Stored(ps), D) /\ DOMAIN Stored(ps) = DOMAIN ps
         /\ \A i \in DOMAIN ps :
              LET x == ps[i]
                  y == Stored(ps)[i]
              IN  /\ y.id = x.id /\ DOMAIN y.targets = DOMAIN x.targets
                  /\ \A j \in DOMAIN x.targets :
                       y.targets[j].id = x.targets[j].id /\ y.targets[j].url = Trimmed(x.targets[j].url)
<1> DEFINE new == Stored(ps)
<1>1. DOMAIN new = DOMAIN ps /\ new = [i \in DOMAIN ps |-> new[i]]
  BY DEF Stored, Preserved, Parsed
<1>2. \A i \in DOMAIN ps : SoundPair(new[i], D) /\ new[i].id = ps[i].id
  <2> HIDE DEF new
  <2> QED
    BY StoredPair DEF new
<1>3. Sound(new, D)
  <2> HIDE DEF new
  <2> QED
    BY <1>1, <1>2, ListMade
<1> HIDE DEF new
<1> QED
  BY <1>1, <1>3, StoredPair DEF new

LEMMA SwitchedIs ==
  ASSUME NEW D, NEW ps, Sound(ps, D), NEW id, NEW on \in BOOLEAN
  PROVE  LET new == Switched(ps, id, on)
         IN  /\ Sound(new, D) /\ DOMAIN new = DOMAIN ps
             /\ \A i \in DOMAIN ps :
                  new[i].id = ps[i].id /\ new[i].targets = ps[i].targets /\ new[i].groups = ps[i].groups
<1> DEFINE new == Switched(ps, id, on)
<1>1. /\ DOMAIN new = DOMAIN ps /\ new = [i \in DOMAIN ps |-> new[i]]
      /\ \A i \in DOMAIN ps : new[i] = ps[i] \/ new[i] = [ps[i] EXCEPT !.enabled = on]
  BY DEF Switched
<1>2. ASSUME NEW i \in DOMAIN ps
      PROVE  /\ SoundPair(new[i], D) /\ new[i].id = ps[i].id
             /\ new[i].targets = ps[i].targets /\ new[i].groups = ps[i].groups
  <2>1. SoundPair(ps[i], D) /\ ps[i] \in ProxyPair
    BY ListIs
  <2> HIDE DEF new
  <2>2. CASE new[i] = ps[i]
    BY <2>1, <2>2
  <2>3. CASE new[i] = [ps[i] EXCEPT !.enabled = on]
    <3>1. /\ new[i] \in ProxyPair /\ new[i].id = ps[i].id /\ new[i].targets = ps[i].targets
          /\ new[i].default = ps[i].default /\ new[i].groups = ps[i].groups
      BY <2>1, <2>3, PairWithSwitch
    <3> QED
      BY <2>1, <3>1 DEF SoundPair
  <2> QED
    BY <1>1, <2>2, <2>3
<1> HIDE DEF new
<1>3. Sound(new, D)
  BY <1>1, <1>2, ListMade
<1> QED
  BY <1>1, <1>2, <1>3 DEF new

-----------------------------------------------------------------------------
(* Controls read into the objects.                                         *)

Member == [target : TargetIds, model : Models]

\* What a group's boxes are read into
LEMMA MembersAre ==
  ASSUME NEW targets \in Seq(TargetConfig), NEW previous \in Seq(Member), SoundMembers(previous, targets),
         NEW card, card.model \in [card.ticked -> Models]
  PROVE  Members(card, previous, targets) \in Seq(Member)
           /\ SoundMembers(Members(card, previous, targets), targets)
<1> DEFINE A == {m \in ToSet(previous) : m.target \in card.ticked}
           B == {t \in ToSet(targets) : t.id \in card.ticked /\ \A m \in ToSet(previous) : m.target # t.id}
           kept == Keeping(previous, A)
           new == Keeping(targets, B)
           read(t) == [target |-> t, model |-> card.model[t]]
           a == [m \in DOMAIN kept |-> read(kept[m].target)]
           b == [n \in DOMAIN new |-> read(new[n].id)]
           Fine == {m \in Member : m.target \in IdsOf(targets)}
<1>1. kept \in Seq(Member) /\ \A n \in DOMAIN kept : kept[n] \in A
  <2> HIDE DEF A
  <2> QED
    BY KeepingIs
<1>2. new \in Seq(TargetConfig) /\ \A n \in DOMAIN new : new[n] \in B
  <2> HIDE DEF B
  <2> QED
    BY KeepingIs
<1>3. ASSUME NEW t \in TargetIds, t \in card.ticked, t \in IdsOf(targets)
      PROVE  read(t) \in Fine
  BY <1>3 DEF Member
<1>4. \A n \in DOMAIN kept : a[n] = read(kept[n].target) /\ a[n] \in Fine
  <2> TAKE n \in DOMAIN kept
  <2>1. kept[n] \in ToSet(previous) /\ kept[n].target \in card.ticked
    BY <1>1
  <2>2. PICK m \in DOMAIN previous : kept[n] = previous[m]
    BY <2>1 DEF ToSet
  <2>3. kept[n].target \in TargetIds /\ kept[n].target \in IdsOf(targets)
    <3>1. previous[m] \in Member /\ previous[m].target \in IdsOf(targets)
      BY DEF SoundMembers
    <3> HIDE DEF kept
    <3> QED
      BY <2>2, <3>1 DEF Member
  <2>4. a[n] = read(kept[n].target)
    OBVIOUS
  <2> HIDE DEF a, kept, read
  <2> QED
    BY <2>1, <2>3, <2>4, <1>3
<1>5. \A n \in DOMAIN new : b[n] = read(new[n].id) /\ b[n] \in Fine
  <2> TAKE n \in DOMAIN new
  <2>1. new[n] \in ToSet(targets) /\ new[n].id \in card.ticked
    BY <1>2
  <2>2. PICK m \in DOMAIN targets : new[n] = targets[m]
    BY <2>1 DEF ToSet
  <2>3. new[n].id \in TargetIds /\ new[n].id \in IdsOf(targets)
    <3>1. targets[m] \in TargetConfig /\ targets[m].id \in IdsOf(targets)
      BY DEF IdsOf
    <3> HIDE DEF new
    <3> QED
      BY <2>2, <3>1, TargetIs
  <2>4. b[n] = read(new[n].id)
    OBVIOUS
  <2> HIDE DEF b, new, read
  <2> QED
    BY <2>1, <2>3, <2>4, <1>3
<1>6. a \in Seq(Fine)
  <2>1. DOMAIN a = DOMAIN kept /\ a = [j \in DOMAIN kept |-> a[j]]
    OBVIOUS
  <2> HIDE DEF a, kept, Fine
  <2> QED
    BY <2>1, <1>1, <1>4, MappedSeq
<1>7. b \in Seq(Fine)
  <2>1. DOMAIN b = DOMAIN new /\ b = [j \in DOMAIN new |-> b[j]]
    OBVIOUS
  <2> HIDE DEF b, new, Fine
  <2> QED
    BY <2>1, <1>2, <1>5, MappedSeq
<1>8. Members(card, previous, targets) = a \o b
  BY DEF Members
<1> HIDE DEF a, b, Fine
<1>9. a \o b \in Seq(Fine)
  BY <1>6, <1>7
<1>10. \A n \in DOMAIN (a \o b) : (a \o b)[n] \in Fine
  BY <1>9
<1>11. a \o b \in Seq(Member)
  <2>1. Fine \subseteq Member
    BY DEF Fine
  <2> QED
    BY <1>9, <2>1
<1> QED
  BY <1>8, <1>10, <1>11 DEF Fine, SoundMembers

LEMMA CollectedPairIs ==
  ASSUME NEW D, NEW pair, SoundPair(pair, D), NEW card, Fits(card, pair)
  PROVE  LET y == CollectedPair(pair, card)
         IN  /\ SoundPair(y, D) /\ WellFormed(y) /\ y.id = pair.id
             /\ DOMAIN y.targets = DOMAIN pair.targets /\ DOMAIN y.groups = DOMAIN pair.groups
             /\ \A j \in DOMAIN pair.targets :
                  y.targets[j].id = pair.targets[j].id /\ y.targets[j].url = card.targets[j].url
<1> DEFINE default == IF card.radio = 0 THEN pair.default ELSE pair.targets[card.radio].id
           read(j) == [pair.targets[j] EXCEPT !.url = card.targets[j].url, !.prices = card.targets[j].prices,
                                              !.on = card.targets[j].on \/ pair.targets[j].id = default]
           targets == [j \in DOMAIN pair.targets |-> read(j)]
           group(k) == CollectedGroup(pair.groups[k], card.groups[k], pair.targets)
           groups == [k \in DOMAIN pair.groups |-> group(k)]
           y == CollectedPair(pair, card)
<1>0. /\ pair \in ProxyPair /\ pair.targets \in Seq(TargetConfig)
      /\ pair.groups \in Seq(LoadBalancerGroup) /\ DOMAIN pair.targets = 1 .. Len(pair.targets)
           /\ Len(pair.targets) \in Nat
  BY PairParts
<1>1. default \in TargetIds /\ default \in IdsOf(pair.targets)
  <2>1. CASE card.radio = 0
    BY <2>1, PairParts
  <2>2. CASE card.radio # 0
    <3>1. card.radio \in DOMAIN pair.targets
      BY <2>2, <1>0 DEF Fits
    <3>2. pair.targets[card.radio].id \in TargetIds
      BY <3>1, PairParts, TargetIs
    <3> QED
      BY <2>2, <3>1, <3>2 DEF IdsOf
  <2> QED
    BY <2>1, <2>2
<1>2. \A j \in DOMAIN pair.targets :
        /\ read(j) \in TargetConfig /\ read(j).id = pair.targets[j].id
        /\ read(j).url = card.targets[j].url /\ read(j).prices = card.targets[j].prices
        /\ read(j).key = pair.targets[j].key
        /\ read(j).id = default => read(j).on
  <2> TAKE j \in DOMAIN pair.targets
  <2> DEFINE e == pair.targets[j]
             u == card.targets[j].url
             p == card.targets[j].prices
             o == card.targets[j].on \/ pair.targets[j].id = default
  <2>1. e \in TargetConfig
    BY PairParts
  <2>2. u \in Urls /\ p \in Seq(Rules)
    BY DEF Fits
  <2>3. o \in BOOLEAN
    OBVIOUS
  <2>4. read(j) = [e EXCEPT !.url = u, !.prices = p, !.on = o]
    OBVIOUS
  <2>5. e.id = default => o
    OBVIOUS
  <2> HIDE DEF e, u, p, o, default, read
  <2>6. /\ read(j) \in TargetConfig /\ read(j).id = e.id /\ read(j).url = u /\ read(j).prices = p
        /\ read(j).key = e.key /\ read(j).on = o
    BY <2>1, <2>2, <2>3, <2>4 DEF TargetConfig
  <2> QED
    BY <2>5, <2>6 DEF e, u, p
<1>3. /\ targets \in Seq(TargetConfig) /\ DOMAIN targets = DOMAIN pair.targets
      /\ \A j \in DOMAIN pair.targets : targets[j] = read(j)
  <2>1. \A j \in DOMAIN pair.targets : targets[j] = read(j)
    OBVIOUS
  <2>2. DOMAIN targets = DOMAIN pair.targets /\ targets = [j \in DOMAIN pair.targets |-> targets[j]]
    OBVIOUS
  <2>3. \A j \in DOMAIN pair.targets : targets[j] \in TargetConfig
    BY <1>2, <2>1
  <2>4. targets \in Seq(TargetConfig)
    <3> HIDE DEF read, targets
    <3> QED
      BY <1>0, <2>2, <2>3, MappedSeq
  <2> QED
    BY <2>1, <2>2, <2>4
<1>4. \A k \in DOMAIN pair.groups :
        group(k) \in LoadBalancerGroup /\ SoundMembers(group(k).members, pair.targets)
  <2> TAKE k \in DOMAIN pair.groups
  <2> DEFINE g == pair.groups[k]
             ms == Members(card.groups[k], g.members, pair.targets)
  <2>1. g \in LoadBalancerGroup /\ SoundMembers(g.members, pair.targets)
    BY PairParts
  <2>2. g.members \in Seq(Member)
    BY <2>1, GroupIs DEF Member
  <2>3. card.groups[k].model \in [card.groups[k].ticked -> Models]
    BY DEF Fits
  <2>4. ms \in Seq(Member) /\ SoundMembers(ms, pair.targets)
    BY <1>0, <2>1, <2>2, <2>3, MembersAre
  <2>5. group(k) = [g EXCEPT !.members = ms]
    BY DEF CollectedGroup
  <2> HIDE DEF g, ms, group
  <2> QED
    BY <2>1, <2>4, <2>5 DEF LoadBalancerGroup, Member
<1>5. groups \in Seq(LoadBalancerGroup) /\ DOMAIN groups = DOMAIN pair.groups
      /\ \A k \in DOMAIN pair.groups : groups[k] = group(k)
  <2>1. \A k \in DOMAIN pair.groups : groups[k] = group(k)
    OBVIOUS
  <2>2. DOMAIN groups = DOMAIN pair.groups /\ groups = [j \in DOMAIN pair.groups |-> groups[j]]
    OBVIOUS
  <2>3. \A j \in DOMAIN pair.groups : groups[j] \in LoadBalancerGroup
    BY <1>4, <2>1
  <2>4. groups \in Seq(LoadBalancerGroup)
    <3> HIDE DEF group, groups
    <3> QED
      BY <1>0, <2>2, <2>3, MappedSeq
  <2> QED
    BY <2>1, <2>2, <2>4
<1>6. y \in ProxyPair /\ y.id = pair.id /\ y.default = default /\ y.targets = targets /\ y.groups = groups
  <2>1. y = [pair EXCEPT !.default = default, !.targets = targets, !.groups = groups]
    BY DEF CollectedPair
  <2> HIDE DEF default, targets, groups, y
  <2> QED
    BY <1>0, <1>1, <1>3, <1>5, <2>1 DEF ProxyPair
<1> HIDE DEF y, targets, groups, read, group, default
<1>7. \A j \in DOMAIN pair.targets : y.targets[j] = read(j) /\ y.targets[j].id = pair.targets[j].id
  BY <1>2, <1>3, <1>6
<1>8. IdsOf(y.targets) = IdsOf(pair.targets) /\ DOMAIN y.targets = DOMAIN pair.targets
  BY <1>3, <1>6, <1>7 DEF IdsOf
<1>9. Apart(y.targets)
  BY <1>7, <1>8 DEF Apart, SoundPair
<1>10. \A j \in DOMAIN y.targets : SoundTarget(y.id, y.targets[j], D)
  <2> TAKE j \in DOMAIN y.targets
  <2>1. j \in DOMAIN pair.targets /\ SoundTarget(pair.id, pair.targets[j], D)
    BY <1>8, PairParts
  <2>2. NoneTwice(card.targets[j].prices)
    BY <2>1 DEF Fits
  <2> QED
    BY <2>1, <2>2, <1>2, <1>6, <1>7 DEF SoundTarget
<1>11. \A k \in DOMAIN y.groups : SoundMembers(y.groups[k].members, y.targets)
  BY <1>4, <1>5, <1>6, <1>8 DEF SoundMembers
<1>12. SoundPair(y, D)
  <2>1. y.id \in D /\ y.default \in IdsOf(y.targets)
    BY <1>1, <1>6, <1>8, PairParts
  <2> QED
    BY <1>6, <1>9, <1>10, <1>11, <2>1, PairMade
<1>13. WellFormed(y)
  <2>1. PICK j \in DOMAIN pair.targets : pair.targets[j].id = default
    BY <1>1 DEF IdsOf
  <2>2. y.targets[j] \in ToSet(y.targets) /\ y.targets[j].id = y.default /\ y.targets[j].on
    BY <2>1, <1>2, <1>6, <1>7, <1>8 DEF ToSet
  <2>3. \A k \in DOMAIN y.groups : \A m \in ToSet(y.groups[k].members) : m.target \in IdsOf(y.targets)
    BY <1>11 DEF SoundMembers, ToSet
  <2>4. \A x \in ToSet(y.targets) : NoneTwice(x.prices)
    BY <1>10 DEF SoundTarget, ToSet
  <2> QED
    BY <2>2, <2>3, <2>4 DEF WellFormed
<1>14. \A j \in DOMAIN pair.targets : y.targets[j].url = card.targets[j].url
  BY <1>2, <1>7
<1> QED
  BY <1>5, <1>6, <1>7, <1>8, <1>12, <1>13, <1>14 DEF y

-----------------------------------------------------------------------------
(* Objects painted; lists that changed in one pair.                        *)

\* A painted card shows its pair.
LEMMA CardIs ==
  ASSUME NEW D, NEW pair, SoundPair(pair, D)
  PROVE  /\ Fits(Card(pair), pair)
         /\ \A j \in DOMAIN pair.targets : Card(pair).targets[j].url = pair.targets[j].url
<1> DEFINE c == Card(pair)
           ts == [j \in DOMAIN pair.targets |-> TargetCard(pair.targets[j], pair)]
           gs == [k \in DOMAIN pair.groups |-> GroupCard(pair.groups[k], pair.targets)]
           r  == IF pair.default \in IdsOf(pair.targets) THEN IndexOf(pair.targets, pair.default) ELSE 0
<1>1. /\ DOMAIN c = {"switch", "radio", "targets", "groups"}
      /\ c.switch = pair.enabled /\ c.radio = r /\ c.targets = ts /\ c.groups = gs
  BY DEF Card
<1> HIDE DEF c
<1>2. pair.enabled \in BOOLEAN
  BY PairParts
<1>3. r \in 0 .. Len(pair.targets)
  <2>1. \E j \in DOMAIN pair.targets : pair.targets[j].id = pair.default
    BY PairParts DEF IdsOf
  <2>2. IndexOf(pair.targets, pair.default) \in DOMAIN pair.targets
    BY <2>1 DEF IndexOf
  <2> QED
    BY <2>2, PairParts
<1>4. ASSUME NEW j \in DOMAIN pair.targets
      PROVE  /\ ts[j] \in [url : Urls, on : BOOLEAN, prices : Seq(Rules)]
             /\ NoneTwice(ts[j].prices) /\ ts[j].url = pair.targets[j].url
  <2>1. pair.targets[j] \in TargetConfig /\ NoneTwice(pair.targets[j].prices)
    BY PairParts DEF SoundTarget
  <2>2. ts[j] = [url |-> pair.targets[j].url, on |-> pair.targets[j].on \/ pair.default = pair.targets[j].id,
                 prices |-> pair.targets[j].prices]
    BY DEF TargetCard
  <2>3. (pair.targets[j].on \/ pair.default = pair.targets[j].id) \in BOOLEAN
    OBVIOUS
  <2> HIDE DEF ts
  <2> QED
    BY <2>1, <2>2, <2>3, TargetIs
<1>5. ASSUME NEW k \in DOMAIN pair.groups
      PROVE  /\ DOMAIN gs[k] = {"ticked", "model"} /\ gs[k].ticked \subseteq TargetIds
             /\ gs[k].model \in [gs[k].ticked -> Models]
  <2> DEFINE g == pair.groups[k]
             ticked == {t \in IdsOf(pair.targets) : \E m \in DOMAIN g.members : g.members[m].target = t}
             model(t) == (CHOOSE m \in ToSet(g.members) : m.target = t).model
  <2>1. g.members \in Seq(Member)
    BY PairParts, GroupIs DEF Member
  <2>2. ASSUME NEW t \in ticked
        PROVE  model(t) \in Models
    <3>1. \E m \in ToSet(g.members) : m.target = t
      BY DEF ToSet
    <3>2. \A m \in ToSet(g.members) : m \in Member
      BY <2>1 DEF ToSet
    <3> QED
      BY <3>1, <3>2 DEF Member
  <2>3. ticked \subseteq TargetIds
    BY PairParts, TargetIs DEF IdsOf
  <2>4. gs[k] = [ticked |-> ticked, model |-> [t \in ticked |-> model(t)]]
    BY DEF GroupCard
  <2> HIDE DEF ticked, model, gs
  <2> QED
    BY <2>2, <2>3, <2>4
<1>6. DOMAIN ts = DOMAIN pair.targets /\ DOMAIN gs = DOMAIN pair.groups
  OBVIOUS
<1> HIDE DEF ts, gs, r
<1>7. Fits(c, pair)
  BY <1>1, <1>2, <1>3, <1>4, <1>5, <1>6 DEF Fits
<1> QED
  BY <1>1, <1>4, <1>7 DEF c

LEMMA PaintedIs ==
  ASSUME NEW D, NEW ps, Sound(ps, D), NEW h, AllTell(ps, h)
  PROVE  AllFit(PaintedForm(ps), ps) /\ Answering(PaintedForm(ps), ps, h)
<1>1. DOMAIN PaintedForm(ps) = DOMAIN ps /\ \A i \in DOMAIN ps : PaintedForm(ps)[i] = Card(ps[i])
  BY DEF PaintedForm
<1>2. \A i \in DOMAIN ps :
        /\ Fits(PaintedForm(ps)[i], ps[i])
        /\ \A j \in DOMAIN ps[i].targets : PaintedForm(ps)[i].targets[j].url = ps[i].targets[j].url
  BY <1>1, ListIs, CardIs
<1> QED
  BY <1>1, <1>2 DEF AllFit, Answering, AllTell, Tells

\* The controls read into the objects
LEMMA CollectedIs ==
  ASSUME NEW D, Sound(pairs, D), AllFit(form, pairs)
  PROVE  /\ Sound(Collected, D) /\ DOMAIN Collected = DOMAIN pairs
         /\ \A i \in DOMAIN pairs :
              /\ WellFormed(Collected[i]) /\ Collected[i].id = pairs[i].id
              /\ DOMAIN Collected[i].targets = DOMAIN pairs[i].targets
              /\ DOMAIN Collected[i].groups = DOMAIN pairs[i].groups
              /\ \A j \in DOMAIN pairs[i].targets :
                   /\ Collected[i].targets[j].id = pairs[i].targets[j].id
                   /\ Collected[i].targets[j].url = form[i].targets[j].url
<1>1. /\ DOMAIN Collected = DOMAIN pairs /\ Collected = [i \in DOMAIN pairs |-> Collected[i]]
      /\ \A i \in DOMAIN pairs : Collected[i] = CollectedPair(pairs[i], form[i])
  BY DEF Collected
<1>2. \A i \in DOMAIN pairs : SoundPair(pairs[i], D) /\ Fits(form[i], pairs[i])
  BY ListIs DEF AllFit
<1>3. Sound(Collected, D)
  BY <1>1, <1>2, CollectedPairIs, ListMade
<1> QED
  BY <1>1, <1>2, <1>3, CollectedPairIs

LEMMA CardOfPart ==
  ASSUME NEW D, NEW pair, SoundPair(pair, D), NEW y, SoundPair(y, D),
         DOMAIN y.targets = DOMAIN pair.targets, DOMAIN y.groups = DOMAIN pair.groups,
         NEW card, Fits(card, pair)
  PROVE  Fits(card, y)
<1>1. Len(y.targets) = Len(pair.targets)
  BY PairParts
<1> QED
  BY <1>1 DEF Fits

LEMMA IdsSame ==
  ASSUME NEW s, NEW t, DOMAIN s = DOMAIN t, \A i \in DOMAIN s : s[i].id = t[i].id
  PROVE  IdsOf(s) = IdsOf(t)
  BY DEF IdsOf

\* A pair gives way to one of the same id.
LEMMA PairReplaced ==
  ASSUME NEW D, NEW ps, Sound(ps, D), NEW h, AllTell(ps, h), NEW i \in DOMAIN ps,
         NEW p, SoundPair(p, D), p.id = ps[i].id, Tells(p, h)
  PROVE  LET new == [ps EXCEPT ![i] = p]
         IN  Sound(new, D) /\ AllTell(new, h) /\ IdsOf(new) = IdsOf(ps)
<1> DEFINE new == [ps EXCEPT ![i] = p]
<1>1. /\ DOMAIN new = DOMAIN ps /\ new = [k \in DOMAIN ps |-> new[k]]
      /\ new[i] = p /\ \A k \in DOMAIN ps : k # i => new[k] = ps[k]
  OBVIOUS
<1> HIDE DEF new
<1>2. \A k \in DOMAIN ps : SoundPair(new[k], D) /\ new[k].id = ps[k].id
  BY <1>1, ListIs
<1>3. Sound(new, D)
  BY <1>1, <1>2, ListMade
<1>4. AllTell(new, h)
  BY <1>1 DEF AllTell
<1>5. IdsOf(new) = IdsOf(ps)
  BY <1>1, <1>2, IdsSame
<1> QED
  BY <1>3, <1>4, <1>5 DEF new

LEMMA MoreDrawn ==
  ASSUME NEW D, NEW E, D \subseteq E, NEW ps, Sound(ps, D)
  PROVE  Sound(ps, E)
  BY DEF Sound, SoundPair, SoundTarget

\* A pair whose targets are some of those of a sound one, in whatever order
LEMMA FromTargets ==
  ASSUME NEW D, NEW pair, SoundPair(pair, D), NEW h, Tells(pair, h),
         NEW y \in ProxyPair, y.id = pair.id, Apart(y.targets), y.default \in IdsOf(y.targets),
         \A k \in DOMAIN y.groups : SoundMembers(y.groups[k].members, y.targets),
         \A j \in DOMAIN y.targets : \E n \in DOMAIN pair.targets :
           /\ y.targets[j].id = pair.targets[n].id /\ y.targets[j].url = pair.targets[n].url
           /\ y.targets[j].key = pair.targets[n].key /\ NoneTwice(y.targets[j].prices)
  PROVE  SoundPair(y, D) /\ Tells(y, h)
<1>1. \A j \in DOMAIN y.targets : y.targets[j] \in TargetConfig
  BY PairIs
<1>2. \A j \in DOMAIN y.targets : SoundTarget(y.id, y.targets[j], D)
  BY <1>1 DEF SoundPair, SoundTarget
<1>3. Tells(y, h)
  BY DEF Tells
<1> QED
  BY <1>2, <1>3 DEF SoundPair

\* What they were read from still shows them.
LEMMA CollectedStands ==
  ASSUME NEW D, Sound(pairs, D), AllFit(form, pairs), NEW h, Answering(form, pairs, h)
  PROVE  /\ Sound(Collected, D) /\ AllTell(Collected, h) /\ IdsOf(Collected) = IdsOf(pairs)
         /\ AllFit(form, Collected) /\ Answering(form, Collected, h)
         /\ DOMAIN Collected = DOMAIN pairs
         /\ \A i \in DOMAIN pairs : DOMAIN Collected[i].targets = DOMAIN pairs[i].targets
<1>1. /\ Sound(Collected, D) /\ DOMAIN Collected = DOMAIN pairs
      /\ \A i \in DOMAIN pairs :
           /\ Collected[i].id = pairs[i].id
           /\ DOMAIN Collected[i].targets = DOMAIN pairs[i].targets
           /\ DOMAIN Collected[i].groups = DOMAIN pairs[i].groups
           /\ \A j \in DOMAIN pairs[i].targets :
                /\ Collected[i].targets[j].id = pairs[i].targets[j].id
                /\ Collected[i].targets[j].url = form[i].targets[j].url
  BY CollectedIs
<1> DEFINE new == Collected
<1>2. ASSUME NEW i \in DOMAIN new, NEW j \in DOMAIN new[i].targets
      PROVE  /\ Says(new[i].targets[j].url, h[<<new[i].id, new[i].targets[j].id>>])
             /\ Says(form[i].targets[j].url, h[<<new[i].id, new[i].targets[j].id>>])
  <2>1. /\ i \in DOMAIN pairs /\ j \in DOMAIN pairs[i].targets /\ new[i].id = pairs[i].id
        /\ new[i].targets[j].id = pairs[i].targets[j].id /\ new[i].targets[j].url = form[i].targets[j].url
    BY <1>1
  <2> HIDE DEF new
  <2>2. Says(form[i].targets[j].url, h[<<pairs[i].id, pairs[i].targets[j].id>>])
    BY <2>1 DEF Answering
  <2> QED
    BY <2>1, <2>2
<1> HIDE DEF new
<1>3. AllTell(Collected, h) /\ Answering(form, Collected, h)
  <2>1. AllTell(new, h)
    BY <1>2 DEF AllTell, Tells
  <2>2. Answering(form, new, h)
    BY <1>2 DEF Answering
  <2> QED
    BY <2>1, <2>2 DEF new
<1>4. \A i \in DOMAIN pairs : SoundPair(pairs[i], D) /\ SoundPair(Collected[i], D) /\ Fits(form[i], pairs[i])
  BY <1>1, ListIs DEF AllFit
<1>5. \A i \in DOMAIN pairs : Fits(form[i], Collected[i])
  BY <1>1, <1>4, CardOfPart
<1>6. AllFit(form, Collected)
  BY <1>1, <1>5 DEF AllFit
<1>7. IdsOf(Collected) = IdsOf(pairs)
  BY <1>1, IdsSame
<1> QED
  BY <1>1, <1>3, <1>6, <1>7

-----------------------------------------------------------------------------
(* Edits of a control.                                                     *)

LEMMA CollectedInPage ==
  ASSUME PageInv
  PROVE  /\ Sound(Collected, drawn) /\ AllTell(Collected, typed) /\ IdsOf(Collected) = IdsOf(pairs)
         /\ AllFit(form, Collected) /\ Answering(form, Collected, typed)
         /\ DOMAIN Collected = DOMAIN pairs
         /\ \A i \in DOMAIN pairs : DOMAIN Collected[i].targets = DOMAIN pairs[i].targets
  BY CollectedStands DEF PageInv

LEMMA HistoryKept ==
  ASSUME HistoryInv, typed' = typed, drawn \subseteq drawn'
  PROVE  HistoryInv'
  BY DEF HistoryInv

LEMMA Repainted ==
  ASSUME NEW ps, Paints(ps), DragInv, HistoryInv', Sound(ps, drawn'), AllTell(ps, typed')
  PROVE  PageInv'
<1>1. /\ pairs' = ps /\ form' = PaintedForm(ps)
      /\ IF drag = None THEN drag' = None ELSE drag' = [drag EXCEPT !.seen = FALSE]
  BY DEF Paints, Unseen
<1>2. AllFit(PaintedForm(ps), ps) /\ Answering(PaintedForm(ps), ps, typed')
  BY PaintedIs
<1>3. DragInv'
  <2>1. CASE drag = None
    BY <1>1, <2>1 DEF DragInv
  <2>2. CASE drag # None
    <3>1. DOMAIN drag = {"pair", "order", "seen"} /\ IsOrder(drag.order)
      BY <2>2 DEF DragInv
    <3>2. DOMAIN drag' = {"pair", "order", "seen"} /\ drag'.order = drag.order /\ drag'.seen = FALSE
      BY <1>1, <2>2, <3>1
    <3> QED
      BY <1>1, <3>1, <3>2 DEF DragInv
  <2> QED
    BY <2>1, <2>2
<1> QED
  BY <1>1, <1>2, <1>3 DEF PageInv

\* What the page does on its own

\* An edit leaves the page's promises and takes no object of an import away, but by RemovePair.
EditKeeps == PageInv' /\ drawn \subseteq drawn' /\ IdsOf(pairs) \subseteq IdsOf(pairs')

LEMMA FormChanged ==
  ASSUME AllFit(form, pairs), NEW i \in DOMAIN pairs, NEW card, Fits(card, pairs[i])
  PROVE  AllFit([form EXCEPT ![i] = card], pairs)
  BY DEF AllFit

\* The controls change, and what the text fields show is what was typed there.
LEMMA ControlsChanged ==
  ASSUME PageInv, drag = None, UNCHANGED <<pairs, drag, drawn>>,
         NEW i \in DOMAIN pairs, NEW card, Fits(card, pairs[i]), form' = [form EXCEPT ![i] = card],
         typed' = typed, \A j \in DOMAIN pairs[i].targets : card.targets[j].url = form[i].targets[j].url
  PROVE  EditKeeps
<1>1. AllFit(form', pairs)
  BY FormChanged DEF PageInv
<1>2. /\ form'[i] = card /\ \A k \in DOMAIN pairs : k # i => form'[k] = form[k]
  BY DEF PageInv, AllFit
<1>3. Answering(form', pairs, typed)
  BY <1>2 DEF PageInv, Answering
<1>4. HistoryInv' /\ DragInv'
  BY HistoryKept DEF PageInv, DragInv
<1> QED
  BY <1>1, <1>3, <1>4 DEF EditKeeps, PageInv

LEMMA TypeUrlKeeps ==
  ASSUME PageInv, NEW i \in DOMAIN pairs, NEW j \in DOMAIN pairs[i].targets, NEW v \in Urls,
         TypeUrl(i, j, v), drawn' = drawn
  PROVE  EditKeeps
<1> DEFINE place == <<pairs[i].id, pairs[i].targets[j].id>>
           displayed == [form[i].targets[j] EXCEPT !.url = v]
           cards == [form[i].targets EXCEPT ![j] = displayed]
           card == [form[i] EXCEPT !.targets = cards]
<1>1. /\ drag = None /\ drag' = drag /\ pairs' = pairs
      /\ form' = [form EXCEPT ![i] = card] /\ typed' = [typed EXCEPT ![place] = v]
  BY DEF TypeUrl, Acts
<1>2. SoundPair(pairs[i], drawn) /\ Fits(form[i], pairs[i]) /\ i \in DOMAIN form
  BY ListIs DEF PageInv, AllFit
<1>3. place \in Places /\ pairs[i].targets[j].id \in drawn
  BY <1>2, PairParts DEF SoundTarget
<1>4. /\ DOMAIN card = {"switch", "radio", "targets", "groups"} /\ card.targets = cards
      /\ card.switch = form[i].switch /\ card.radio = form[i].radio /\ card.groups = form[i].groups
  BY <1>2 DEF Fits
<1>5. displayed \in [url : Urls, on : BOOLEAN, prices : Seq(Rules)] /\ displayed.url = v
        /\ displayed.prices = form[i].targets[j].prices
  <2>1. form[i].targets[j] \in [url : Urls, on : BOOLEAN, prices : Seq(Rules)]
    BY <1>2 DEF Fits
  <2> QED
    BY <2>1
<1>6. /\ DOMAIN cards = DOMAIN pairs[i].targets /\ cards[j] = displayed
      /\ \A l \in DOMAIN pairs[i].targets : l # j => cards[l] = form[i].targets[l]
  BY <1>2 DEF Fits
<1> HIDE DEF card, cards, displayed
<1>7. Fits(card, pairs[i])
  BY <1>2, <1>4, <1>5, <1>6 DEF Fits
<1>8. AllFit(form', pairs)
  BY <1>1, <1>7, FormChanged DEF PageInv
<1>9. form'[i] = card /\ \A k \in DOMAIN pairs : k # i => form'[k] = form[k]
  BY <1>1, <1>2 DEF PageInv, AllFit
<1>10. /\ typed' \in [Places -> Urls \cup {None}] /\ typed'[place] = v
       /\ \A other \in Places : other # place => typed'[other] = typed[other]
  BY <1>1, <1>3 DEF PageInv, HistoryInv
<1>11. Answering(form', pairs, typed')
  <2> SUFFICES ASSUME NEW k \in DOMAIN pairs, NEW l \in DOMAIN pairs[k].targets
               PROVE  Says(form'[k].targets[l].url, typed'[<<pairs[k].id, pairs[k].targets[l].id>>])
    BY DEF Answering
  <2>1. CASE k = i /\ l = j
    BY <2>1, <1>4, <1>5, <1>6, <1>9, <1>10, EditorAssumption DEF Says
  <2>2. CASE ~(k = i /\ l = j)
    <3>1. <<pairs[k].id, pairs[k].targets[l].id>> \in Places
      BY ListIs, PairParts DEF PageInv
    <3>2. <<pairs[k].id, pairs[k].targets[l].id>> # place
      <4>1. pairs[k].id = pairs[i].id => k = i
        BY DEF PageInv, Sound, Apart
      <4>2. k = i /\ pairs[k].targets[l].id = pairs[i].targets[j].id => l = j
        BY <1>2 DEF SoundPair, Apart
      <4> QED
        BY <2>2, <4>1, <4>2
    <3>3. form'[k].targets[l].url = form[k].targets[l].url
      BY <2>2, <1>4, <1>6, <1>9
    <3> QED
      BY <3>1, <3>2, <3>3, <1>10 DEF PageInv, Answering
  <2> QED
    BY <2>1, <2>2
<1>12. HistoryInv'
  <2>1. \A other \in Places : typed'[other] # None \/ Keys[other] # None => other[2] \in drawn
    BY <1>3, <1>10 DEF PageInv, HistoryInv
  <2> QED
    BY <2>1, <1>10 DEF HistoryInv
<1>13. DragInv'
  BY <1>1 DEF DragInv
<1> QED
  BY <1>1, <1>8, <1>11, <1>12, <1>13 DEF PageInv, EditKeeps

LEMMA TypePatternKeeps ==
  ASSUME PageInv, NEW i \in DOMAIN pairs, NEW j \in DOMAIN pairs[i].targets,
         NEW n \in DOMAIN form[i].targets[j].prices, NEW v \in Patterns, TypePattern(i, j, n, v), drawn' = drawn
  PROVE  EditKeeps
<1> DEFINE x == form[i].targets[j]
           prices == [x.prices EXCEPT ![n] = v]
           displayed == [x EXCEPT !.prices = prices]
           cards == [form[i].targets EXCEPT ![j] = displayed]
           card == [form[i] EXCEPT !.targets = cards]
<1>1. drag = None /\ UNCHANGED <<drag, pairs, typed>> /\ form' = [form EXCEPT ![i] = card]
  BY DEF TypePattern, Acts
<1>2. Fits(form[i], pairs[i])
  BY DEF PageInv, AllFit
<1>3. /\ DOMAIN card = {"switch", "radio", "targets", "groups"} /\ card.targets = cards
      /\ card.switch = form[i].switch /\ card.radio = form[i].radio /\ card.groups = form[i].groups
  BY <1>2 DEF Fits
<1>4. x \in [url : Urls, on : BOOLEAN, prices : Seq(Rules)] /\ NoneTwice(x.prices)
  BY <1>2 DEF Fits
<1>5. prices \in Seq(Rules) /\ NoneTwice(prices)
  <2>1. x.prices \in Seq(Rules) /\ v \in Rules /\ n \in DOMAIN x.prices
    BY <1>4 DEF Rules
  <2> HIDE DEF x
  <2>2. /\ DOMAIN prices = DOMAIN x.prices /\ prices[n] = v
        /\ \A m \in DOMAIN x.prices : m # n => prices[m] = x.prices[m]
    BY <2>1
  <2>3. prices \in Seq(Rules)
    BY <2>1
  <2> HIDE DEF prices
  <2> QED
    BY <1>4, <2>2, <2>3 DEF NoneTwice
<1>6. displayed \in [url : Urls, on : BOOLEAN, prices : Seq(Rules)] /\ displayed.url = x.url /\ displayed.prices = prices
  <2> HIDE DEF x, prices
  <2> QED
    BY <1>4, <1>5
<1>7. /\ DOMAIN cards = DOMAIN pairs[i].targets /\ cards[j] = displayed
      /\ \A l \in DOMAIN pairs[i].targets : l # j => cards[l] = form[i].targets[l]
  <2> HIDE DEF displayed
  <2> QED
    BY <1>2 DEF Fits
<1> HIDE DEF card, cards, displayed, prices
<1>8. Fits(card, pairs[i])
  BY <1>2, <1>3, <1>5, <1>6, <1>7 DEF Fits
<1>9. \A l \in DOMAIN pairs[i].targets : card.targets[l].url = form[i].targets[l].url
  BY <1>3, <1>6, <1>7
<1> QED
  BY <1>1, <1>8, <1>9, ControlsChanged

LEMMA ToggleTargetKeeps ==
  ASSUME PageInv, NEW i \in DOMAIN pairs, NEW j \in DOMAIN pairs[i].targets, ToggleTarget(i, j), drawn' = drawn
  PROVE  EditKeeps
<1> DEFINE x == form[i].targets[j]
           displayed == [x EXCEPT !.on = ~ x.on]
           cards == [form[i].targets EXCEPT ![j] = displayed]
           card == [form[i] EXCEPT !.targets = cards]
<1>1. drag = None /\ UNCHANGED <<drag, pairs, typed>> /\ form' = [form EXCEPT ![i] = card]
  BY DEF ToggleTarget, Acts
<1>2. Fits(form[i], pairs[i])
  BY DEF PageInv, AllFit
<1>3. /\ DOMAIN card = {"switch", "radio", "targets", "groups"} /\ card.targets = cards
      /\ card.switch = form[i].switch /\ card.radio = form[i].radio /\ card.groups = form[i].groups
  BY <1>2 DEF Fits
<1>4. x \in [url : Urls, on : BOOLEAN, prices : Seq(Rules)] /\ NoneTwice(x.prices)
  BY <1>2 DEF Fits
<1>6. displayed \in [url : Urls, on : BOOLEAN, prices : Seq(Rules)] /\ displayed.url = x.url /\ displayed.prices = x.prices
  <2> HIDE DEF x
  <2> QED
    BY <1>4
<1>7. /\ DOMAIN cards = DOMAIN pairs[i].targets /\ cards[j] = displayed
      /\ \A l \in DOMAIN pairs[i].targets : l # j => cards[l] = form[i].targets[l]
  <2> HIDE DEF displayed
  <2> QED
    BY <1>2 DEF Fits
<1> HIDE DEF card, cards, displayed
<1>8. Fits(card, pairs[i])
  BY <1>2, <1>3, <1>4, <1>6, <1>7 DEF Fits
<1>9. \A l \in DOMAIN pairs[i].targets : card.targets[l].url = form[i].targets[l].url
  BY <1>3, <1>6, <1>7
<1> QED
  BY <1>1, <1>8, <1>9, ControlsChanged

LEMMA TypeModelKeeps ==
  ASSUME PageInv, NEW i \in DOMAIN pairs, NEW k \in DOMAIN pairs[i].groups,
         NEW t \in form[i].groups[k].ticked, NEW v \in Models, TypeModel(i, k, t, v), drawn' = drawn
  PROVE  EditKeeps
<1> DEFINE x == form[i].groups[k]
           model == [x.model EXCEPT ![t] = v]
           boxes == [x EXCEPT !.model = model]
           groups == [form[i].groups EXCEPT ![k] = boxes]
           card == [form[i] EXCEPT !.groups = groups]
<1>1. drag = None /\ UNCHANGED <<drag, pairs, typed>> /\ form' = [form EXCEPT ![i] = card]
  BY DEF TypeModel, Acts
<1>2. Fits(form[i], pairs[i])
  BY DEF PageInv, AllFit
<1>3. /\ DOMAIN card = {"switch", "radio", "targets", "groups"} /\ card.groups = groups
      /\ card.switch = form[i].switch /\ card.radio = form[i].radio /\ card.targets = form[i].targets
  BY <1>2 DEF Fits
<1>4. DOMAIN x = {"ticked", "model"} /\ x.ticked \subseteq TargetIds /\ x.model \in [x.ticked -> Models]
  BY <1>2 DEF Fits
<1>5. model \in [x.ticked -> Models]
  BY <1>4
<1>6. DOMAIN boxes = {"ticked", "model"} /\ boxes.ticked = x.ticked /\ boxes.model = model
  <2> HIDE DEF x, model
  <2> QED
    BY <1>4
<1>7. /\ DOMAIN groups = DOMAIN pairs[i].groups /\ groups[k] = boxes
      /\ \A l \in DOMAIN pairs[i].groups : l # k => groups[l] = form[i].groups[l]
  <2> HIDE DEF boxes
  <2> QED
    BY <1>2 DEF Fits
<1> HIDE DEF card, groups, boxes, model
<1>8. Fits(card, pairs[i])
  BY <1>2, <1>3, <1>4, <1>5, <1>6, <1>7 DEF Fits
<1> QED
  BY <1>1, <1>3, <1>8, ControlsChanged

LEMMA TickKeeps ==
  ASSUME PageInv, NEW i \in DOMAIN pairs, NEW k \in DOMAIN pairs[i].groups,
         NEW t \in IdsOf(pairs[i].targets), Tick(i, k, t), drawn' = drawn
  PROVE  EditKeeps
<1> DEFINE x == form[i].groups[k]
           member == {m \in ToSet(pairs[i].groups[k].members) : m.target = t}
           model == IF member = {} THEN "" ELSE (CHOOSE m \in member : TRUE).model
           boxes == IF t \in x.ticked
                      THEN [ticked |-> x.ticked \ {t}, model |-> Without(x.model, {t})]
                      ELSE [ticked |-> x.ticked \cup {t}, model |-> Put(x.model, t, model)]
           groups == [form[i].groups EXCEPT ![k] = boxes]
           card == [form[i] EXCEPT !.groups = groups]
<1>1. drag = None /\ UNCHANGED <<drag, pairs, typed>> /\ form' = [form EXCEPT ![i] = card]
  BY DEF Tick, Acts
<1>2. Fits(form[i], pairs[i]) /\ SoundPair(pairs[i], drawn)
  BY ListIs DEF PageInv, AllFit
<1>3. /\ DOMAIN card = {"switch", "radio", "targets", "groups"} /\ card.groups = groups
      /\ card.switch = form[i].switch /\ card.radio = form[i].radio /\ card.targets = form[i].targets
  BY <1>2 DEF Fits
<1>4. DOMAIN x = {"ticked", "model"} /\ x.ticked \subseteq TargetIds /\ x.model \in [x.ticked -> Models]
  BY <1>2 DEF Fits
<1>5. t \in TargetIds
  BY <1>2, PairParts, TargetIs DEF IdsOf
<1>6. model \in Models
  <2>1. pairs[i].groups[k].members \in Seq(Member)
    BY <1>2, PairParts, GroupIs DEF Member
  <2>2. ASSUME NEW m \in ToSet(pairs[i].groups[k].members) PROVE m.model \in Models
    <3>1. m \in Member
      BY <2>1 DEF ToSet
    <3> QED
      BY <3>1 DEF Member
  <2> QED
    BY <2>2, EditorAssumption
<1>7. /\ DOMAIN boxes = {"ticked", "model"} /\ boxes.ticked \subseteq TargetIds
      /\ boxes.model \in [boxes.ticked -> Models]
  <2> HIDE DEF x, model
  <2>1. CASE t \in x.ticked
    BY <2>1, <1>4 DEF Without
  <2>2. CASE t \notin x.ticked
    BY <2>2, <1>4, <1>5, <1>6 DEF Put
  <2> QED
    BY <2>1, <2>2
<1>8. /\ DOMAIN groups = DOMAIN pairs[i].groups /\ groups[k] = boxes
      /\ \A l \in DOMAIN pairs[i].groups : l # k => groups[l] = form[i].groups[l]
  <2> HIDE DEF boxes
  <2> QED
    BY <1>2 DEF Fits
<1> HIDE DEF card, groups, boxes
<1>9. Fits(card, pairs[i])
  BY <1>2, <1>3, <1>7, <1>8 DEF Fits
<1> QED
  BY <1>1, <1>3, <1>9, ControlsChanged

-----------------------------------------------------------------------------
(* Edits of the shape: what every one of them needs.                       *)

\* Operations on the shape: what was read, changed, is painted.
LEMMA ReshapeKeeps ==
  ASSUME PageInv, typed' = typed, drawn \subseteq drawn', NEW ps, Paints(ps),
         Sound(ps, drawn'), AllTell(ps, typed), IdsOf(pairs) \subseteq IdsOf(ps)
  PROVE  EditKeeps
<1>1. HistoryInv' /\ DragInv
  BY HistoryKept DEF PageInv
<1>2. PageInv'
  BY <1>1, Repainted
<1>3. pairs' = ps
  BY DEF Paints
<1>4. IdsOf(pairs') = IdsOf(ps)
  BY <1>3 DEF IdsOf
<1> QED
  BY <1>2, <1>4 DEF EditKeeps

\* A pair gives way to one of its id.
LEMMA PairReshaped ==
  ASSUME PageInv, typed' = typed, drawn \subseteq drawn', NEW i \in DOMAIN pairs,
         NEW p, SoundPair(p, drawn'), p.id = Collected[i].id, Tells(p, typed),
         Paints([Collected EXCEPT ![i] = p])
  PROVE  EditKeeps
<1> DEFINE ps == [Collected EXCEPT ![i] = p]
<1>1. /\ Sound(Collected, drawn) /\ AllTell(Collected, typed) /\ IdsOf(Collected) = IdsOf(pairs)
      /\ i \in DOMAIN Collected
  BY CollectedInPage
<1>2. Sound(Collected, drawn')
  BY <1>1, MoreDrawn
<1>3. Sound(ps, drawn') /\ AllTell(ps, typed) /\ IdsOf(ps) = IdsOf(Collected)
  BY <1>1, <1>2, PairReplaced
<1>4. Paints(ps)
  OBVIOUS
<1> HIDE DEF ps
<1> QED
  BY <1>1, <1>3, <1>4, ReshapeKeeps

LEMMA ReadPair ==
  ASSUME PageInv, NEW i \in DOMAIN pairs
  PROVE  /\ SoundPair(Collected[i], drawn) /\ Collected[i] \in ProxyPair /\ Tells(Collected[i], typed)
         /\ Collected[i].id = pairs[i].id /\ DOMAIN Collected[i].targets = DOMAIN pairs[i].targets
         /\ \A j \in DOMAIN pairs[i].targets : Collected[i].targets[j].id = pairs[i].targets[j].id
<1>1. Sound(Collected, drawn) /\ AllTell(Collected, typed) /\ i \in DOMAIN Collected
  BY CollectedInPage
<1>2. SoundPair(Collected[i], drawn) /\ Collected[i] \in ProxyPair
  BY <1>1, ListIs
<1>3. Sound(pairs, drawn) /\ AllFit(form, pairs)
  BY DEF PageInv
<1> QED
  BY <1>1, <1>2, <1>3, CollectedIs DEF AllTell

\* The targets of a pair give way to others of the same ids, with what they came with.
LEMMA TargetsReshaped ==
  ASSUME PageInv, typed' = typed, drawn \subseteq drawn', NEW i \in DOMAIN pairs,
         NEW ts \in Seq(TargetConfig), Apart(ts), IdsOf(ts) = IdsOf(Collected[i].targets),
         \A j \in DOMAIN ts : \E n \in DOMAIN Collected[i].targets :
           /\ ts[j].id = Collected[i].targets[n].id /\ ts[j].url = Collected[i].targets[n].url
           /\ ts[j].key = Collected[i].targets[n].key /\ NoneTwice(ts[j].prices),
         Paints([Collected EXCEPT ![i] = [Collected[i] EXCEPT !.targets = ts]])
  PROVE  EditKeeps
<1> DEFINE pair == Collected[i]
           y == [pair EXCEPT !.targets = ts]
<1>1. SoundPair(pair, drawn) /\ pair \in ProxyPair /\ Tells(pair, typed)
  BY ReadPair
<1>2. /\ y \in ProxyPair /\ y.id = pair.id /\ y.targets = ts
      /\ y.default = pair.default /\ y.groups = pair.groups
  <2> HIDE DEF pair
  <2> QED
    BY <1>1, PairWithTargets
<1>3. SoundPair(y, drawn) /\ Tells(y, typed)
  <2> HIDE DEF y
  <2>1. y.default \in IdsOf(y.targets) /\ Apart(y.targets)
    BY <1>1, <1>2 DEF SoundPair
  <2>2. \A k \in DOMAIN y.groups : SoundMembers(y.groups[k].members, y.targets)
    BY <1>1, <1>2 DEF SoundPair, SoundMembers
  <2>3. \A j \in DOMAIN y.targets : \E n \in DOMAIN pair.targets :
           /\ y.targets[j].id = pair.targets[n].id /\ y.targets[j].url = pair.targets[n].url
           /\ y.targets[j].key = pair.targets[n].key /\ NoneTwice(y.targets[j].prices)
    BY <1>2
  <2> HIDE DEF pair
  <2> QED
    BY <1>1, <1>2, <2>1, <2>2, <2>3, FromTargets
<1>4. SoundPair(y, drawn')
  BY <1>3 DEF SoundPair, SoundTarget
<1>5. Paints([Collected EXCEPT ![i] = y])
  OBVIOUS
<1> HIDE DEF y, pair
<1> QED
  BY <1>2, <1>3, <1>4, <1>5, PairReshaped DEF pair

\* The prices of one target do.
LEMMA PricesReshaped ==
  ASSUME PageInv, typed' = typed, drawn' = drawn, NEW i \in DOMAIN pairs, NEW j \in DOMAIN pairs[i].targets,
         NEW prices \in Seq(Rules), NoneTwice(prices),
         Paints([Collected EXCEPT ![i].targets[j].prices = prices])
  PROVE  EditKeeps
<1> DEFINE pair == Collected[i]
           x == [pair.targets[j] EXCEPT !.prices = prices]
           ts == [pair.targets EXCEPT ![j] = x]
<1>1. SoundPair(pair, drawn) /\ pair \in ProxyPair /\ j \in DOMAIN pair.targets
  BY ReadPair
<1>2. /\ pair.targets \in Seq(TargetConfig) /\ pair.targets[j] \in TargetConfig
      /\ \A n \in DOMAIN pair.targets : SoundTarget(pair.id, pair.targets[n], drawn)
  <2> HIDE DEF pair
  <2> QED
    BY <1>1, PairParts
<1>3. /\ x \in TargetConfig /\ x.id = pair.targets[j].id /\ x.url = pair.targets[j].url
      /\ x.key = pair.targets[j].key /\ x.prices = prices
  <2> HIDE DEF pair
  <2> QED
    BY <1>2, TargetWithPrices
<1>4. [Collected EXCEPT ![i].targets[j].prices = prices]
        = [Collected EXCEPT ![i] = [pair EXCEPT !.targets = ts]]
  OBVIOUS
<1>5. /\ ts \in Seq(TargetConfig) /\ DOMAIN ts = DOMAIN pair.targets /\ ts[j] = x
      /\ \A n \in DOMAIN pair.targets : n # j => ts[n] = pair.targets[n]
  <2> HIDE DEF x, pair
  <2> QED
    BY <1>1, <1>2, <1>3
<1> HIDE DEF ts, x
<1>6. \A n \in DOMAIN ts :
           /\ ts[n].id = pair.targets[n].id /\ ts[n].url = pair.targets[n].url
           /\ ts[n].key = pair.targets[n].key /\ NoneTwice(ts[n].prices)
  BY <1>2, <1>3, <1>5 DEF SoundTarget
<1>7. IdsOf(ts) = IdsOf(pair.targets)
  BY <1>5, <1>6, IdsSame
<1>8. Apart(ts)
  <2>1. Apart(pair.targets)
    BY <1>1 DEF SoundPair
  <2> QED
    BY <2>1, <1>5, <1>6 DEF Apart
<1>9. Paints([Collected EXCEPT ![i] = [Collected[i] EXCEPT !.targets = ts]])
  BY <1>4
<1> QED
  BY <1>5, <1>6, <1>7, <1>8, <1>9, TargetsReshaped

-----------------------------------------------------------------------------
(* Price rules, and targets that change places.                            *)

LEMMA ReadPrices ==
  ASSUME PageInv, NEW i \in DOMAIN pairs, NEW j \in DOMAIN pairs[i].targets
  PROVE  /\ Collected[i].targets[j].prices = form[i].targets[j].prices
         /\ form[i].targets[j].prices \in Seq(Rules) /\ NoneTwice(form[i].targets[j].prices)
<1> DEFINE pair == pairs[i]
           card == form[i]
           default == IF card.radio = 0 THEN pair.default ELSE pair.targets[card.radio].id
           Read(target, displayed) == [target EXCEPT !.url = displayed.url, !.prices = displayed.prices,
                                                 !.on = displayed.on \/ target.id = default]
           targets == [n \in DOMAIN pair.targets |-> Read(pair.targets[n], card.targets[n])]
           groups  == [k \in DOMAIN pair.groups |-> CollectedGroup(pair.groups[k], card.groups[k], pair.targets)]
<1>1. Collected[i] = [pair EXCEPT !.default = default, !.targets = targets, !.groups = groups]
  BY DEF Collected, CollectedPair
<1>2. SoundPair(pair, drawn) /\ pair \in ProxyPair /\ pair.targets[j] \in TargetConfig /\ Fits(card, pair)
  BY ListIs, PairParts DEF PageInv, AllFit
<1>3. Collected[i].targets = targets
  <2> HIDE DEF default, targets, groups, card
  <2> QED
    BY <1>1, <1>2 DEF ProxyPair
<1>4. targets[j] = Read(pair.targets[j], card.targets[j])
  OBVIOUS
<1>5. Read(pair.targets[j], card.targets[j]).prices = card.targets[j].prices
  <2> HIDE DEF pair, card, default
  <2> QED
    BY <1>2 DEF TargetConfig
<1>6. card.targets[j].prices \in Seq(Rules) /\ NoneTwice(card.targets[j].prices)
  BY <1>2 DEF Fits
<1> HIDE DEF targets, default, Read
<1> QED
  BY <1>3, <1>4, <1>5, <1>6

LEMMA AppendIs ==
  ASSUME NEW V, NEW s \in Seq(V), NEW e \in V
  PROVE  /\ Append(s, e) \in Seq(V) /\ Len(Append(s, e)) = Len(s) + 1 /\ Append(s, e)[Len(s) + 1] = e
         /\ \A n \in 1 .. Len(s) : Append(s, e)[n] = s[n]
  OBVIOUS

LEMMA AddRuleKeeps ==
  ASSUME PageInv, NEW i \in DOMAIN pairs, NEW j \in DOMAIN pairs[i].targets, AddRule(i, j), drawn' = drawn
  PROVE  EditKeeps
<1> DEFINE old == Collected[i].targets[j].prices
           blank == ""
           new == Append(old, blank)
<1>1. typed' = typed /\ Paints([Collected EXCEPT ![i].targets[j].prices = new])
  <2>1. [Collected EXCEPT ![i].targets[j].prices = Append(@, "")]
          = [Collected EXCEPT ![i].targets[j].prices = new]
    OBVIOUS
  <2> QED
    BY <2>1 DEF AddRule, Reshapes
<1>2. old \in Seq(Rules) /\ NoneTwice(old)
  BY ReadPrices
<1>3. blank \in Rules /\ blank \in Patterns
  BY EditorAssumption DEF Rules
<1> HIDE DEF blank
<1>4. new \in Seq(Rules) /\ NoneTwice(new)
  <2> HIDE DEF old
  <2>1. /\ new \in Seq(Rules) /\ Len(new) = Len(old) + 1 /\ new[Len(old) + 1] = blank
        /\ \A n \in 1 .. Len(old) : new[n] = old[n]
    BY <1>2, <1>3, AppendIs
  <2> HIDE DEF new
  <2>2. ASSUME NEW a \in DOMAIN new, NEW b \in DOMAIN new, a # b
        PROVE  new[a] # new[b] \/ new[a] \in Patterns
    <3>1. \A m \in DOMAIN new : (m \in DOMAIN old /\ new[m] = old[m]) \/ (m = Len(old) + 1
            /\ new[m] \in Patterns)
      BY <1>2, <1>3, <2>1
    <3>2. new[a] # new[b] \/ new[b] \in Patterns \/ new[a] \in Patterns
      BY <1>2, <2>2, <3>1 DEF NoneTwice
    <3> QED
      BY <3>2
  <2> QED
    BY <2>1, <2>2 DEF NoneTwice
<1> HIDE DEF new, old
<1> QED
  BY <1>1, <1>4, PricesReshaped

LEMMA RemoveRuleKeeps ==
  ASSUME PageInv, NEW i \in DOMAIN pairs, NEW j \in DOMAIN pairs[i].targets,
         NEW n \in DOMAIN form[i].targets[j].prices, RemoveRule(i, j, n), drawn' = drawn
  PROVE  EditKeeps
<1> DEFINE old == Collected[i].targets[j].prices
           new == RemoveAt(old, n)
<1>1. typed' = typed /\ Paints([Collected EXCEPT ![i].targets[j].prices = new])
  <2>1. [Collected EXCEPT ![i].targets[j].prices = RemoveAt(@, n)]
          = [Collected EXCEPT ![i].targets[j].prices = new]
    OBVIOUS
  <2> QED
    BY <2>1 DEF RemoveRule, Reshapes
<1>2. old \in Seq(Rules) /\ NoneTwice(old) /\ n \in DOMAIN old
  BY ReadPrices
<1>3. new \in Seq(Rules) /\ NoneTwice(new)
  <2> HIDE DEF old
  <2>1. /\ new \in Seq(Rules) /\ Len(new) = Len(old) - 1
        /\ \A m \in 1 .. Len(old) - 1 : new[m] = old[IF m < n THEN m ELSE m + 1]
    BY <1>2, RemoveAtIs
  <2> HIDE DEF new
  <2> DEFINE at(m) == IF m < n THEN m ELSE m + 1
  <2>2. DOMAIN new = 1 .. Len(old) - 1 /\ DOMAIN old = 1 .. Len(old) /\ Len(old) \in Nat /\ n \in 1 .. Len(old)
    BY <1>2, <2>1
  <2>3. \A m \in DOMAIN new : at(m) \in DOMAIN old /\ new[m] = old[at(m)]
    BY <2>1, <2>2
  <2>4. \A a, b \in DOMAIN new : a # b => at(a) # at(b)
    BY <2>2
  <2> HIDE DEF at
  <2> QED
    BY <1>2, <2>1, <2>3, <2>4 DEF NoneTwice
<1> HIDE DEF new, old
<1> QED
  BY <1>1, <1>3, PricesReshaped

\* `new` is `old` with two neighbours swapped; `new` is `old` in another order.
Swapped(new, old, n) ==
  new = [m \in DOMAIN old |-> old[IF m = n THEN n + 1 ELSE IF m = n + 1 THEN n ELSE m]]
Reorders(perm, new, old) ==
  /\ perm \in [DOMAIN old -> DOMAIN old]
  /\ \A l, m \in DOMAIN old : perm[l] = perm[m] => l = m
  /\ \A m \in DOMAIN old : \E l \in DOMAIN old : perm[l] = m
  /\ new = [m \in DOMAIN old |-> old[perm[m]]]

LEMMA Neighbours ==
  ASSUME NEW V, NEW s \in Seq(V), NEW n \in 1 .. Len(s) - 1, NEW t, Swapped(t, s, n)
  PROVE  \E perm : Reorders(perm, t, s)
<1> DEFINE at(m) == IF m = n THEN n + 1 ELSE IF m = n + 1 THEN n ELSE m
           perm == [m \in DOMAIN s |-> at(m)]
<1>1. Len(s) \in Nat /\ DOMAIN s = 1 .. Len(s)
  OBVIOUS
<1>2. perm \in [DOMAIN s -> DOMAIN s]
  BY <1>1
<1>3. \A m \in DOMAIN s : at(m) \in DOMAIN s /\ at(at(m)) = m
  <2> DEFINE L == Len(s)
  <2>1. L \in Nat /\ DOMAIN s = 1 .. L /\ n \in 1 .. L - 1
    BY <1>1
  <2> HIDE DEF L
  <2>2. \A m \in 1 .. L : at(m) \in 1 .. L /\ at(at(m)) = m
    BY <2>1
  <2> QED
    BY <2>1, <2>2
<1>4. \A m \in DOMAIN s : perm[m] \in DOMAIN s /\ perm[perm[m]] = m
  BY <1>3
<1>5. t = [m \in DOMAIN s |-> s[perm[m]]]
  BY DEF Swapped
<1> HIDE DEF perm
<1>6. Reorders(perm, t, s)
  BY <1>2, <1>4, <1>5 DEF Reorders
<1> QED
  BY <1>6

LEMMA Permuted ==
  ASSUME NEW V, NEW old \in Seq(V), NEW perm, NEW ts, Reorders(perm, ts, old)
  PROVE  /\ ts \in Seq(V) /\ DOMAIN ts = DOMAIN old /\ Len(ts) = Len(old)
         /\ \A m \in DOMAIN old : ts[m] = old[perm[m]] /\ perm[m] \in DOMAIN old
         /\ \A l, m \in DOMAIN old : perm[l] = perm[m] => l = m
         /\ \A m \in DOMAIN old : \E l \in DOMAIN old : perm[l] = m
<1>1. /\ DOMAIN ts = DOMAIN old /\ \A m \in DOMAIN old : ts[m] = old[perm[m]] /\ perm[m] \in DOMAIN old
      /\ \A l, m \in DOMAIN old : perm[l] = perm[m] => l = m
      /\ \A m \in DOMAIN old : \E l \in DOMAIN old : perm[l] = m
      /\ ts = [m \in DOMAIN old |-> ts[m]]
  BY DEF Reorders
<1>3. \A m \in DOMAIN old : old[m] \in V
  OBVIOUS
<1>4. \A m \in DOMAIN old : ts[m] \in V
  BY <1>1, <1>3
<1> QED
  BY <1>1, <1>4, MappedSeq

LEMMA SwapRulesKeeps ==
  ASSUME PageInv, NEW i \in DOMAIN pairs, NEW j \in DOMAIN pairs[i].targets,
         NEW n \in DOMAIN form[i].targets[j].prices, SwapRules(i, j, n), drawn' = drawn
  PROVE  EditKeeps
<1> DEFINE old == Collected[i].targets[j].prices
           new == [m \in DOMAIN old |-> old[IF m = n THEN n + 1 ELSE IF m = n + 1 THEN n ELSE m]]
<1>1. /\ typed' = typed /\ Paints([Collected EXCEPT ![i].targets[j].prices = new])
      /\ n < Len(form[i].targets[j].prices)
  <2>1. [Collected EXCEPT ![i].targets[j].prices =
                 [m \in DOMAIN @ |-> @[IF m = n THEN n + 1 ELSE IF m = n + 1 THEN n ELSE m]]]
          = [Collected EXCEPT ![i].targets[j].prices = new]
    OBVIOUS
  <2> QED
    BY <2>1 DEF SwapRules, Reshapes
<1>2. old \in Seq(Rules) /\ NoneTwice(old) /\ n \in 1 .. Len(old) - 1
  <2>1. form[i].targets[j].prices \in Seq(Rules)
    BY ReadPrices
  <2>2. n \in 1 .. Len(form[i].targets[j].prices) - 1
    BY <1>1, <2>1
  <2> QED
    BY <2>2, ReadPrices
<1>3. new \in Seq(Rules) /\ NoneTwice(new)
  <2> HIDE DEF old
  <2>0. Swapped(new, old, n)
    BY DEF Swapped
  <2> HIDE DEF new
  <2>1. PICK perm : Reorders(perm, new, old)
    BY <1>2, <2>0, Neighbours
  <2>2. /\ new \in Seq(Rules) /\ DOMAIN new = DOMAIN old
        /\ \A m \in DOMAIN old : new[m] = old[perm[m]] /\ perm[m] \in DOMAIN old
        /\ \A l, m \in DOMAIN old : perm[l] = perm[m] => l = m
    BY <1>2, <2>1, Permuted
  <2>3. ASSUME NEW l \in DOMAIN new, NEW m \in DOMAIN new, l # m PROVE new[l] # new[m] \/ new[l] \in Patterns
    <3>1. /\ new[l] = old[perm[l]] /\ perm[l] \in DOMAIN old
          /\ new[m] = old[perm[m]] /\ perm[m] \in DOMAIN old /\ perm[l] # perm[m]
      BY <2>2, <2>3
    <3> QED
      BY <1>2, <3>1 DEF NoneTwice
  <2> QED
    BY <2>2, <2>3 DEF NoneTwice
<1> HIDE DEF new, old
<1> QED
  BY <1>1, <1>3, PricesReshaped

LEMMA TargetsPermuted ==
  ASSUME NEW old \in Seq(TargetConfig), Apart(old), NEW perm, NEW ts, Reorders(perm, ts, old)
  PROVE  /\ ts \in Seq(TargetConfig) /\ DOMAIN ts = DOMAIN old /\ Apart(ts) /\ IdsOf(ts) = IdsOf(old)
         /\ \A m \in DOMAIN ts : \E n \in DOMAIN old : ts[m] = old[n]
<1>1. ts \in Seq(TargetConfig) /\ DOMAIN ts = DOMAIN old
  BY Permuted
<1>2. \A m \in DOMAIN old : ts[m] = old[perm[m]] /\ perm[m] \in DOMAIN old
  BY Permuted
<1>3. \A l, m \in DOMAIN old : perm[l] = perm[m] => l = m
  BY Permuted
<1>4. \A m \in DOMAIN old : \E l \in DOMAIN old : perm[l] = m
  BY Permuted
<1>5. Apart(ts)
  <2> SUFFICES ASSUME NEW l \in DOMAIN old, NEW m \in DOMAIN old, ts[l].id = ts[m].id
               PROVE  l = m
    BY <1>1 DEF Apart
  <2>1. old[perm[l]].id = old[perm[m]].id /\ perm[l] \in DOMAIN old /\ perm[m] \in DOMAIN old
    BY <1>2
  <2>2. perm[l] = perm[m]
    BY <2>1 DEF Apart
  <2> QED
    BY <1>3, <2>2
<1>6. \A m \in DOMAIN ts : \E n \in DOMAIN old : ts[m] = old[n]
  BY <1>1, <1>2
<1>7. ASSUME NEW n \in DOMAIN old PROVE \E m \in DOMAIN ts : ts[m] = old[n]
  <2>1. PICK m \in DOMAIN old : perm[m] = n
    BY <1>4
  <2> QED
    BY <1>1, <1>2, <2>1
<1>8. IdsOf(ts) = IdsOf(old)
  BY <1>6, <1>7 DEF IdsOf
<1> QED
  BY <1>1, <1>5, <1>6, <1>8

\* The targets of a pair in another order
LEMMA Rearranged ==
  ASSUME NEW D, NEW pair, SoundPair(pair, D), NEW h, Tells(pair, h),
         NEW perm, NEW ts, Reorders(perm, ts, pair.targets)
  PROVE  LET y == [pair EXCEPT !.targets = ts]
         IN  SoundPair(y, D) /\ Tells(y, h) /\ y.id = pair.id
<1> DEFINE y == [pair EXCEPT !.targets = ts]
<1>1. /\ pair \in ProxyPair /\ pair.targets \in Seq(TargetConfig) /\ Apart(pair.targets)
      /\ pair.default \in IdsOf(pair.targets)
      /\ \A n \in DOMAIN pair.targets : NoneTwice(pair.targets[n].prices)
      /\ \A k \in DOMAIN pair.groups : SoundMembers(pair.groups[k].members, pair.targets)
  BY PairParts DEF SoundPair, SoundTarget
<1>2. /\ ts \in Seq(TargetConfig) /\ Apart(ts) /\ IdsOf(ts) = IdsOf(pair.targets)
      /\ \A m \in DOMAIN ts : \E n \in DOMAIN pair.targets : ts[m] = pair.targets[n]
  BY <1>1, TargetsPermuted
<1>6. /\ y \in ProxyPair /\ y.id = pair.id /\ y.targets = ts
      /\ y.default = pair.default /\ y.groups = pair.groups
  BY <1>1, <1>2, PairWithTargets
<1> HIDE DEF y
<1>7. \A k \in DOMAIN y.groups : SoundMembers(y.groups[k].members, y.targets)
  BY <1>1, <1>2, <1>6 DEF SoundMembers
<1>8. ASSUME NEW m \in DOMAIN y.targets
      PROVE  \E n \in DOMAIN pair.targets :
               /\ y.targets[m].id = pair.targets[n].id /\ y.targets[m].url = pair.targets[n].url
               /\ y.targets[m].key = pair.targets[n].key /\ NoneTwice(y.targets[m].prices)
  <2>1. PICK n \in DOMAIN pair.targets : y.targets[m] = pair.targets[n]
    BY <1>2, <1>6
  <2> QED
    BY <1>1, <2>1
<1>9. Apart(y.targets) /\ y.default \in IdsOf(y.targets)
  BY <1>1, <1>2, <1>6
<1>10. SoundPair(y, D) /\ Tells(y, h)
  BY <1>6, <1>7, <1>8, <1>9, FromTargets
<1> QED
  BY <1>6, <1>10 DEF y

LEMMA MoveByKeyKeeps ==
  ASSUME PageInv, NEW i \in DOMAIN pairs, NEW j \in DOMAIN pairs[i].targets, MoveByKey(i, j), drawn' = drawn
  PROVE  EditKeeps
<1> DEFINE pair == Collected[i]
           old == pair.targets
           new == [m \in DOMAIN old |-> old[IF m = j THEN j + 1 ELSE IF m = j + 1 THEN j ELSE m]]
           y == [pair EXCEPT !.targets = new]
<1>1. typed' = typed /\ Paints([Collected EXCEPT ![i] = y]) /\ j < Len(pairs[i].targets)
  <2>1. [Collected EXCEPT ![i].targets =
                 [m \in DOMAIN @ |-> @[IF m = j THEN j + 1 ELSE IF m = j + 1 THEN j ELSE m]]]
          = [Collected EXCEPT ![i] = y]
    OBVIOUS
  <2> QED
    BY <2>1 DEF MoveByKey, Reshapes
<1>2. SoundPair(pair, drawn) /\ Tells(pair, typed) /\ DOMAIN old = DOMAIN pairs[i].targets
  BY ReadPair
<1>3. old \in Seq(TargetConfig) /\ j \in 1 .. Len(old) - 1
  <2>1. pairs[i].targets \in Seq(TargetConfig)
    BY ListIs, PairParts DEF PageInv
  <2>2. old \in Seq(TargetConfig)
    <3> HIDE DEF pair
    <3> QED
      BY <1>2, PairParts
  <2>3. Len(old) = Len(pairs[i].targets)
    <3> HIDE DEF old
    <3> QED
      BY <1>2, <2>1, <2>2
  <2>4. j \in 1 .. Len(pairs[i].targets) - 1
    BY <1>1, <2>1
  <2> HIDE DEF old
  <2> QED
    BY <2>2, <2>3, <2>4
<1>4. PICK perm : Reorders(perm, new, old)
  <2> HIDE DEF old
  <2>1. Swapped(new, old, j)
    BY DEF Swapped
  <2> HIDE DEF new
  <2> QED
    BY <1>3, <2>1, Neighbours
<1>5. SoundPair(y, drawn) /\ Tells(y, typed) /\ y.id = pair.id
  <2> HIDE DEF new, pair
  <2> QED
    BY <1>2, <1>4, Rearranged
<1> HIDE DEF y
<1> QED
  BY <1>1, <1>5, PairReshaped

-----------------------------------------------------------------------------
(* Defaults, groups and new targets.                                       *)

LEMMA ChooseDefaultKeeps ==
  ASSUME PageInv, NEW i \in DOMAIN pairs, NEW j \in DOMAIN pairs[i].targets, ChooseDefault(i, j), drawn' = drawn
  PROVE  EditKeeps
<1> DEFINE card == [form[i] EXCEPT !.radio = j]
           y == CollectedPair(pairs[i], card)
<1>1. typed' = typed /\ Paints([Collected EXCEPT ![i] = y])
  BY DEF ChooseDefault
<1>2. SoundPair(pairs[i], drawn) /\ Fits(form[i], pairs[i]) /\ j \in 0 .. Len(pairs[i].targets)
  BY ListIs, PairParts DEF PageInv, AllFit
<1>3. /\ DOMAIN card = {"switch", "radio", "targets", "groups"} /\ card.targets = form[i].targets
      /\ card.switch = form[i].switch /\ card.radio = j /\ card.groups = form[i].groups
  BY <1>2 DEF Fits
<1> HIDE DEF card
<1>4. Fits(card, pairs[i])
  BY <1>2, <1>3 DEF Fits
<1>5. /\ SoundPair(y, drawn) /\ y.id = pairs[i].id /\ DOMAIN y.targets = DOMAIN pairs[i].targets
      /\ \A n \in DOMAIN pairs[i].targets :
           y.targets[n].id = pairs[i].targets[n].id /\ y.targets[n].url = form[i].targets[n].url
  BY <1>2, <1>3, <1>4, CollectedPairIs
<1> HIDE DEF y
<1>6. Tells(y, typed)
  BY <1>5 DEF PageInv, Answering, Tells
<1> QED
  BY <1>1, <1>5, <1>6, ReadPair, PairReshaped

\* The groups of a pair give way to others.
LEMMA GroupsReshaped ==
  ASSUME PageInv, typed' = typed, drawn \subseteq drawn', NEW i \in DOMAIN pairs,
         NEW gs \in Seq(LoadBalancerGroup),
         \A k \in DOMAIN gs : SoundMembers(gs[k].members, Collected[i].targets),
         Paints([Collected EXCEPT ![i] = [Collected[i] EXCEPT !.groups = gs]])
  PROVE  EditKeeps
<1> DEFINE pair == Collected[i]
           y == [pair EXCEPT !.groups = gs]
<1>1. SoundPair(pair, drawn) /\ pair \in ProxyPair /\ Tells(pair, typed)
  BY ReadPair
<1>2. /\ y \in ProxyPair /\ y.id = pair.id /\ y.targets = pair.targets
      /\ y.default = pair.default /\ y.groups = gs
  <2> HIDE DEF pair
  <2> QED
    BY <1>1, PairWithGroups
<1>3. SoundPair(y, drawn') /\ Tells(y, typed)
  <2> HIDE DEF y
  <2> QED
    BY <1>1, <1>2 DEF SoundPair, SoundTarget, Tells
<1>4. Paints([Collected EXCEPT ![i] = y])
  OBVIOUS
<1> HIDE DEF y, pair
<1> QED
  BY <1>2, <1>3, <1>4, PairReshaped DEF pair

LEMMA ReadGroups ==
  ASSUME PageInv, NEW i \in DOMAIN pairs
  PROVE  /\ Collected[i].groups \in Seq(LoadBalancerGroup)
              /\ DOMAIN Collected[i].groups = DOMAIN pairs[i].groups
         /\ \A k \in DOMAIN Collected[i].groups :
              SoundMembers(Collected[i].groups[k].members, Collected[i].targets)
<1>1. SoundPair(Collected[i], drawn)
  BY ReadPair
<1>2. Sound(pairs, drawn) /\ AllFit(form, pairs)
  BY DEF PageInv
<1>3. DOMAIN Collected[i].groups = DOMAIN pairs[i].groups
  BY <1>2, CollectedIs
<1>4. Collected[i].groups \in Seq(LoadBalancerGroup)
  BY <1>1, PairParts
<1> QED
  BY <1>1, <1>3, <1>4 DEF SoundPair

LEMMA AddGroupKeeps ==
  ASSUME PageInv, NEW i \in DOMAIN pairs, AddGroup(i)
  PROVE  EditKeeps
<1>1. PICK g \in GroupIds :
        /\ Draws({g}) /\ typed' = typed
        /\ Paints([Collected EXCEPT ![i].groups = Append(@, [id |-> g, members |-> <<>>])])
  BY DEF AddGroup
<1> DEFINE old == Collected[i].groups
           new == [id |-> g, members |-> <<>>]
           gs == Append(old, new)
<1>2. drawn \subseteq drawn'
  BY <1>1 DEF Draws
<1>3. old \in Seq(LoadBalancerGroup) /\ \A k \in DOMAIN old : SoundMembers(old[k].members, Collected[i].targets)
  BY ReadGroups
<1>4. new \in LoadBalancerGroup /\ SoundMembers(new.members, Collected[i].targets)
  BY DEF LoadBalancerGroup, SoundMembers
<1>5. Paints([Collected EXCEPT ![i] = [Collected[i] EXCEPT !.groups = gs]])
  <2>1. [Collected EXCEPT ![i].groups = Append(@, [id |-> g, members |-> <<>>])]
          = [Collected EXCEPT ![i] = [Collected[i] EXCEPT !.groups = gs]]
    OBVIOUS
  <2> QED
    BY <1>1, <2>1
<1> HIDE DEF new, old
<1>6. gs \in Seq(LoadBalancerGroup) /\ \A k \in DOMAIN gs : gs[k] = new \/ \E l \in DOMAIN old : gs[k] = old[l]
  BY <1>3, <1>4
<1> HIDE DEF gs
<1>7. \A k \in DOMAIN gs : SoundMembers(gs[k].members, Collected[i].targets)
  BY <1>3, <1>4, <1>6
<1> QED
  BY <1>1, <1>2, <1>5, <1>6, <1>7, GroupsReshaped

LEMMA RemoveGroupKeeps ==
  ASSUME PageInv, NEW i \in DOMAIN pairs, NEW n \in DOMAIN pairs[i].groups, RemoveGroup(i, n), drawn' = drawn
  PROVE  EditKeeps
<1> DEFINE old == Collected[i].groups
           gs == RemoveAt(old, n)
<1>1. typed' = typed /\ Paints([Collected EXCEPT ![i] = [Collected[i] EXCEPT !.groups = gs]])
  <2>1. [Collected EXCEPT ![i].groups = RemoveAt(@, n)] = [Collected EXCEPT ![i]
          = [Collected[i] EXCEPT !.groups = gs]]
    OBVIOUS
  <2> QED
    BY <2>1 DEF RemoveGroup, Reshapes
<1>2. /\ old \in Seq(LoadBalancerGroup) /\ n \in DOMAIN old
      /\ \A k \in DOMAIN old : SoundMembers(old[k].members, Collected[i].targets)
  BY ReadGroups
<1> HIDE DEF old
<1>3. gs \in Seq(LoadBalancerGroup) /\ \A k \in DOMAIN gs : \E l \in DOMAIN old : gs[k] = old[l]
  <2>1. /\ gs \in Seq(LoadBalancerGroup) /\ Len(gs) = Len(old) - 1
        /\ \A j \in 1 .. Len(old) - 1 : gs[j] = old[IF j < n THEN j ELSE j + 1]
    BY <1>2, RemoveAtIs
  <2> HIDE DEF gs
  <2>2. ASSUME NEW k \in DOMAIN gs PROVE \E l \in DOMAIN old : gs[k] = old[l]
    <3>1. /\ DOMAIN old = 1 .. Len(old) /\ Len(old) \in Nat /\ n \in 1 .. Len(old)
          /\ DOMAIN gs = 1 .. Len(old) - 1
      BY <1>2, <2>1
    <3>2. CASE k < n
      BY <2>1, <3>1, <3>2
    <3>3. CASE ~(k < n)
      <4>1. k + 1 \in DOMAIN old /\ gs[k] = old[k + 1]
        BY <2>1, <3>1, <3>3
      <4> QED
        BY <4>1
    <3> QED
      BY <3>2, <3>3
  <2> QED
    BY <2>1, <2>2
<1> HIDE DEF gs
<1>4. \A k \in DOMAIN gs : SoundMembers(gs[k].members, Collected[i].targets)
  BY <1>2, <1>3
<1> QED
  BY <1>1, <1>3, <1>4, GroupsReshaped

\* A new target is what is nowhere remembered.
LEMMA NewTargetIs ==
  ASSUME HistoryInv, NEW p \in ProxyIds, NEW t \in TargetIds, t \notin drawn, NEW D, t \in D
  PROVE  /\ SoundTarget(p, NewTarget(t), D) /\ NewTarget(t).id = t /\ NewTarget(t) \in TargetConfig
         /\ Says(NewTarget(t).url, typed[<<p, t>>])
<1> DEFINE x == NewTarget(t)
<1>1. <<p, t>> \in Places
  BY DEF Places
<1>2. typed[<<p, t>>] = None /\ Keys[<<p, t>>] = None
  <2> DEFINE place == <<p, t>>
  <2>1. place \in Places /\ place[2] = t
    BY <1>1
  <2> HIDE DEF place
  <2>2. typed[place] = None /\ Keys[place] = None
    BY <2>1 DEF HistoryInv
  <2> QED
    BY <2>2 DEF place
<1>3. x.id = t /\ x.url = Fresh /\ x.prices = <<>> /\ x.key = None
  BY DEF NewTarget
<1>4. x \in TargetConfig
  <2> DEFINE none == <<>>
             on == TRUE
             keys == {None} \cup {Keys[place] : place \in Places}
  <2>1. none \in Seq(Rules)
    OBVIOUS
  <2>4. on \in BOOLEAN /\ None \in keys
    OBVIOUS
  <2>5. Fresh \in Urls
    BY EditorAssumption
  <2>2. x = [id |-> t, url |-> Fresh, on |-> on, prices |-> none, key |-> None]
    BY DEF NewTarget
  <2>3. TargetConfig = [id : TargetIds, url : Urls, on : BOOLEAN, prices : Seq(Rules), key : keys]
    BY DEF TargetConfig
  <2> HIDE DEF none, on, keys, x
  <2> QED
    BY <2>1, <2>2, <2>3, <2>4, <2>5
<1>5. NoneTwice(x.prices)
  BY <1>3 DEF NoneTwice
<1> HIDE DEF x
<1>6. SoundTarget(p, x, D) /\ Says(x.url, typed[<<p, t>>])
  BY <1>2, <1>3, <1>4, <1>5, EditorAssumption DEF SoundTarget, Says
<1> QED
  BY <1>3, <1>4, <1>6 DEF x

LEMMA AddTargetKeeps ==
  ASSUME PageInv, NEW i \in DOMAIN pairs, AddTarget(i)
  PROVE  EditKeeps
<1>1. PICK t \in TargetIds :
        /\ Draws({t}) /\ typed' = typed
        /\ Paints([Collected EXCEPT ![i].targets = Append(@, NewTarget(t))])
  BY DEF AddTarget
<1> DEFINE pair == Collected[i]
           old == pair.targets
           new == NewTarget(t)
           ts == Append(old, new)
           y == [pair EXCEPT !.targets = ts]
<1>2. drawn \subseteq drawn' /\ t \in drawn' /\ t \notin drawn
  BY <1>1 DEF Draws
<1>3. SoundPair(pair, drawn) /\ pair \in ProxyPair /\ Tells(pair, typed)
  BY ReadPair
<1>4. SoundTarget(pair.id, new, drawn') /\ new.id = t /\ new \in TargetConfig
        /\ Says(new.url, typed[<<pair.id, t>>])
  <2> HIDE DEF pair, new
  <2>1. pair.id \in ProxyIds /\ HistoryInv
    BY <1>3, PairParts DEF PageInv
  <2> QED
    BY <1>2, <2>1, NewTargetIs DEF new
<1>5. Paints([Collected EXCEPT ![i] = y])
  <2>1. [Collected EXCEPT ![i].targets = Append(@, NewTarget(t))] = [Collected EXCEPT ![i] = y]
    OBVIOUS
  <2> QED
    BY <1>1, <2>1
<1> HIDE DEF pair
<1>6. old \in Seq(TargetConfig) /\ Apart(old) /\ \A j \in DOMAIN old : SoundTarget(pair.id, old[j], drawn)
  BY <1>3, PairParts DEF SoundPair
<1> HIDE DEF new, old
<1>7. /\ ts \in Seq(TargetConfig) /\ Len(ts) = Len(old) + 1 /\ ts[Len(old) + 1] = new
      /\ \A j \in 1 .. Len(old) : ts[j] = old[j]
  BY <1>4, <1>6, AppendIs
<1> HIDE DEF ts
<1>8. /\ Len(old) \in Nat /\ DOMAIN old = 1 .. Len(old) /\ DOMAIN ts = 1 .. Len(old) + 1
  BY <1>6, <1>7
<1>9. \A j \in DOMAIN ts : (j \in DOMAIN old /\ ts[j] = old[j]) \/ (j = Len(old) + 1 /\ ts[j] = new)
  BY <1>7, <1>8
<1>10. \A j \in DOMAIN old : old[j].id # t
  BY <1>2, <1>6 DEF SoundTarget
<1>11. Apart(ts)
  BY <1>4, <1>6, <1>9, <1>10 DEF Apart
<1>12. \A j \in DOMAIN ts : SoundTarget(pair.id, ts[j], drawn')
  BY <1>2, <1>4, <1>6, <1>9 DEF SoundTarget
<1>13. IdsOf(old) \subseteq IdsOf(ts)
  BY <1>7, <1>8 DEF IdsOf
<1>14. /\ y \in ProxyPair /\ y.id = pair.id /\ y.targets = ts
       /\ y.default = pair.default /\ y.groups = pair.groups
  BY <1>3, <1>7, PairWithTargets
<1> HIDE DEF y
<1>15. SoundPair(y, drawn')
  <2>1. pair.id \in drawn' /\ y.default \in IdsOf(y.targets)
    BY <1>2, <1>3, <1>13, <1>14 DEF SoundPair, old
  <2>2. \A k \in DOMAIN y.groups : SoundMembers(y.groups[k].members, y.targets)
    BY <1>3, <1>13, <1>14 DEF SoundPair, SoundMembers, old
  <2> QED
    BY <1>11, <1>12, <1>14, <2>1, <2>2, PairMade
<1>16. Tells(y, typed)
  <2>1. \A j \in DOMAIN old : Says(old[j].url, typed[<<pair.id, old[j].id>>])
    BY <1>3 DEF Tells, old
  <2>2. \A j \in DOMAIN ts : Says(ts[j].url, typed[<<pair.id, ts[j].id>>])
    BY <1>4, <1>9, <2>1
  <2> QED
    BY <1>14, <2>2 DEF Tells
<1> QED
  BY <1>1, <1>2, <1>5, <1>14, <1>15, <1>16, PairReshaped DEF pair

-----------------------------------------------------------------------------
(* New pairs; pairs and targets that go.                                   *)

LEMMA NewPairIs ==
  ASSUME HistoryInv, NEW p \in ProxyIds, NEW t \in TargetIds, t \notin drawn, NEW D, t \in D, p \in D
  PROVE  SoundPair(NewPair(p, t), D) /\ NewPair(p, t).id = p /\ Tells(NewPair(p, t), typed)
<1> DEFINE y == NewPair(p, t)
           new == NewTarget(t)
           ts == <<new>>
           none == <<>>
           off == FALSE
<1>1. SoundTarget(p, new, D) /\ new.id = t /\ new \in TargetConfig /\ Says(new.url, typed[<<p, t>>])
  BY NewTargetIs
<1>2. y = [id |-> p, enabled |-> off, targets |-> ts, default |-> t, groups |-> none]
  BY DEF NewPair
<1>3. none \in Seq(LoadBalancerGroup) /\ DOMAIN none = {}
  OBVIOUS
<1>4. off \in BOOLEAN
  OBVIOUS
<1> HIDE DEF y, none, off, new
<1>5. ts \in Seq(TargetConfig) /\ DOMAIN ts = {1} /\ ts[1] = new
  BY <1>1
<1> HIDE DEF ts
<1>6. /\ y \in ProxyPair /\ y.id = p /\ y.targets = ts /\ y.default = t /\ y.groups = none
  BY <1>2, <1>3, <1>4, <1>5 DEF ProxyPair
<1>7. Apart(ts) /\ t \in IdsOf(ts)
  BY <1>1, <1>5 DEF Apart, IdsOf
<1>8. SoundPair(y, D)
  BY <1>1, <1>3, <1>5, <1>6, <1>7 DEF SoundPair
<1>9. Tells(y, typed)
  BY <1>1, <1>5, <1>6 DEF Tells
<1> QED
  BY <1>6, <1>8, <1>9 DEF y

LEMMA AddPairKeeps ==
  ASSUME PageInv, AddPair
  PROVE  EditKeeps
<1>1. PICK id \in ProxyIds, t \in TargetIds :
        Draws({id, t}) /\ typed' = typed /\ Paints(Append(Collected, NewPair(id, t)))
  BY DEF AddPair
<1> DEFINE old == Collected
           new == NewPair(id, t)
           ps == Append(old, new)
<1>2. drawn \subseteq drawn' /\ {id, t} \subseteq drawn' /\ id \notin drawn /\ t \notin drawn
  BY <1>1 DEF Draws
<1>3. SoundPair(new, drawn') /\ new.id = id /\ Tells(new, typed) /\ new \in ProxyPair
  <2>1. HistoryInv
    BY DEF PageInv
  <2>2. SoundPair(new, drawn') /\ new.id = id /\ Tells(new, typed)
    BY <1>2, <2>1, NewPairIs
  <2> HIDE DEF new
  <2> QED
    BY <2>2, PairParts
<1>4. Sound(old, drawn) /\ AllTell(old, typed) /\ IdsOf(old) = IdsOf(pairs)
  BY CollectedInPage
<1>5. old \in Seq(ProxyPair) /\ Apart(old) /\ \A i \in DOMAIN old : SoundPair(old[i], drawn)
        /\ old[i].id \in drawn
  BY <1>4 DEF Sound, SoundPair
<1> HIDE DEF old, new
<1>6. Sound(old, drawn')
  BY <1>2, <1>4, MoreDrawn
<1>7. /\ ps \in Seq(ProxyPair) /\ Len(ps) = Len(old) + 1 /\ ps[Len(old) + 1] = new
      /\ \A j \in 1 .. Len(old) : ps[j] = old[j]
  BY <1>3, <1>5, AppendIs
<1>8. Paints(ps)
  BY <1>1 DEF old, new
<1> HIDE DEF ps
<1>9. /\ Len(old) \in Nat /\ DOMAIN old = 1 .. Len(old) /\ DOMAIN ps = 1 .. Len(old) + 1
  BY <1>5, <1>7
<1>10. \A j \in DOMAIN ps : (j \in DOMAIN old /\ ps[j] = old[j]) \/ (j = Len(old) + 1 /\ ps[j] = new)
  BY <1>7, <1>9
<1>11. Apart(ps)
  BY <1>2, <1>3, <1>5, <1>10 DEF Apart
<1>12. Sound(ps, drawn')
  BY <1>3, <1>6, <1>7, <1>10, <1>11 DEF Sound
<1>13. AllTell(ps, typed)
  BY <1>3, <1>4, <1>10 DEF AllTell
<1>14. IdsOf(pairs) \subseteq IdsOf(ps)
  <2>1. \A j \in DOMAIN old : j \in DOMAIN ps /\ ps[j].id = old[j].id
    BY <1>7, <1>9
  <2> QED
    BY <1>4, <2>1 DEF IdsOf
<1> QED
  BY <1>1, <1>2, <1>8, <1>12, <1>13, <1>14, ReshapeKeeps

LEMMA RemovePairKeeps ==
  ASSUME PageInv, NEW i \in DOMAIN pairs, RemovePair(i), drawn' = drawn
  PROVE  PageInv' /\ IdsOf(pairs) \ {pairs[i].id} \subseteq IdsOf(pairs')
<1> DEFINE old == Collected
           ps == RemoveAt(old, i)
<1>1. typed' = typed /\ Paints(ps)
  BY DEF RemovePair, history
<1>2. /\ Sound(old, drawn) /\ AllTell(old, typed) /\ DOMAIN old = DOMAIN pairs
      /\ \A l \in DOMAIN pairs : old[l].id = pairs[l].id
  BY CollectedInPage, ReadPair
<1>3. old \in Seq(ProxyPair) /\ Apart(old) /\ \A l \in DOMAIN old : SoundPair(old[l], drawn)
  BY <1>2 DEF Sound
<1> DEFINE at(m) == IF m < i THEN m ELSE m + 1
<1> HIDE DEF old
<1>4. /\ ps \in Seq(ProxyPair) /\ Len(ps) = Len(old) - 1
      /\ \A j \in 1 .. Len(old) - 1 : ps[j] = old[at(j)]
  BY <1>2, <1>3, RemoveAtIs
<1> HIDE DEF ps
<1>5. DOMAIN ps = 1 .. Len(old) - 1 /\ DOMAIN old = 1 .. Len(old) /\ Len(old) \in Nat /\ i \in 1 .. Len(old)
  BY <1>2, <1>3, <1>4
<1>6. \A j \in DOMAIN ps : at(j) \in DOMAIN old /\ ps[j] = old[at(j)]
  BY <1>4, <1>5
<1>7. \A j, l \in DOMAIN ps : at(j) = at(l) => j = l
  BY <1>5
<1>8. \A l \in DOMAIN old : l # i => \E j \in DOMAIN ps : at(j) = l
  <2> SUFFICES ASSUME NEW l \in DOMAIN old, l # i
               PROVE  \E j \in DOMAIN ps : at(j) = l
    OBVIOUS
  <2> DEFINE j == IF l < i THEN l ELSE l - 1
  <2>1. j \in DOMAIN ps /\ at(j) = l
    BY <1>5
  <2> QED
    BY <2>1
<1> HIDE DEF at
<1>9. Apart(ps)
  BY <1>3, <1>6, <1>7 DEF Apart
<1>10. Sound(ps, drawn) /\ AllTell(ps, typed)
  BY <1>2, <1>3, <1>4, <1>6, <1>9 DEF Sound, AllTell
<1>11. PageInv'
  BY <1>1, <1>10, HistoryKept, Repainted DEF PageInv
<1>12. \A l \in DOMAIN pairs : l # i => pairs[l].id \in IdsOf(ps)
  <2> SUFFICES ASSUME NEW l \in DOMAIN pairs, l # i
               PROVE  pairs[l].id \in IdsOf(ps)
    OBVIOUS
  <2>1. PICK j \in DOMAIN ps : at(j) = l
    BY <1>2, <1>8
  <2>2. ps[j].id = pairs[l].id
    BY <1>2, <1>6, <2>1
  <2> QED
    BY <2>2 DEF IdsOf
<1>13. IdsOf(pairs') = IdsOf(ps)
  BY <1>1 DEF Paints, IdsOf
<1>14. IdsOf(pairs) \ {pairs[i].id} \subseteq IdsOf(ps)
  BY <1>12 DEF IdsOf
<1> QED
  BY <1>11, <1>13, <1>14

LEMMA RemoveTargetKeeps ==
  ASSUME PageInv, NEW i \in DOMAIN pairs, NEW j \in DOMAIN pairs[i].targets, RemoveTarget(i, j), drawn' = drawn
  PROVE  EditKeeps
<1> DEFINE pair == Collected[i]
           y == WithoutTarget(pair, j)
<1>1. typed' = typed /\ Paints([Collected EXCEPT ![i] = y]) /\ Len(pairs[i].targets) > 1
  <2>1. [Collected EXCEPT ![i] = WithoutTarget(@, j)] = [Collected EXCEPT ![i] = y]
    OBVIOUS
  <2> QED
    BY <2>1 DEF RemoveTarget, Reshapes
<1>2. /\ SoundPair(pair, drawn) /\ pair \in ProxyPair /\ Tells(pair, typed)
      /\ DOMAIN pair.targets = DOMAIN pairs[i].targets
  BY ReadPair
<1> HIDE DEF pair
<1> DEFINE old == pair.targets
           freed == old[j].id
           ts == RemoveAt(old, j)
           default == IF pair.default = freed THEN ts[1].id ELSE pair.default
           gs == [k \in DOMAIN pair.groups |-> Leaving(pair.groups[k], freed)]
<1>3. /\ old \in Seq(TargetConfig) /\ Apart(old) /\ j \in DOMAIN old /\ pair.default \in IdsOf(old)
      /\ \A n \in DOMAIN old : NoneTwice(old[n].prices)
      /\ pair.groups \in Seq(LoadBalancerGroup)
      /\ \A k \in DOMAIN pair.groups : SoundMembers(pair.groups[k].members, old)
  BY <1>2, PairParts DEF SoundPair, SoundTarget
<1>4. Len(old) > 1
  <2>1. pairs[i].targets \in Seq(TargetConfig)
    BY ListIs, PairParts DEF PageInv
  <2> HIDE DEF old
  <2>2. Len(old) = Len(pairs[i].targets)
    BY <1>2, <1>3, <2>1 DEF old
  <2> QED
    BY <1>1, <2>2
<1>5. y = [pair EXCEPT !.targets = ts, !.default = default, !.groups = gs]
  BY DEF WithoutTarget
<1> DEFINE at(m) == IF m < j THEN m ELSE m + 1
<1> HIDE DEF y, old
<1>6. /\ ts \in Seq(TargetConfig) /\ Len(ts) = Len(old) - 1
      /\ \A m \in 1 .. Len(old) - 1 : ts[m] = old[at(m)]
  BY <1>3, RemoveAtIs
<1> HIDE DEF ts
<1>7. /\ DOMAIN ts = 1 .. Len(old) - 1 /\ DOMAIN old = 1 .. Len(old) /\ Len(old) \in Nat /\ j \in 1 .. Len(old)
      /\ 1 \in DOMAIN ts
  BY <1>3, <1>4, <1>6
<1>8. \A m \in DOMAIN ts : at(m) \in DOMAIN old /\ ts[m] = old[at(m)]
  BY <1>6, <1>7
<1>9. \A l, m \in DOMAIN ts : at(l) = at(m) => l = m
  BY <1>7
<1>10. ASSUME NEW l \in DOMAIN old, l # j
       PROVE  \E m \in DOMAIN ts : at(m) = l
  <2> DEFINE m == IF l < j THEN l ELSE l - 1
  <2>1. m \in DOMAIN ts /\ at(m) = l
    BY <1>7, <1>10
  <2> QED
    BY <2>1
<1> HIDE DEF at
<1>11. Apart(ts)
  BY <1>3, <1>8, <1>9 DEF Apart
<1>12. ASSUME NEW id \in IdsOf(old), id # freed
       PROVE  id \in IdsOf(ts)
  <2>1. PICK l \in DOMAIN old : old[l].id = id
    BY DEF IdsOf
  <2>2. PICK m \in DOMAIN ts : at(m) = l
    BY <1>10, <1>12, <2>1
  <2>3. ts[m].id = id
    BY <1>8, <2>1, <2>2
  <2> QED
    BY <2>3 DEF IdsOf
<1>13. default \in IdsOf(ts)
  <2>1. ts[1].id \in IdsOf(ts)
    BY <1>7 DEF IdsOf
  <2> QED
    BY <1>3, <1>12, <2>1
<1>14. default \in TargetIds
  <2>1. \A m \in DOMAIN ts : ts[m].id \in TargetIds
    BY <1>6, TargetIs
  <2> QED
    BY <1>13, <2>1 DEF IdsOf
<1> HIDE DEF default
<1>15. ASSUME NEW k \in DOMAIN pair.groups
       PROVE  gs[k] \in LoadBalancerGroup /\ SoundMembers(gs[k].members, ts)
  <2> DEFINE group == pair.groups[k]
             ms == group.members
             left == Keeping(ms, {m \in ToSet(ms) : m.target # freed})
  <2>1. gs[k] = [group EXCEPT !.members = left]
    BY DEF Leaving
  <2>2. group \in LoadBalancerGroup /\ ms \in Seq(Member) /\ SoundMembers(ms, old)
    <3>1. group \in LoadBalancerGroup
      BY <1>3
    <3> HIDE DEF group
    <3>2. ms \in Seq(Member)
      BY <3>1, GroupIs DEF Member
    <3> QED
      BY <1>3, <3>1, <3>2 DEF group
  <2> HIDE DEF gs, group, ms
  <2>3. /\ left \in Seq(Member)
        /\ \A n \in DOMAIN left : left[n].target # freed /\ \E m \in DOMAIN ms : left[n] = ms[m]
    <3> DEFINE S == {m \in ToSet(ms) : m.target # freed}
    <3> HIDE DEF S
    <3>1. /\ left \in Seq(Member)
          /\ \A n \in DOMAIN left : left[n] \in S /\ \E m \in DOMAIN ms : left[n] = ms[m]
      BY <2>2, KeepingIs DEF S
    <3> QED
      BY <3>1 DEF S
  <2> HIDE DEF left
  <2>4. gs[k] \in LoadBalancerGroup /\ gs[k].members = left
    <3>1. left \in Seq([target : TargetIds, model : Models])
      BY <2>3 DEF Member
    <3>2. [group EXCEPT !.members = left] \in LoadBalancerGroup
            /\ [group EXCEPT !.members = left].members = left
      BY <2>2, <3>1, GroupWithMembers
    <3> QED
      BY <2>1, <3>2
  <2>5. SoundMembers(left, ts)
    <3> SUFFICES ASSUME NEW n \in DOMAIN left PROVE left[n].target \in IdsOf(ts)
      BY DEF SoundMembers
    <3>1. PICK m \in DOMAIN ms : left[n] = ms[m]
      BY <2>3
    <3>2. left[n].target \in IdsOf(old) /\ left[n].target # freed
      BY <2>2, <2>3, <3>1 DEF SoundMembers
    <3> QED
      BY <1>12, <3>2
  <2> QED
    BY <2>4, <2>5
<1>16. gs \in Seq(LoadBalancerGroup) /\ DOMAIN gs = DOMAIN pair.groups
  <2>1. DOMAIN gs = DOMAIN pair.groups /\ gs = [k \in DOMAIN pair.groups |-> gs[k]]
    OBVIOUS
  <2> HIDE DEF gs
  <2> QED
    BY <1>3, <1>15, <2>1, MappedSeq
<1> HIDE DEF gs
<1>17. y \in ProxyPair /\ y.id = pair.id /\ y.targets = ts /\ y.default = default /\ y.groups = gs
  BY <1>2, <1>5, <1>6, <1>14, <1>16 DEF ProxyPair
<1>18. ASSUME NEW m \in DOMAIN y.targets
       PROVE  \E n \in DOMAIN pair.targets :
               /\ y.targets[m].id = pair.targets[n].id /\ y.targets[m].url = pair.targets[n].url
               /\ y.targets[m].key = pair.targets[n].key /\ NoneTwice(y.targets[m].prices)
  <2>1. m \in DOMAIN ts /\ y.targets[m] = old[at(m)] /\ at(m) \in DOMAIN old
    BY <1>8, <1>17, <1>18
  <2>2. NoneTwice(y.targets[m].prices)
    BY <1>3, <2>1
  <2> QED
    BY <2>1, <2>2 DEF old
<1>19. Apart(y.targets) /\ y.default \in IdsOf(y.targets)
  BY <1>11, <1>13, <1>17
<1>20. \A k \in DOMAIN y.groups : SoundMembers(y.groups[k].members, y.targets)
  BY <1>15, <1>16, <1>17
<1>21. SoundPair(y, drawn) /\ Tells(y, typed)
  BY <1>2, <1>17, <1>18, <1>19, <1>20, FromTargets
<1> QED
  BY <1>1, <1>17, <1>21, PairReshaped DEF pair

-----------------------------------------------------------------------------
(* Reading, and a drag from its start to its end.                          *)

\* The objects become what was read, and the controls stay.
LEMMA ReadKeeps ==
  ASSUME PageInv, UNCHANGED <<form, typed, drawn>>, pairs' = Collected, DragInv'
  PROVE  EditKeeps
<1>1. /\ Sound(Collected, drawn) /\ AllFit(form, Collected) /\ Answering(form, Collected, typed)
      /\ IdsOf(Collected) = IdsOf(pairs)
  BY CollectedInPage
<1>2. HistoryInv'
  BY HistoryKept DEF PageInv
<1>3. IdsOf(pairs') = IdsOf(Collected)
  BY DEF IdsOf
<1> QED
  BY <1>1, <1>2, <1>3 DEF PageInv, EditKeeps

\* A drag goes on in what was read.
LEMMA DragStays ==
  ASSUME PageInv, UNCHANGED <<drag, typed>>, pairs' = Collected
  PROVE  DragInv'
<1>1. CASE drag = None
  BY <1>1 DEF DragInv
<1>2. CASE drag # None
  <2>1. /\ DOMAIN drag = {"pair", "order", "seen"} /\ IsOrder(drag.order)
        /\ drag.seen => drag.pair \in DOMAIN pairs /\ Len(drag.order) = Len(pairs[drag.pair].targets)
    BY <1>2 DEF PageInv, DragInv
  <2>2. AllTell(Collected, typed) /\ DOMAIN Collected = DOMAIN pairs
    BY CollectedInPage
  <2>3. ASSUME NEW i \in DOMAIN pairs
        PROVE  Len(Collected[i].targets) = Len(pairs[i].targets)
    <3> DEFINE x == pairs[i].targets
               y == Collected[i].targets
    <3>1. SoundPair(pairs[i], drawn) /\ SoundPair(Collected[i], drawn) /\ DOMAIN x = DOMAIN y
      BY ReadPair, ListIs DEF PageInv
    <3>2. x \in Seq(TargetConfig) /\ y \in Seq(TargetConfig)
      BY <3>1, PairParts
    <3> HIDE DEF x, y
    <3>3. Len(x) = Len(y)
      BY <3>1, <3>2
    <3> QED
      BY <3>3 DEF x, y
  <2> QED
    BY <2>1, <2>2, <2>3 DEF DragInv
<1> QED
  BY <1>1, <1>2

LEMMA SwitchLanguageKeeps ==
  ASSUME PageInv, SwitchLanguage, drawn' = drawn
  PROVE  EditKeeps
  BY ReadKeeps, DragStays DEF SwitchLanguage

LEMMA StartDragKeeps ==
  ASSUME PageInv, NEW i \in DOMAIN pairs, StartDrag(i), drawn' = drawn
  PROVE  EditKeeps
<1> DEFINE n == Len(pairs[i].targets)
           perm == [j \in DOMAIN pairs[i].targets |-> j]
<1>1. /\ pairs' = Collected /\ UNCHANGED <<form, typed>>
      /\ drag' = [pair |-> i, order |-> perm, seen |-> TRUE]
  BY DEF StartDrag
<1>2. pairs[i].targets \in Seq(TargetConfig)
  BY ListIs, PairParts DEF PageInv
<1>3. n \in Nat /\ perm = [j \in 1 .. n |-> j]
  BY <1>2
<1>4. AllTell(Collected, typed) /\ DOMAIN Collected = DOMAIN pairs /\ Len(Collected[i].targets) = n
  <2> DEFINE x == pairs[i].targets
             y == Collected[i].targets
  <2>1. SoundPair(pairs[i], drawn) /\ SoundPair(Collected[i], drawn) /\ DOMAIN x = DOMAIN y
    BY ReadPair, ListIs DEF PageInv
  <2>2. x \in Seq(TargetConfig) /\ y \in Seq(TargetConfig)
    BY <2>1, PairParts
  <2> HIDE DEF x, y
  <2>3. Len(x) = Len(y)
    BY <2>1, <2>2
  <2> QED
    BY <2>3, CollectedInPage DEF x, y
<1> HIDE DEF n, perm
<1>5. IsOrder(perm) /\ Len(perm) = n
  BY <1>3 DEF IsOrder
<1>6. DOMAIN drag' = {"pair", "order", "seen"} /\ drag'.order = perm /\ drag'.pair = i
  BY <1>1
<1>7. DragInv'
  BY <1>1, <1>4, <1>5, <1>6 DEF DragInv, n
<1> QED
  BY <1>1, <1>7, ReadKeeps

\* An element moved to another place: where the j-th came from
CameFrom(j, from, to) ==
  IF j = to THEN from ELSE LET k == IF j < to THEN j ELSE j - 1 IN IF k < from THEN k ELSE k + 1

LEMMA MovedIs ==
  ASSUME NEW V, NEW o \in Seq(V), NEW from \in 1 .. Len(o), NEW to \in 1 .. Len(o)
  PROVE  LET new == InsertAt(RemoveAt(o, from), to, o[from])
         IN  /\ new \in Seq(V) /\ Len(new) = Len(o)
             /\ \A j \in 1 .. Len(o) : new[j] = o[CameFrom(j, from, to)]
<1> DEFINE r == RemoveAt(o, from)
           e == o[from]
           new == InsertAt(r, to, e)
           at(j) == CameFrom(j, from, to)
           N == Len(o)
<1>1. N \in Nat /\ DOMAIN o = 1 .. N /\ e \in V /\ from \in 1 .. N /\ to \in 1 .. N
  OBVIOUS
<1>2. r \in Seq(V) /\ Len(r) = N - 1 /\ \A j \in 1 .. N - 1 : r[j] = o[IF j < from THEN j ELSE j + 1]
  <2>1. o \in Seq(V) /\ from \in DOMAIN o
    BY <1>1
  <2>2. /\ RemoveAt(o, from) \in Seq(V) /\ Len(RemoveAt(o, from)) = Len(o) - 1
        /\ \A j \in 1 .. Len(o) - 1 : RemoveAt(o, from)[j] = o[IF j < from THEN j ELSE j + 1]
    BY <2>1, RemoveAtIs
  <2> QED
    BY <2>2
<1> HIDE DEF r, e
<1>3. new \in Seq(V)
  BY <1>1, <1>2, InsertAtIs
<1>4. Len(new) = N
  BY <1>1, <1>2, InsertAtIs
<1>5. \A j \in 1 .. Len(r) + 1 : new[j] = IF j < to THEN r[j] ELSE IF j = to THEN e ELSE r[j - 1]
  BY <1>1, <1>2, InsertAtIs
<1> HIDE DEF new, N
<1>7. ASSUME NEW j \in 1 .. N PROVE new[j] = o[at(j)]
  <2>1. CASE j = to
    BY <2>1, <1>1, <1>2, <1>5 DEF e, CameFrom
  <2>2. CASE j < to
    <3>1. j \in 1 .. N - 1 /\ new[j] = r[j]
      BY <2>2, <1>1, <1>2, <1>5
    <3> QED
      BY <2>2, <3>1, <1>1, <1>2 DEF CameFrom
  <2>3. CASE to < j
    <3>1. j - 1 \in 1 .. N - 1 /\ new[j] = r[j - 1]
      BY <2>3, <1>1, <1>2, <1>5
    <3> QED
      BY <2>3, <3>1, <1>1, <1>2 DEF CameFrom
  <2> QED
    BY <2>1, <2>2, <2>3, <1>1
<1> QED
  BY <1>3, <1>4, <1>7 DEF new, N, e, r

LEMMA MovedOrder ==
  ASSUME NEW o, IsOrder(o), NEW from \in 1 .. Len(o), NEW to \in 1 .. Len(o)
  PROVE  LET new == InsertAt(RemoveAt(o, from), to, o[from])
         IN  IsOrder(new) /\ Len(new) = Len(o)
<1> DEFINE new == InsertAt(RemoveAt(o, from), to, o[from])
           N == Len(o)
           at(j) == CameFrom(j, from, to)
           back(m) == IF m = from THEN to
                      ELSE LET k == IF m < from THEN m ELSE m - 1 IN IF k < to THEN k ELSE k + 1
<1>0. o \in Seq(Nat)
  BY DEF IsOrder
<1>1. /\ \A n \in DOMAIN o : o[n] \in DOMAIN o
      /\ \A m, n \in DOMAIN o : o[m] = o[n] => m = n
      /\ \A j \in DOMAIN o : \E n \in DOMAIN o : o[n] = j
  BY DEF IsOrder
<1>2. N \in Nat /\ DOMAIN o = 1 .. N /\ from \in 1 .. N /\ to \in 1 .. N
  BY <1>0
<1>5. new \in Seq(Nat) /\ Len(new) = N /\ \A j \in 1 .. N : new[j] = o[at(j)]
  <2> DEFINE V == Nat
  <2>1. o \in Seq(V)
    BY <1>0
  <2> HIDE DEF V
  <2>2. new \in Seq(V) /\ Len(new) = N /\ \A j \in 1 .. N : new[j] = o[at(j)]
    BY <2>1, MovedIs
  <2> QED
    BY <2>2 DEF V
<1> HIDE DEF new, N
<1>6. DOMAIN new = 1 .. N
  BY <1>2, <1>5
<1>7. \A j \in 1 .. N : at(j) \in 1 .. N
  BY <1>2 DEF CameFrom
<1>8. \A i, j \in 1 .. N : at(i) = at(j) => i = j
  BY <1>2 DEF CameFrom
<1>9. \A m \in 1 .. N : back(m) \in 1 .. N /\ at(back(m)) = m
  BY <1>2 DEF CameFrom
<1> HIDE DEF at, back
<1>10. ASSUME NEW n \in 1 .. N PROVE new[n] \in 1 .. N
  <2>1. at(n) \in DOMAIN o /\ new[n] = o[at(n)]
    BY <1>2, <1>5, <1>7
  <2> QED
    BY <1>1, <1>2, <2>1
<1>11. \A m, n \in 1 .. N : new[m] = new[n] => m = n
  BY <1>1, <1>2, <1>5, <1>7, <1>8
<1>12. ASSUME NEW j \in 1 .. N PROVE \E n \in 1 .. N : new[n] = j
  <2>1. PICK m \in 1 .. N : o[m] = j
    BY <1>1, <1>2
  <2>2. new[back(m)] = j
    BY <1>5, <1>9, <2>1
  <2> QED
    BY <1>9, <2>2
<1>13. IsOrder(new)
  BY <1>5, <1>6, <1>10, <1>11, <1>12 DEF IsOrder
<1> QED
  BY <1>5, <1>13 DEF new, N

LEMMA DragOverKeeps ==
  ASSUME PageInv, drag # None, NEW from \in DOMAIN drag.order, NEW to \in DOMAIN drag.order,
         DragOver(from, to), drawn' = drawn
  PROVE  EditKeeps
<1> DEFINE perm == InsertAt(RemoveAt(drag.order, from), to, drag.order[from])
<1>1. UNCHANGED <<pairs, form, typed>> /\ drag' = [drag EXCEPT !.order = perm]
  BY DEF DragOver
<1>2. /\ DOMAIN drag = {"pair", "order", "seen"} /\ IsOrder(drag.order) /\ AllTell(pairs, typed)
      /\ drag.seen => drag.pair \in DOMAIN pairs /\ Len(drag.order) = Len(pairs[drag.pair].targets)
  BY DEF PageInv, DragInv
<1>3. IsOrder(perm) /\ Len(perm) = Len(drag.order)
  <2> DEFINE o == drag.order
  <2>2. o \in Seq(Nat) /\ from \in DOMAIN o /\ to \in DOMAIN o
    BY <1>2 DEF IsOrder
  <2> HIDE DEF o
  <2>1. from \in 1 .. Len(o) /\ to \in 1 .. Len(o)
    BY <2>2
  <2> QED
    BY <1>2, <2>1, MovedOrder DEF o
<1> HIDE DEF perm
<1>4. DOMAIN drag' = {"pair", "order", "seen"} /\ drag'.order = perm /\ drag'.pair = drag.pair
        /\ drag'.seen = drag.seen
  BY <1>1, <1>2
<1>5. DragInv'
  BY <1>1, <1>2, <1>3, <1>4 DEF DragInv
<1>6. HistoryInv'
  BY <1>1, HistoryKept DEF PageInv
<1>7. IdsOf(pairs') = IdsOf(pairs)
  BY <1>1
<1> QED
  BY <1>1, <1>5, <1>6, <1>7 DEF PageInv, EditKeeps

\* What a drag that ends leaves behind
LEMMA DragEnds ==
  ASSUME PageInv, NEW ps, Sound(ps, drawn), AllTell(ps, typed), IdsOf(pairs) \subseteq IdsOf(ps),
         pairs' = ps, form' = PaintedForm(ps), drag' = None, UNCHANGED <<typed, drawn>>
  PROVE  EditKeeps
<1>1. AllFit(PaintedForm(ps), ps) /\ Answering(PaintedForm(ps), ps, typed)
  BY PaintedIs
<1>2. DragInv' /\ HistoryInv'
  BY HistoryKept DEF PageInv, DragInv
<1>3. IdsOf(pairs') = IdsOf(ps)
  BY DEF IdsOf
<1> QED
  BY <1>1, <1>2, <1>3 DEF PageInv, EditKeeps

LEMMA CancelDragKeeps ==
  ASSUME PageInv, CancelDrag, drawn' = drawn
  PROVE  EditKeeps
<1>1. drag' = None /\ form' = PaintedForm(pairs) /\ UNCHANGED <<pairs, typed>> /\ AllTell(pairs, typed)
  BY DEF CancelDrag, PageInv, DragInv
<1>2. Sound(pairs, drawn)
  BY DEF PageInv
<1> QED
  BY <1>1, <1>2, DragEnds

LEMMA OrderedIs ==
  ASSUME NEW targets \in Seq(TargetConfig), IsOrder(drag.order), Len(Ordered(targets)) = Len(targets)
  PROVE  \E perm : Reorders(perm, Ordered(targets), targets)
<1> DEFINE S == DOMAIN targets
           o == drag.order
           known == Keeping(o, S)
           new == Ordered(targets)
           N == Len(targets)
<1>1. /\ o \in Seq(Nat) /\ \A m, n \in DOMAIN o : o[m] = o[n] => m = n
      /\ \A j \in DOMAIN o : \E n \in DOMAIN o : o[n] = j
  BY DEF IsOrder
<1>2. new = [n \in DOMAIN known |-> targets[known[n]]]
  BY DEF Ordered
<1>3. N \in Nat /\ S = 1 .. N
  OBVIOUS
<1> HIDE DEF S, o
<1>4. /\ known \in Seq(Nat) /\ Len(known) <= Len(o)
      /\ \A n \in DOMAIN known : known[n] \in S
      /\ \A m \in DOMAIN o : o[m] \in S => \E n \in DOMAIN known : known[n] = o[m]
      /\ \A m, n \in DOMAIN known : known[m] = known[n] => m = n
  BY <1>1, KeepingIs
<1> HIDE DEF known
<1>5. Len(known) = N
  <2>1. new \in Seq(TargetConfig) /\ Len(new) = Len(known)
    <3>1. DOMAIN new = DOMAIN known /\ \A n \in DOMAIN known : new[n] = targets[known[n]]
      BY <1>2
    <3>2. new = [n \in DOMAIN known |-> new[n]]
      BY <1>2
    <3> HIDE DEF new
    <3>3. ASSUME NEW n \in DOMAIN known PROVE new[n] \in TargetConfig
      <4>1. known[n] \in DOMAIN targets /\ new[n] = targets[known[n]]
        BY <1>4, <3>1 DEF S
      <4> QED
        BY <4>1
    <3> QED
      BY <1>4, <3>1, <3>2, <3>3, MappedSeq
  <2> QED
    BY <2>1
<1> HIDE DEF N, new
<1>6. DOMAIN known = 1 .. N /\ DOMAIN o = 1 .. Len(o) /\ Len(o) \in Nat /\ N <= Len(o)
  BY <1>1, <1>3, <1>4, <1>5
<1>7. ASSUME NEW m \in S PROVE \E l \in S : known[l] = m
  <2>1. m \in DOMAIN o
    BY <1>3, <1>6
  <2>2. PICK n \in DOMAIN o : o[n] = m
    BY <1>1, <2>1
  <2>3. PICK l \in DOMAIN known : known[l] = o[n]
    BY <1>4, <2>2
  <2> QED
    BY <1>3, <1>6, <2>2, <2>3
<1>8. known \in [S -> S]
  <2>1. DOMAIN known = S /\ \A l \in S : known[l] \in S
    BY <1>3, <1>4, <1>6
  <2>2. known = [l \in S |-> known[l]]
    BY <1>4, <2>1
  <2> HIDE DEF known, S
  <2> QED
    BY <2>1, <2>2
<1>9. DOMAIN known = S
  BY <1>3, <1>6
<1>10. Reorders(known, new, targets)
  BY <1>2, <1>4, <1>7, <1>8, <1>9 DEF Reorders, S
<1> QED
  BY <1>10 DEF new

LEMMA DropKeeps ==
  ASSUME PageInv, Drop, drawn' = drawn
  PROVE  EditKeeps
<1> DEFINE i == drag.pair
           targets == pairs[i].targets
           ts == Ordered(targets)
           y == [pairs[i] EXCEPT !.targets = ts]
           ps == [pairs EXCEPT ![i] = y]
<1>1. /\ drag # None /\ drag' = None /\ typed' = typed
      /\ \/ /\ i \in DOMAIN pairs /\ Len(ts) = Len(targets)
            /\ pairs' = ps /\ form' = PaintedForm(ps)
         \/ UNCHANGED <<pairs, form>>
  <2>1. [pairs EXCEPT ![drag.pair].targets = Ordered(@)] = ps
    OBVIOUS
  <2> QED
    BY <2>1 DEF Drop
<1>2. Sound(pairs, drawn) /\ AllTell(pairs, typed) /\ IsOrder(drag.order)
  BY <1>1 DEF PageInv, DragInv
<1>3. CASE i \in DOMAIN pairs /\ Len(ts) = Len(targets) /\ pairs' = ps /\ form' = PaintedForm(ps)
  <2>1. SoundPair(pairs[i], drawn) /\ targets \in Seq(TargetConfig) /\ Tells(pairs[i], typed)
    BY <1>2, <1>3, ListIs, PairParts DEF AllTell
  <2>2. PICK perm : Reorders(perm, ts, targets)
    BY <1>2, <1>3, <2>1, OrderedIs
  <2>3. SoundPair(y, drawn) /\ Tells(y, typed) /\ y.id = pairs[i].id
    <3> HIDE DEF i, ts
    <3> QED
      BY <2>1, <2>2, Rearranged
  <2>4. Sound(ps, drawn) /\ AllTell(ps, typed) /\ IdsOf(ps) = IdsOf(pairs)
    <3>1. i \in DOMAIN pairs
      BY <1>3
    <3> HIDE DEF i, y
    <3> QED
      BY <1>2, <2>3, <3>1, PairReplaced
  <2> HIDE DEF ps
  <2> QED
    BY <1>1, <1>3, <2>4, DragEnds
<1>4. CASE UNCHANGED <<pairs, form>>
  <2>1. DragInv' /\ HistoryInv'
    BY <1>1, HistoryKept DEF PageInv, DragInv
  <2>2. IdsOf(pairs') = IdsOf(pairs)
    BY <1>4
  <2> QED
    BY <1>1, <1>4, <2>1, <2>2 DEF PageInv, EditKeeps
<1> QED
  BY <1>1, <1>3, <1>4

-----------------------------------------------------------------------------
(* Calls and writes while the page changes.                                *)

\* What is on its way stays as sound as it was when more ids were drawn and pairs added.
LEMMA CallLasts ==
  ASSUME NEW c, NEW ps, NEW D, CallSound(c, ps, D), NEW new, IdsOf(ps) \subseteq IdsOf(new),
         NEW E, D \subseteq E
  PROVE  CallSound(c, new, E)
<1>1. CASE c.kind = "put" /\ PutSound(c, D)
  BY <1>1, MoreDrawn DEF PutSound, CallSound
<1>2. CASE c.kind = "switch" /\ SwitchSound(c)
  BY <1>2 DEF CallSound
<1>3. CASE c.kind = "import" /\ ImportSound(c, ps)
  BY <1>3 DEF CallSound, ImportSound
<1> QED
  BY <1>1, <1>2, <1>3 DEF CallSound

\* Each call gives way to one of its number, or to none.
LEMMA CallsMapped ==
  ASSUME CallsInv, NEW S \in SUBSET calls, NEW f, calls' = {f[c] : c \in S}, made' = made,
         \A c \in S : f[c].n = c.n /\ CallSound(f[c], pairs', drawn')
  PROVE  CallsInv'
<1>1. made' \in Nat
  BY DEF CallsInv
<1>2. ASSUME NEW d \in calls' PROVE d.n \in Nat /\ d.n < made' /\ CallSound(d, pairs', drawn')
  <2>1. PICK c \in S : d = f[c]
    OBVIOUS
  <2>2. c \in calls
    OBVIOUS
  <2> QED
    BY <2>1, <2>2 DEF CallsInv
<1>3. ASSUME NEW d \in calls', NEW e \in calls', d.n = e.n PROVE d = e
  <2>1. PICK c \in S : d = f[c]
    OBVIOUS
  <2>2. PICK b \in S : e = f[b]
    OBVIOUS
  <2>3. c.n = b.n
    BY <1>3, <2>1, <2>2
  <2>4. c = b
    BY <2>3 DEF CallsInv
  <2> QED
    BY <2>1, <2>2, <2>4
<1> QED
  BY <1>1, <1>2, <1>3 DEF CallsInv

\* The page makes a call.
LEMMA CallsGrow ==
  ASSUME CallsInv, NEW c, c.n = made, made' = made + 1, calls' = calls \cup {c},
         drawn \subseteq drawn', IdsOf(pairs) \subseteq IdsOf(pairs'), CallSound(c, pairs', drawn')
  PROVE  CallsInv'
<1>1. made \in Nat /\ made' \in Nat
  BY DEF CallsInv
<1>2. ASSUME NEW d \in calls' PROVE d.n \in Nat /\ d.n < made' /\ CallSound(d, pairs', drawn')
  <2>1. CASE d = c
    BY <2>1, <1>1
  <2>2. CASE d \in calls
    <3>1. d.n \in Nat /\ d.n < made /\ CallSound(d, pairs, drawn)
      BY <2>2 DEF CallsInv
    <3> QED
      BY <3>1, <1>1, CallLasts
  <2> QED
    BY <2>1, <2>2
<1>3. ASSUME NEW d \in calls', NEW e \in calls', d.n = e.n PROVE d = e
  <2>1. \A x \in calls : x.n \in Nat /\ x.n < made
    BY DEF CallsInv
  <2>2. \A x \in calls : x.n # c.n
    BY <1>1, <2>1
  <2> QED
    BY <1>3, <2>2 DEF CallsInv
<1> QED
  BY <1>1, <1>2, <1>3 DEF CallsInv

LEMMA CallsKept ==
  ASSUME CallsInv, UNCHANGED <<calls, made>>, drawn \subseteq drawn', IdsOf(pairs) \subseteq IdsOf(pairs')
  PROVE  CallsInv'
<1>1. \A c \in calls : CallSound(c, pairs, drawn)
  BY DEF CallsInv
<1>2. \A c \in calls : CallSound(c, pairs', drawn')
  BY <1>1, CallLasts
<1> QED
  BY <1>2 DEF CallsInv

\* The server is left alone, and the writes that wait there keep their calls.
LEMMA ServerKept ==
  ASSUME ServerInv, UNCHANGED server, drawn \subseteq drawn',
         \A c \in calls : c.at = "queued" =>
           \E d \in calls' : d.n = c.n /\ d.at = "queued" /\ (d.kind = "put" => c.kind = "put"
             /\ d.body = c.body)
  PROVE  ServerInv'
<1>1. committed' = committed /\ writes' = writes
  BY DEF server
<1>2. Sound(committed, drawn')
  BY MoreDrawn DEF ServerInv
<1>3. ASSUME NEW q \in DOMAIN writes
      PROVE  /\ Sound(writes[q].list, drawn')
             /\ \E c \in calls' : c.n = writes[q].n /\ c.at = "queued"
                  /\ (c.kind = "put" => writes[q].list = Stored(c.body))
  <2>1. Sound(writes[q].list, drawn')
    BY MoreDrawn DEF ServerInv
  <2>2. PICK c \in calls : c.n = writes[q].n /\ c.at = "queued"
               /\ (c.kind = "put" => writes[q].list = Stored(c.body))
    BY DEF ServerInv
  <2>3. PICK d \in calls' : d.n = c.n /\ d.at = "queued" /\ (d.kind = "put" => c.kind = "put"
               /\ d.body = c.body)
    BY <2>2
  <2> QED
    BY <2>1, <2>2, <2>3
<1> QED
  BY <1>1, <1>2, <1>3 DEF ServerInv

FormInv == PageInv /\ CallsInv /\ ServerInv

\* An edit
LEMMA EditStep ==
  ASSUME CallsInv, ServerInv, EditsOnly, EditKeeps
  PROVE  FormInv'
<1>1. CallsInv'
  BY CallsKept DEF EditsOnly, EditKeeps
<1>2. ServerInv'
  BY ServerKept DEF EditsOnly, EditKeeps
<1> QED
  BY <1>1, <1>2 DEF FormInv, EditKeeps

-----------------------------------------------------------------------------
(* Pairs that go and pages that are left, with their calls.                *)

\* What the changes of a call leave as it was
LEMMA StrayedIs ==
  ASSUME NEW c, NEW ps, NEW D, CallSound(c, ps, D), NEW freed, NEW new,
         IdsOf(ps) \ freed \subseteq IdsOf(new)
  PROVE  LET d == Strayed(c, freed)
         IN  /\ CallSound(d, new, D) /\ d.n = c.n /\ d.at = c.at /\ d.kind = c.kind
             /\ d.kind = "put" => d.body = c.body
<1> DEFINE d == Strayed(c, freed)
<1>1. CASE c.kind = "import" /\ c.pair \in freed
  <2>1. ImportSound(c, ps)
    BY <1>1 DEF CallSound
  <2>2. d = [c EXCEPT !.stray = TRUE]
    BY <1>1 DEF Strayed
  <2>3. /\ DOMAIN d = ImportFields /\ d.stray /\ d.kind = "import" /\ d.pair = c.pair /\ d.n = c.n
             /\ d.at = c.at
        /\ d.answer = c.answer
    BY <1>1, <2>1, <2>2 DEF ImportSound, ImportFields
  <2> HIDE DEF d
  <2>4. ImportSound(d, new)
    BY <2>1, <2>3 DEF ImportSound
  <2> QED
    BY <1>1, <2>3, <2>4 DEF CallSound, d
<1>2. CASE ~(c.kind = "import" /\ c.pair \in freed)
  <2>1. d = c
    BY <1>2 DEF Strayed
  <2>2. CallSound(c, new, D)
    <3>1. CASE c.kind = "import"
      BY <1>2, <3>1 DEF CallSound, ImportSound
    <3>2. CASE c.kind # "import"
      BY <3>2 DEF CallSound
    <3> QED
      BY <3>1, <3>2
  <2> QED
    BY <2>1, <2>2
<1> QED
  BY <1>1, <1>2

LEMMA LetGoIs ==
  ASSUME NEW c, NEW ps, NEW D, CallSound(c, ps, D)
  PROVE  LET d == [c EXCEPT !.heard = FALSE]
         IN  /\ CallSound(d, ps, D) /\ d.n = c.n /\ d.at = c.at /\ d.kind = c.kind
             /\ d.kind = "put" => d.body = c.body
<1> DEFINE d == [c EXCEPT !.heard = FALSE]
<1>1. CASE c.kind = "put" /\ PutSound(c, D)
  <2>1. /\ DOMAIN d = PutFields /\ d.kind = c.kind /\ d.body = c.body /\ d.then = c.then
             /\ d.signature = c.signature
        /\ d.typed = c.typed /\ d.n = c.n /\ d.at = c.at /\ d.answer = c.answer
    BY <1>1 DEF PutSound, PutFields
  <2> HIDE DEF d
  <2> QED
    BY <1>1, <2>1 DEF CallSound, PutSound, d
<1>2. CASE c.kind = "switch" /\ SwitchSound(c)
  <2>1. /\ DOMAIN d = SwitchFields /\ d.kind = c.kind /\ d.on = c.on
        /\ d.n = c.n /\ d.at = c.at /\ d.answer = c.answer
    BY <1>2 DEF SwitchSound, SwitchFields
  <2> HIDE DEF d
  <2> QED
    BY <1>2, <2>1 DEF CallSound, SwitchSound, d
<1>3. CASE c.kind = "import" /\ ImportSound(c, ps)
  <2>1. /\ DOMAIN d = ImportFields /\ d.kind = c.kind /\ d.pair = c.pair /\ d.stray = c.stray
        /\ d.n = c.n /\ d.at = c.at /\ d.answer = c.answer
    BY <1>3 DEF ImportSound, ImportFields
  <2> HIDE DEF d
  <2> QED
    BY <1>3, <2>1 DEF CallSound, ImportSound, d
<1> QED
  BY <1>1, <1>2, <1>3 DEF CallSound

LEMMA QueuedIs ==
  ASSUME NEW c, NEW ps, NEW D, CallSound(c, ps, D), c.kind # "import"
  PROVE  LET d == [c EXCEPT !.at = "queued"]
         IN  /\ CallSound(d, ps, D) /\ d.n = c.n /\ d.at = "queued" /\ d.kind = c.kind
             /\ d.kind = "put" => d.body = c.body
<1> DEFINE d == [c EXCEPT !.at = "queued"]
<1>1. CASE c.kind = "put" /\ PutSound(c, D)
  <2>1. /\ DOMAIN d = PutFields /\ d.kind = c.kind /\ d.body = c.body /\ d.then = c.then
             /\ d.signature = c.signature
        /\ d.typed = c.typed /\ d.n = c.n /\ d.at = "queued" /\ d.answer = c.answer
    BY <1>1 DEF PutSound, PutFields
  <2> HIDE DEF d
  <2> QED
    BY <1>1, <2>1 DEF CallSound, PutSound, d
<1>2. CASE c.kind = "switch" /\ SwitchSound(c)
  <2>1. /\ DOMAIN d = SwitchFields /\ d.kind = c.kind /\ d.on = c.on
        /\ d.n = c.n /\ d.at = "queued" /\ d.answer = c.answer
    BY <1>2 DEF SwitchSound, SwitchFields
  <2> HIDE DEF d
  <2> QED
    BY <1>2, <2>1 DEF CallSound, SwitchSound, d
<1> QED
  BY <1>1, <1>2 DEF CallSound

\* What a call may be answered
Fitting(c, answer) ==
  \/ answer = None
  \/ c.kind = "put" /\ answer = Stored(c.body)
  \/ c.kind = "switch" /\ answer = c.on
  \/ c.kind = "import" /\ answer \in Catalog

LEMMA AnsweredIs ==
  ASSUME NEW c, NEW ps, NEW D, CallSound(c, ps, D), NEW answer, Fitting(c, answer)
  PROVE  LET d == [c EXCEPT !.at = "done", !.answer = answer]
         IN  /\ CallSound(d, ps, D) /\ d.n = c.n /\ d.at = "done" /\ d.kind = c.kind
             /\ d.kind = "put" => d.body = c.body
<1> DEFINE d == [c EXCEPT !.at = "done", !.answer = answer]
<1>1. CASE c.kind = "put" /\ PutSound(c, D)
  <2>1. /\ DOMAIN d = PutFields /\ d.kind = c.kind /\ d.body = c.body /\ d.then = c.then
             /\ d.signature = c.signature
        /\ d.typed = c.typed /\ d.n = c.n /\ d.at = "done" /\ d.answer = answer
    BY <1>1 DEF PutSound, PutFields
  <2> HIDE DEF d
  <2> QED
    BY <1>1, <2>1 DEF CallSound, PutSound, Fitting, d
<1>2. CASE c.kind = "switch" /\ SwitchSound(c)
  <2>1. /\ DOMAIN d = SwitchFields /\ d.kind = c.kind /\ d.on = c.on
        /\ d.n = c.n /\ d.at = "done" /\ d.answer = answer
    BY <1>2 DEF SwitchSound, SwitchFields
  <2> HIDE DEF d
  <2> QED
    BY <1>2, <2>1 DEF CallSound, SwitchSound, Fitting, d
<1>3. CASE c.kind = "import" /\ ImportSound(c, ps)
  <2>1. /\ DOMAIN d = ImportFields /\ d.kind = c.kind /\ d.pair = c.pair /\ d.stray = c.stray
        /\ d.n = c.n /\ d.at = "done" /\ d.answer = answer
    BY <1>3 DEF ImportSound, ImportFields
  <2> HIDE DEF d
  <2> QED
    BY <1>3, <2>1 DEF CallSound, ImportSound, Fitting, d
<1> QED
  BY <1>1, <1>2, <1>3 DEF CallSound

\* The page lets go of what it has no object for.
LEMMA RemovePairStep ==
  ASSUME FormInv, NEW i \in DOMAIN pairs, RemovePair(i), drawn' = drawn
  PROVE  FormInv'
<1> DEFINE freed == {pairs[i].id}
           f == [c \in calls |-> Strayed(c, freed)]
<1>1. PageInv' /\ IdsOf(pairs) \ freed \subseteq IdsOf(pairs')
  BY RemovePairKeeps DEF FormInv
<1>2. calls' = {Strayed(c, freed) : c \in calls} /\ UNCHANGED <<server, made>>
  BY DEF RemovePair
<1> HIDE DEF freed
<1>3. \A c \in calls : f[c] = Strayed(c, freed)
  OBVIOUS
<1>4. calls' = {f[c] : c \in calls}
  BY <1>2, <1>3
<1> HIDE DEF f
<1>5. ASSUME NEW c \in calls
      PROVE  /\ CallSound(f[c], pairs', drawn') /\ f[c].n = c.n /\ f[c].at = c.at /\ f[c].kind = c.kind
             /\ f[c].kind = "put" => f[c].body = c.body
  <2>1. CallSound(c, pairs, drawn')
    BY DEF FormInv, CallsInv
  <2> QED
    BY <1>1, <1>3, <2>1, StrayedIs
<1>6. CallsInv'
  BY <1>2, <1>4, <1>5, CallsMapped DEF FormInv
<1>7. ServerInv'
  <2>1. ASSUME NEW c \in calls, c.at = "queued"
        PROVE  \E d \in calls' : d.n = c.n /\ d.at = "queued" /\ (d.kind = "put" => c.kind = "put"
                 /\ d.body = c.body)
    BY <1>4, <1>5, <2>1
  <2> QED
    BY <1>2, <2>1, ServerKept DEF FormInv
<1> QED
  BY <1>1, <1>6, <1>7 DEF FormInv

LEMMA LetGoStep ==
  ASSUME FormInv, NEW freed, Lets(freed), UNCHANGED <<server, made>>, drawn' = drawn,
         IdsOf(pairs) \subseteq IdsOf(pairs')
  PROVE  CallsInv' /\ ServerInv'
<1> DEFINE F(c) == IF c \in freed THEN [c EXCEPT !.heard = FALSE] ELSE c
           f == [c \in calls |-> F(c)]
<1>2. calls' = {F(c) : c \in calls}
  BY DEF Lets
<1> HIDE DEF F
<1>3. \A c \in calls : f[c] = F(c)
  OBVIOUS
<1>4. calls' = {f[c] : c \in calls}
  BY <1>2, <1>3
<1> HIDE DEF f
<1>5. ASSUME NEW c \in calls
      PROVE  /\ CallSound(f[c], pairs', drawn') /\ f[c].n = c.n /\ f[c].at = c.at /\ f[c].kind = c.kind
             /\ f[c].kind = "put" => f[c].body = c.body
  <2>1. CallSound(c, pairs', drawn')
    <3>1. CallSound(c, pairs, drawn)
      BY DEF FormInv, CallsInv
    <3> QED
      BY <3>1, CallLasts
  <2>2. CASE c \in freed
    <3> DEFINE d == [c EXCEPT !.heard = FALSE]
    <3>1. /\ CallSound(d, pairs', drawn') /\ d.n = c.n /\ d.at = c.at /\ d.kind = c.kind
          /\ d.kind = "put" => d.body = c.body
      BY <2>1, LetGoIs
    <3>2. f[c] = d
      BY <1>3, <2>2 DEF F
    <3> QED
      BY <3>1, <3>2
  <2>3. CASE c \notin freed
    BY <1>3, <2>1, <2>3 DEF F
  <2> QED
    BY <2>2, <2>3
<1>6. CallsInv'
  BY <1>4, <1>5, CallsMapped DEF FormInv
<1>7. ASSUME NEW c \in calls, c.at = "queued"
      PROVE  \E d \in calls' : d.n = c.n /\ d.at = "queued" /\ (d.kind = "put" => c.kind = "put"
               /\ d.body = c.body)
  BY <1>4, <1>5, <1>7
<1> QED
  BY <1>6, <1>7, ServerKept DEF FormInv

LEMMA LostStep ==
  ASSUME FormInv, NEW c \in calls, Lost(c), drawn' = drawn
  PROVE  FormInv'
<1>1. UNCHANGED <<server, pairs, form, drag, typed, made>> /\ Lets({c})
  BY DEF Lost
<1>2. PageInv'
  BY <1>1 DEF FormInv, PageInv, DragInv, HistoryInv
<1>3. IdsOf(pairs) \subseteq IdsOf(pairs')
  BY <1>1
<1> QED
  BY <1>1, <1>2, <1>3, LetGoStep DEF FormInv

LEMMA LeaveAndReturnStep ==
  ASSUME FormInv, LeaveAndReturn, drawn' = drawn
  PROVE  FormInv'
<1>1. /\ pairs' = Collected /\ drag' = None /\ UNCHANGED <<server, typed, made>>
      /\ form' = IF drag = None THEN form ELSE PaintedForm(Collected)
  BY DEF LeaveAndReturn
<1>2. Sound(Collected, drawn) /\ AllTell(Collected, typed) /\ IdsOf(Collected) = IdsOf(pairs)
  BY CollectedInPage DEF FormInv
<1>3. EditKeeps
  <2>1. CASE drag = None
    <3>1. DragInv'
      BY <1>1 DEF DragInv
    <3> QED
      BY <1>1, <2>1, <3>1, ReadKeeps DEF FormInv
  <2>2. CASE drag # None
    BY <1>1, <1>2, <2>2, DragEnds DEF FormInv
  <2> QED
    BY <2>1, <2>2
<1>4. PageInv' /\ IdsOf(pairs) \subseteq IdsOf(pairs')
  BY <1>3 DEF EditKeeps
<1>5. PICK freed : Lets(freed)
  BY DEF LeaveAndReturn
<1> QED
  BY <1>1, <1>4, <1>5, LetGoStep DEF FormInv

-----------------------------------------------------------------------------
(* Saves, switches and imports on their way.                               *)

\* What the signature says of a text field
LEMMA SignatureIs ==
  ASSUME NEW i \in DOMAIN form, NEW n \in DOMAIN InPage(i)
  PROVE  FormSignature[i].targets[n][1].url = form[i].targets[InPage(i)[n]].url
<1> DEFINE perm == InPage(i)
           displayed(m) == <<form[i].targets[perm[m]], form[i].radio = perm[m]>>
           targets == [m \in DOMAIN perm |-> displayed(m)]
           card == FormSignature[i]
<1>1. card.targets = targets
  BY DEF FormSignature
<1>2. targets[n] = displayed(n)
  OBVIOUS
<1>3. displayed(n)[1] = form[i].targets[perm[n]]
  OBVIOUS
<1> HIDE DEF targets, displayed, card, perm
<1>4. card.targets[n][1].url = form[i].targets[perm[n]].url
  BY <1>1, <1>2, <1>3
<1> QED
  BY <1>4 DEF card, perm

LEMMA SignatureOfAll ==
  ASSUME PageInv, drag = None, NEW i \in DOMAIN Collected, NEW j \in DOMAIN Collected[i].targets
  PROVE  FormSignature[i].targets[j][1].url = Collected[i].targets[j].url
<1>1. /\ i \in DOMAIN pairs /\ j \in DOMAIN pairs[i].targets /\ i \in DOMAIN form
      /\ DOMAIN form[i].targets = DOMAIN pairs[i].targets
  BY CollectedInPage DEF PageInv, AllFit, Fits
<1>2. InPage(i) = [l \in DOMAIN form[i].targets |-> l]
  BY DEF InPage
<1>3. j \in DOMAIN InPage(i) /\ InPage(i)[j] = j
  BY <1>1, <1>2
<1>4. Collected[i].targets[j].url = form[i].targets[j].url
  BY <1>1, CollectedIs DEF PageInv
<1> QED
  BY <1>1, <1>3, <1>4, SignatureIs

LEMMA PutCallIs ==
  ASSUME PageInv, NEW displayed, NEW then, then = None \/ then.on \in BOOLEAN,
         \A i \in DOMAIN Collected : \A j \in DOMAIN Collected[i].targets :
           displayed[i].targets[j][1].url = Collected[i].targets[j].url,
         NEW ps
  PROVE  PutCall(displayed, then).n = made /\ CallSound(PutCall(displayed, then), ps, drawn)
<1> DEFINE c == PutCall(displayed, then)
<1>1. /\ Sound(Collected, drawn) /\ AllTell(Collected, typed)
      /\ \A i \in DOMAIN Collected : WellFormed(Collected[i])
  BY CollectedInPage, CollectedIs DEF PageInv
<1>2. /\ DOMAIN c = PutFields /\ c.kind = "put" /\ c.body = Collected /\ c.then = then /\ c.signature = displayed
      /\ c.typed = typed /\ c.n = made /\ c.answer = None
  BY DEF PutCall, PutFields
<1> HIDE DEF c
<1>3. PutSound(c, drawn)
  BY <1>1, <1>2 DEF PutSound
<1> QED
  BY <1>2, <1>3 DEF CallSound, c

\* A call more leaves the server where it is.
LEMMA CalledStep ==
  ASSUME FormInv, EditKeeps, NEW c, c.n = made, Calls(c), UNCHANGED server, CallSound(c, pairs', drawn')
  PROVE  FormInv'
<1>1. calls' = calls \cup {c} /\ made' = made + 1
  BY DEF Calls
<1>2. CallsInv'
  BY <1>1, CallsGrow DEF FormInv, EditKeeps
<1>3. ServerInv'
  BY <1>1, ServerKept DEF FormInv, EditKeeps
<1> QED
  BY <1>2, <1>3 DEF FormInv, EditKeeps

LEMMA SavePairsStep ==
  ASSUME FormInv, SavePairs, drawn' = drawn
  PROVE  FormInv'
<1> DEFINE c == PutCall(FormSignature, None)
<1>1. drag = None /\ Calls(c) /\ pairs' = Collected /\ UNCHANGED <<server, form, drag, typed>>
  BY DEF SavePairs, Acts
<1>2. EditKeeps
  BY <1>1, ReadKeeps, DragStays DEF FormInv
<1>3. c.n = made /\ CallSound(c, pairs', drawn')
  BY <1>1, PutCallIs, SignatureOfAll DEF FormInv
<1> HIDE DEF c
<1> QED
  BY <1>1, <1>2, <1>3, CalledStep

LEMMA ImportStep ==
  ASSUME FormInv, NEW i \in DOMAIN pairs, NEW j \in DOMAIN pairs[i].targets, Import(i, j), drawn' = drawn
  PROVE  FormInv'
<1> DEFINE c == [kind |-> "import", pair |-> pairs[i].id, index |-> j, stray |-> FALSE,
                 n |-> made, heard |-> TRUE, at |-> "sent", answer |-> None]
<1>1. Calls(c) /\ pairs' = Collected /\ UNCHANGED <<server, form, drag, history>>
  BY DEF Import
<1>2. EditKeeps
  BY <1>1, ReadKeeps, DragStays DEF FormInv, history
<1>3. /\ DOMAIN c = ImportFields /\ c.kind = "import" /\ c.pair = pairs[i].id /\ c.n = made /\ c.at = "sent"
      /\ c.answer = None
  BY DEF ImportFields
<1> HIDE DEF c
<1>4. pairs[i].id \in ProxyIds /\ pairs[i].id \in IdsOf(pairs')
  <2>1. pairs[i].id \in ProxyIds
    BY ListIs, PairParts DEF FormInv, PageInv
  <2>2. pairs[i].id \in IdsOf(pairs)
    BY DEF IdsOf
  <2> QED
    BY <1>2, <2>1, <2>2 DEF EditKeeps
<1>5. CallSound(c, pairs', drawn')
  BY <1>3, <1>4 DEF CallSound, ImportSound
<1> QED
  BY <1>1, <1>2, <1>3, <1>5, CalledStep

LEMMA ToggleSwitchStep ==
  ASSUME FormInv, NEW i \in DOMAIN pairs, ToggleSwitch(i), drawn' = drawn
  PROVE  FormInv'
<1> DEFINE on == ~ form[i].switch
           then == [pair |-> pairs[i].id, on |-> on]
           displayed == [FormSignature EXCEPT ![i].switch = on]
           c == PutCall(displayed, then)
           card == [form[i] EXCEPT !.switch = on]
<1>1. /\ drag = None /\ Calls(c) /\ pairs' = Collected /\ UNCHANGED <<server, drag, typed>>
      /\ form' = [form EXCEPT ![i] = card]
  BY DEF ToggleSwitch, Acts
<1>2. Fits(form[i], pairs[i]) /\ i \in DOMAIN form /\ on \in BOOLEAN /\ PageInv
  BY DEF FormInv, PageInv, AllFit
<1>3. /\ DOMAIN card = {"switch", "radio", "targets", "groups"} /\ card.targets = form[i].targets
      /\ card.switch = on /\ card.radio = form[i].radio /\ card.groups = form[i].groups
  BY <1>2 DEF Fits
<1>4. then.on \in BOOLEAN
  BY <1>2
<1>5. \A l \in DOMAIN Collected : \A j \in DOMAIN Collected[l].targets :
        displayed[l].targets[j][1].url = Collected[l].targets[j].url
  <2> SUFFICES ASSUME NEW l \in DOMAIN Collected, NEW j \in DOMAIN Collected[l].targets
               PROVE  displayed[l].targets[j][1].url = Collected[l].targets[j].url
    OBVIOUS
  <2>1. displayed[l].targets = FormSignature[l].targets
    <3>1. DOMAIN FormSignature = DOMAIN form /\ l \in DOMAIN form
      BY <1>2, CollectedInPage DEF FormSignature, PageInv, AllFit
    <3>2. "targets" \in DOMAIN FormSignature[i]
      BY <1>2 DEF FormSignature
    <3> HIDE DEF on
    <3> QED
      BY <1>2, <3>1, <3>2
  <2> HIDE DEF displayed
  <2> QED
    BY <1>1, <1>2, <2>1, SignatureOfAll
<1> HIDE DEF card, displayed, then, on
<1>6. c.n = made /\ CallSound(c, pairs', drawn')
  BY <1>2, <1>4, <1>5, PutCallIs
<1> HIDE DEF c
<1>7. EditKeeps
  <2>1. /\ Sound(Collected, drawn) /\ AllFit(form, Collected) /\ Answering(form, Collected, typed)
        /\ IdsOf(Collected) = IdsOf(pairs) /\ i \in DOMAIN Collected
    BY <1>2, CollectedInPage
  <2>2. /\ form'[i] = card /\ DOMAIN form' = DOMAIN form /\ \A k \in DOMAIN form : k # i => form'[k] = form[k]
    BY <1>1, <1>2
  <2>3. Fits(card, Collected[i])
    BY <1>2, <1>3, <2>1 DEF AllFit, Fits
  <2>4. AllFit(form', Collected)
    BY <2>1, <2>2, <2>3 DEF AllFit
  <2>5. Answering(form', Collected, typed)
    BY <1>3, <2>1, <2>2 DEF Answering, AllFit
  <2>6. DragInv' /\ HistoryInv'
    BY <1>1, <1>2, DragStays, HistoryKept DEF PageInv
  <2>7. IdsOf(pairs') = IdsOf(Collected)
    BY <1>1 DEF IdsOf
  <2> QED
    BY <1>1, <2>1, <2>4, <2>5, <2>6, <2>7 DEF PageInv, EditKeeps
<1> QED
  BY <1>1, <1>6, <1>7, CalledStep

-----------------------------------------------------------------------------
(* The server.                                                             *)

\* The page does not change.
LEMMA PageKept ==
  ASSUME PageInv, UNCHANGED <<pairs, form, drag, typed, drawn>>
  PROVE  PageInv' /\ IdsOf(pairs') = IdsOf(pairs)
  BY DEF PageInv, DragInv, HistoryInv

\* One call gives way to one of its number.
LEMMA CallReplaced ==
  ASSUME CallsInv, NEW c \in calls, NEW d, d.n = c.n, CallSound(d, pairs, drawn),
         calls' = (calls \ {c}) \cup {d}, UNCHANGED <<pairs, drawn, made>>
  PROVE  CallsInv'
<1> DEFINE F(b) == IF b = c THEN d ELSE b
           f == [b \in calls |-> F(b)]
<1>1. \A b \in calls : f[b] = F(b)
  OBVIOUS
<1> HIDE DEF f
<1>2. calls' = {f[b] : b \in calls}
  BY <1>1
<1>3. \A b \in calls : f[b].n = b.n /\ CallSound(f[b], pairs', drawn')
  <2>1. \A b \in calls : CallSound(b, pairs, drawn)
    BY DEF CallsInv
  <2> QED
    BY <1>1, <2>1
<1> QED
  BY <1>2, <1>3, CallsMapped

\* What was not queued is answered.
LEMMA BecomesStep ==
  ASSUME FormInv, NEW c \in calls, c.at # "queued", NEW answer, Fitting(c, answer), Becomes(c, answer),
         UNCHANGED <<server, pairs, form, drag, typed, drawn, made>>
  PROVE  FormInv'
<1> DEFINE d == [c EXCEPT !.at = "done", !.answer = answer]
<1>1. calls' = (calls \ {c}) \cup {d}
  BY DEF Becomes
<1>2. CallSound(c, pairs, drawn)
  BY DEF FormInv, CallsInv
<1>3. d.n = c.n /\ CallSound(d, pairs, drawn)
  BY <1>2, AnsweredIs
<1> HIDE DEF d
<1>4. CallsInv'
  BY <1>1, <1>3, CallReplaced DEF FormInv
<1>5. ServerInv'
  <2>1. \A b \in calls : b.at = "queued" => b \in calls'
    BY <1>1
  <2> QED
    BY <2>1, ServerKept DEF FormInv
<1> QED
  BY <1>4, <1>5, PageKept DEF FormInv

\* A write waits for its turn.
LEMMA WaitsStep ==
  ASSUME FormInv, NEW c \in calls, c.at = "sent", c.kind # "import",
         NEW ps, Sound(ps, drawn), c.kind = "put" => ps = Stored(c.body),
         Waits(c, ps), UNCHANGED <<committed, pairs, form, drag, typed, drawn, made>>
  PROVE  FormInv'
<1> DEFINE d == [c EXCEPT !.at = "queued"]
           w == [n |-> c.n, list |-> ps]
<1>1. calls' = (calls \ {c}) \cup {d} /\ writes' = Append(writes, w)
  BY DEF Waits
<1>2. CallSound(c, pairs, drawn) /\ c.n \in Nat
  BY DEF FormInv, CallsInv
<1>3. /\ d.n = c.n /\ CallSound(d, pairs, drawn) /\ d.at = "queued" /\ d.kind = c.kind
      /\ d.kind = "put" => d.body = c.body
  BY <1>2, QueuedIs
<1>4. w.n = c.n /\ w.list = ps /\ w \in [n : Nat, list : Seq(ProxyPair)]
  BY <1>2 DEF Sound
<1> HIDE DEF d, w
<1>5. CallsInv'
  BY <1>1, <1>3, CallReplaced DEF FormInv
<1>6. /\ writes \in Seq([n : Nat, list : Seq(ProxyPair)])
      /\ \A q \in DOMAIN writes :
           /\ Sound(writes[q].list, drawn)
           /\ \E b \in calls : b.n = writes[q].n /\ b.at = "queued"
                /\ (b.kind = "put" => writes[q].list = Stored(b.body))
      /\ \A q, r \in DOMAIN writes : writes[q].n = writes[r].n => q = r
  BY DEF FormInv, ServerInv
<1> DEFINE L == Len(writes)
<1>7. /\ L \in Nat /\ DOMAIN writes = 1 .. L
      /\ writes' \in Seq([n : Nat, list : Seq(ProxyPair)]) /\ DOMAIN writes' = 1 .. L + 1 /\ writes'[L + 1] = w
      /\ \A q \in 1 .. L : writes'[q] = writes[q]
  <2> DEFINE V == [n : Nat, list : Seq(ProxyPair)]
  <2>1. writes \in Seq(V) /\ w \in V
    BY <1>4, <1>6
  <2> HIDE DEF V
  <2>2. /\ Append(writes, w) \in Seq(V) /\ Len(Append(writes, w)) = L + 1 /\ Append(writes, w)[L + 1] = w
        /\ \A q \in 1 .. L : Append(writes, w)[q] = writes[q]
    BY <2>1, AppendIs
  <2>3. L \in Nat /\ DOMAIN writes = 1 .. L /\ DOMAIN Append(writes, w) = 1 .. L + 1
    BY <2>1, <2>2
  <2> QED
    BY <1>1, <2>2, <2>3 DEF V
<1> HIDE DEF L
<1>8. ASSUME NEW q \in 1 .. L PROVE writes[q].n # c.n
  <2>1. PICK b \in calls : b.n = writes[q].n /\ b.at = "queued"
    BY <1>6, <1>7
  <2>2. b # c
    BY <2>1
  <2> QED
    BY <2>1, <2>2 DEF FormInv, CallsInv
<1>9. ASSUME NEW q \in DOMAIN writes'
      PROVE  /\ Sound(writes'[q].list, drawn')
             /\ \E b \in calls' : b.n = writes'[q].n /\ b.at = "queued"
                  /\ (b.kind = "put" => writes'[q].list = Stored(b.body))
  <2>1. CASE q = L + 1
    <3>1. writes'[q] = w /\ d \in calls'
      BY <1>1, <1>7, <2>1
    <3> QED
      BY <1>3, <1>4, <3>1
  <2>2. CASE q \in 1 .. L
    <3>1. writes'[q] = writes[q]
      BY <1>7, <2>2
    <3>2. PICK b \in calls : b.n = writes[q].n /\ b.at = "queued"
                 /\ (b.kind = "put" => writes[q].list = Stored(b.body))
      BY <1>6, <1>7, <2>2
    <3>3. b \in calls'
      BY <1>1, <3>2
    <3>4. Sound(writes[q].list, drawn)
      BY <1>6, <1>7, <2>2
    <3> QED
      BY <3>1, <3>2, <3>3, <3>4
  <2> QED
    BY <1>7, <2>1, <2>2
<1>10. ASSUME NEW q \in DOMAIN writes', NEW r \in DOMAIN writes', writes'[q].n = writes'[r].n PROVE q = r
  <2>1. CASE q \in 1 .. L /\ r \in 1 .. L
    <3>1. writes'[q] = writes[q] /\ writes'[r] = writes[r] /\ q \in DOMAIN writes /\ r \in DOMAIN writes
      BY <1>7, <2>1
    <3> QED
      BY <1>6, <1>10, <3>1
  <2>2. CASE q = L + 1 /\ r \in 1 .. L
    BY <1>4, <1>7, <1>8, <1>10, <2>2
  <2>3. CASE q \in 1 .. L /\ r = L + 1
    BY <1>4, <1>7, <1>8, <1>10, <2>3
  <2> QED
    BY <1>7, <2>1, <2>2, <2>3
<1>11. ServerInv'
  <2>1. Sound(committed', drawn')
    BY DEF FormInv, ServerInv
  <2> QED
    BY <1>7, <1>9, <1>10, <2>1 DEF ServerInv
<1> QED
  BY <1>5, <1>11, PageKept DEF FormInv

LEMMA PutServedStep ==
  ASSUME FormInv, NEW c \in calls, PutServed(c), drawn' = drawn
  PROVE  FormInv'
<1>1. /\ c.kind = "put" /\ c.at = "sent" /\ UNCHANGED <<committed, pairs, form, drag, typed, made>>
      /\ Waits(c, Stored(c.body)) \/ (Becomes(c, None) /\ UNCHANGED writes)
  BY DEF PutServed, Refused, history
<1>2. PutSound(c, drawn)
  BY <1>1 DEF FormInv, CallsInv, CallSound
<1>3. Sound(Stored(c.body), drawn)
  BY <1>2, StoredIs DEF PutSound
<1>4. CASE Waits(c, Stored(c.body))
  BY <1>1, <1>3, <1>4, WaitsStep
<1>5. CASE Becomes(c, None) /\ UNCHANGED writes
  BY <1>1, <1>5, BecomesStep DEF Fitting, server
<1> QED
  BY <1>1, <1>4, <1>5

LEMMA SwitchServedStep ==
  ASSUME FormInv, NEW c \in calls, SwitchServed(c), drawn' = drawn
  PROVE  FormInv'
<1>1. /\ c.kind = "switch" /\ c.at = "sent" /\ UNCHANGED <<committed, pairs, form, drag, typed, made>>
      /\ \/ Waits(c, Switched(committed, c.pair, c.on))
         \/ Becomes(c, None) /\ UNCHANGED writes
         \/ Becomes(c, c.on) /\ UNCHANGED writes
  BY DEF SwitchServed, Refused, history
<1>2. SwitchSound(c)
  BY <1>1 DEF FormInv, CallsInv, CallSound
<1>3. CASE Waits(c, Switched(committed, c.pair, c.on))
  <2>1. c.on \in BOOLEAN /\ Sound(committed, drawn)
    BY <1>2 DEF SwitchSound, FormInv, ServerInv
  <2>2. Sound(Switched(committed, c.pair, c.on), drawn)
    BY <2>1, SwitchedIs
  <2> QED
    BY <1>1, <1>3, <2>2, WaitsStep
<1>4. CASE Becomes(c, None) /\ UNCHANGED writes
  BY <1>1, <1>4, BecomesStep DEF Fitting, server
<1>5. CASE Becomes(c, c.on) /\ UNCHANGED writes
  BY <1>1, <1>5, BecomesStep DEF Fitting, server
<1> QED
  BY <1>1, <1>3, <1>4, <1>5

LEMMA ImportServedStep ==
  ASSUME FormInv, NEW c \in calls, ImportServed(c), drawn' = drawn
  PROVE  FormInv'
<1>1. PICK answer \in Catalog \cup {None} : Becomes(c, answer)
  BY DEF ImportServed, Refused
<1>2. c.kind = "import" /\ c.at = "sent" /\ UNCHANGED <<server, pairs, form, drag, typed, made>>
  BY DEF ImportServed, history
<1>3. Fitting(c, answer)
  BY <1>1, <1>2 DEF Fitting
<1> QED
  BY <1>1, <1>2, <1>3, BecomesStep

LEMMA CallEnds ==
  ASSUME FormInv, NEW c \in calls, c.at = "done", calls' = calls \ {c},
         UNCHANGED <<server, pairs, form, drag, typed, drawn, made>>
  PROVE  FormInv'
<1>1. CallsInv'
  BY DEF FormInv, CallsInv
<1>2. \A b \in calls : b.at = "queued" => b \in calls'
  OBVIOUS
<1>3. ServerInv'
  BY <1>2, ServerKept DEF FormInv
<1> QED
  BY <1>1, <1>3, PageKept DEF FormInv

LEMMA UnheardStep ==
  ASSUME FormInv, NEW c \in calls, Unheard(c), drawn' = drawn
  PROVE  FormInv'
  BY CallEnds DEF Unheard, history

LEMMA FailsStep ==
  ASSUME FormInv, NEW c \in calls, Fails(c), drawn' = drawn
  PROVE  FormInv'
  BY CallEnds DEF Fails

LEMMA AppliedStep ==
  ASSUME FormInv, Applied, drawn' = drawn
  PROVE  FormInv'
<1> DEFINE V == [n : Nat, list : Seq(ProxyPair)]
           w == Head(writes)
           c == CHOOSE d \in calls : d.n = w.n
           answer == IF c.kind = "put" THEN w.list ELSE c.on
<1>1. /\ writes # <<>> /\ writes' = Tail(writes) /\ UNCHANGED <<pairs, form, drag, typed, made>>
      /\ \/ committed' = w.list /\ Becomes(c, answer)
         \/ committed' = committed /\ Becomes(c, None)
  BY DEF Applied, Refused, history
<1>2. /\ writes \in Seq(V)
      /\ \A q \in DOMAIN writes :
           /\ Sound(writes[q].list, drawn)
           /\ \E b \in calls : b.n = writes[q].n /\ b.at = "queued"
                /\ (b.kind = "put" => writes[q].list = Stored(b.body))
      /\ \A q, r \in DOMAIN writes : writes[q].n = writes[r].n => q = r
  BY DEF FormInv, ServerInv
<1> DEFINE L == Len(writes)
<1>3. /\ L \in Nat /\ L > 0 /\ DOMAIN writes = 1 .. L /\ w = writes[1]
      /\ writes' \in Seq(V) /\ DOMAIN writes' = 1 .. L - 1 /\ \A q \in 1 .. L - 1 : writes'[q] = writes[q + 1]
  <2>1. writes \in Seq(V) /\ writes # <<>> /\ writes' = Tail(writes)
    BY <1>1, <1>2
  <2> HIDE DEF V
  <2> QED
    BY <2>1
<1>31. 1 \in DOMAIN writes /\ w = writes[1]
  <2> HIDE DEF V, L, w
  <2> QED
    BY <1>3
<1>32. Sound(w.list, drawn) /\ \E b \in calls : b.n = w.n /\ b.at = "queued"
         /\ (b.kind = "put" => w.list = Stored(b.body))
  <2> HIDE DEF V, L, w
  <2> QED
    BY <1>2, <1>31
<1>4. PICK b \in calls : b.n = w.n /\ b.at = "queued" /\ (b.kind = "put" => w.list = Stored(b.body))
  BY <1>32
<1>5. c = b
  <2>1. c \in calls /\ c.n = w.n
    BY <1>4
  <2> QED
    BY <1>4, <2>1 DEF FormInv, CallsInv
<1>6. CallSound(b, pairs, drawn) /\ b.kind # "import"
  BY <1>4 DEF FormInv, CallsInv, CallSound, ImportSound
<1>7. PICK a : Fitting(b, a) /\ Becomes(b, a)
  <2>1. Fitting(b, answer)
    BY <1>4, <1>5, <1>6 DEF Fitting, CallSound
  <2>2. Fitting(b, None)
    BY DEF Fitting
  <2> QED
    BY <1>1, <1>5, <2>1, <2>2
<1>8. committed' = w.list \/ committed' = committed
  BY <1>1
<1> HIDE DEF c, answer, V, L, w
<1> DEFINE d == [b EXCEPT !.at = "done", !.answer = a]
<1>9. calls' = (calls \ {b}) \cup {d}
  BY <1>7 DEF Becomes
<1>10. d.n = b.n /\ CallSound(d, pairs, drawn)
  BY <1>6, <1>7, AnsweredIs
<1> HIDE DEF d
<1>11. CallsInv'
  BY <1>1, <1>9, <1>10, CallReplaced DEF FormInv
<1>12. Sound(committed', drawn')
  BY <1>8, <1>32 DEF FormInv, ServerInv
<1>13. ASSUME NEW q \in DOMAIN writes'
       PROVE  /\ Sound(writes'[q].list, drawn')
              /\ \E e \in calls' : e.n = writes'[q].n /\ e.at = "queued"
                   /\ (e.kind = "put" => writes'[q].list = Stored(e.body))
  <2>1. writes'[q] = writes[q + 1] /\ q + 1 \in DOMAIN writes /\ 1 \in DOMAIN writes /\ q + 1 # 1
    BY <1>3
  <2>2. PICK e \in calls :
          e.n = writes[q + 1].n /\ e.at = "queued" /\ (e.kind = "put" => writes[q + 1].list = Stored(e.body))
    BY <1>2, <2>1
  <2>3. e # b
    <3>1. writes[1].n = b.n
      BY <1>31, <1>4
    <3>2. writes[q + 1].n # writes[1].n
      BY <1>2, <2>1
    <3> QED
      BY <2>2, <3>1, <3>2
  <2>4. e \in calls'
    BY <1>9, <2>3
  <2>5. Sound(writes[q + 1].list, drawn)
    BY <1>2, <2>1
  <2> QED
    BY <2>1, <2>2, <2>4, <2>5
<1>14. ASSUME NEW q \in DOMAIN writes', NEW r \in DOMAIN writes', writes'[q].n = writes'[r].n PROVE q = r
  <2>1. /\ writes'[q] = writes[q + 1] /\ q + 1 \in DOMAIN writes
        /\ writes'[r] = writes[r + 1] /\ r + 1 \in DOMAIN writes
        /\ q \in Int /\ r \in Int
    BY <1>3
  <2>2. q + 1 = r + 1
    BY <1>2, <1>14, <2>1
  <2> QED
    BY <2>1, <2>2
<1>15. ServerInv'
  BY <1>3, <1>12, <1>13, <1>14 DEF ServerInv, V
<1> QED
  BY <1>1, <1>11, <1>15, PageKept DEF FormInv

LEMMA RestartStep ==
  ASSUME FormInv, Restart, drawn' = drawn
  PROVE  FormInv'
<1> DEFINE F(c) == IF c.at = "done" THEN c ELSE [c EXCEPT !.at = "done", !.answer = None]
           f == [c \in calls |-> F(c)]
<1>1. /\ writes = <<>> /\ committed' = Stored(committed) /\ UNCHANGED <<writes, pairs, form, drag, typed, made>>
      /\ calls' = {F(c) : c \in calls}
  BY DEF Restart, Refused
<1> HIDE DEF F
<1>2. \A c \in calls : f[c] = F(c)
  OBVIOUS
<1>3. calls' = {f[c] : c \in calls}
  BY <1>1, <1>2
<1> HIDE DEF f
<1>4. ASSUME NEW c \in calls PROVE f[c].n = c.n /\ CallSound(f[c], pairs', drawn')
  <2>1. CallSound(c, pairs', drawn')
    BY <1>1 DEF FormInv, CallsInv
  <2>2. CASE c.at = "done"
    BY <1>2, <2>1, <2>2 DEF F
  <2>3. CASE c.at # "done"
    <3> DEFINE d == [c EXCEPT !.at = "done", !.answer = None]
    <3>1. CallSound(d, pairs', drawn') /\ d.n = c.n
      BY <2>1, AnsweredIs DEF Fitting
    <3>2. f[c] = d
      BY <1>2, <2>3 DEF F
    <3> QED
      BY <3>1, <3>2
  <2> QED
    BY <2>2, <2>3
<1>5. CallsInv'
  BY <1>1, <1>3, <1>4, CallsMapped DEF FormInv
<1>6. Sound(Stored(committed), drawn)
  BY StoredIs DEF FormInv, ServerInv
<1>7. ServerInv'
  BY <1>1, <1>6 DEF FormInv, ServerInv
<1> QED
  BY <1>1, <1>5, <1>7, PageKept DEF FormInv

-----------------------------------------------------------------------------
(* Answers.                                                                *)

\* An answer that was heard, and what the page made of it
LEMMA HeardStep ==
  ASSUME FormInv, EditKeeps, NEW c \in calls, c.at = "done", calls' = calls \ {c}, UNCHANGED <<server, made>>
  PROVE  FormInv'
<1>1. ASSUME NEW d \in calls PROVE CallSound(d, pairs', drawn')
  <2>1. CallSound(d, pairs, drawn)
    BY DEF FormInv, CallsInv
  <2> QED
    BY <2>1, CallLasts DEF EditKeeps
<1>2. CallsInv'
  BY <1>1 DEF FormInv, CallsInv
<1>3. \A b \in calls : b.at = "queued" => b \in calls'
  OBVIOUS
<1>4. ServerInv'
  BY <1>3, ServerKept DEF FormInv, EditKeeps
<1> QED
  BY <1>2, <1>4 DEF FormInv, EditKeeps

LEMMA SwitchArrivesStep ==
  ASSUME FormInv, NEW c \in calls, SwitchArrives(c), drawn' = drawn
  PROVE  FormInv'
<1> DEFINE i == IndexOf(pairs, c.pair)
           card == [form[i] EXCEPT !.switch = c.answer]
           ps == Switched(pairs, c.pair, c.answer)
<1>1. /\ c.kind = "switch" /\ c.at = "done" /\ c.answer # None /\ calls' = calls \ {c}
      /\ UNCHANGED <<server, drag, typed, made>>
      /\ \/ c.pair \in IdsOf(pairs) /\ pairs' = ps /\ form' = [form EXCEPT ![i] = card]
         \/ UNCHANGED <<pairs, form>>
  BY DEF SwitchArrives, Heard, Refused, history
<1>2. c.answer \in BOOLEAN
  BY <1>1 DEF FormInv, CallsInv, CallSound, SwitchSound
<1>3. CASE c.pair \in IdsOf(pairs) /\ pairs' = ps /\ form' = [form EXCEPT ![i] = card]
  <2>1. i \in DOMAIN pairs
    BY <1>3 DEF IdsOf, IndexOf
  <2> HIDE DEF i
  <2>2. /\ Sound(pairs, drawn) /\ AllFit(form, pairs) /\ Answering(form, pairs, typed) /\ DragInv /\ HistoryInv
    BY DEF FormInv, PageInv
  <2>3. /\ Sound(ps, drawn) /\ DOMAIN ps = DOMAIN pairs
        /\ \A l \in DOMAIN pairs :
             ps[l].id = pairs[l].id /\ ps[l].targets = pairs[l].targets /\ ps[l].groups = pairs[l].groups
    BY <1>2, <2>2, SwitchedIs
  <2> HIDE DEF ps
  <2>4. Fits(form[i], pairs[i]) /\ i \in DOMAIN form
    BY <2>1, <2>2 DEF AllFit
  <2>5. /\ DOMAIN card = {"switch", "radio", "targets", "groups"} /\ card.targets = form[i].targets
        /\ card.switch = c.answer /\ card.radio = form[i].radio /\ card.groups = form[i].groups
    BY <2>4 DEF Fits
  <2> HIDE DEF card
  <2>6. Fits(card, pairs[i])
    BY <1>2, <2>4, <2>5 DEF Fits
  <2>7. AllFit(form', pairs)
    BY <1>3, <2>1, <2>2, <2>6, FormChanged
  <2>8. \A l \in DOMAIN pairs : form'[l].targets = form[l].targets
    BY <1>3, <2>2, <2>4, <2>5 DEF AllFit
  <2>9. AllFit(form', ps)
    BY <2>3, <2>7 DEF AllFit, Fits
  <2>10. Answering(form', ps, typed)
    BY <2>2, <2>3, <2>8 DEF Answering
  <2>11. AllTell(pairs, typed) => AllTell(ps, typed)
    BY <2>3 DEF AllTell, Tells
  <2>12. DragInv'
    BY <1>1, <1>3, <2>2, <2>3, <2>11 DEF DragInv
  <2>13. IdsOf(ps) = IdsOf(pairs)
    BY <2>3, IdsSame
  <2>14. HistoryInv'
    BY <1>1, <2>2, HistoryKept
  <2>15. IdsOf(pairs') = IdsOf(ps)
    BY <1>3 DEF IdsOf
  <2>16. EditKeeps
    BY <1>1, <1>3, <2>3, <2>9, <2>10, <2>12, <2>13, <2>14, <2>15 DEF PageInv, EditKeeps
  <2> QED
    BY <1>1, <2>16, HeardStep
<1>4. CASE UNCHANGED <<pairs, form>>
  <2>1. EditKeeps
    BY <1>1, <1>4, PageKept DEF EditKeeps, FormInv
  <2> QED
    BY <1>1, <2>1, HeardStep
<1> QED
  BY <1>1, <1>3, <1>4

LEMMA ImportArrivesStep ==
  ASSUME FormInv, NEW c \in calls, ImportArrives(c), drawn' = drawn
  PROVE  FormInv'
<1> DEFINE i == IndexOf(pairs, c.pair)
           j == c.index
           prices == Imported(Collected[i].targets[j].prices, c.answer)
<1>1. /\ c.kind = "import" /\ c.at = "done" /\ c.answer # None /\ calls' = calls \ {c}
      /\ UNCHANGED <<server, typed, made>>
  BY DEF ImportArrives, Heard, Refused, history
<1>2. \/ c.stray /\ Paints(Collected)
      \/ ~c.stray /\ j \in DOMAIN pairs[i].targets /\ Paints([Collected EXCEPT ![i].targets[j].prices = prices])
      \/ pairs' = Collected /\ UNCHANGED <<form, drag>>
  <2>1. [Collected EXCEPT ![i].targets[j].prices = Imported(@, c.answer)]
          = [Collected EXCEPT ![i].targets[j].prices = prices]
    OBVIOUS
  <2> QED
    BY <2>1 DEF ImportArrives
<1>3. ImportSound(c, pairs)
  BY <1>1 DEF FormInv, CallsInv, CallSound
<1>4. PageInv
  BY DEF FormInv
<1>5. EditKeeps
  <2>1. CASE c.stray /\ Paints(Collected)
    <3>1. Sound(Collected, drawn) /\ AllTell(Collected, typed) /\ IdsOf(Collected) = IdsOf(pairs)
      BY <1>4, CollectedInPage
    <3> QED
      BY <1>1, <1>4, <2>1, <3>1, ReshapeKeeps
  <2>2. CASE ~c.stray /\ j \in DOMAIN pairs[i].targets
               /\ Paints([Collected EXCEPT ![i].targets[j].prices = prices])
    <3>1. i \in DOMAIN pairs
      <4>1. c.pair \in IdsOf(pairs)
        BY <1>3, <2>2 DEF ImportSound
      <4> QED
        BY <4>1 DEF IdsOf, IndexOf
    <3>2. j \in DOMAIN pairs[i].targets /\ Paints([Collected EXCEPT ![i].targets[j].prices = prices])
      BY <2>2
    <3> HIDE DEF i, j
    <3>3. Collected[i].targets[j].prices \in Seq(Rules) /\ NoneTwice(Collected[i].targets[j].prices)
      BY <1>4, <3>1, <3>2, ReadPrices
    <3>4. c.answer \in Catalog
      BY <1>1, <1>3 DEF ImportSound
    <3>5. prices \in Seq(Rules) /\ NoneTwice(prices)
      BY <3>3, <3>4, ImportedIs
    <3> HIDE DEF prices
    <3> QED
      BY <1>1, <1>4, <3>1, <3>2, <3>5, PricesReshaped
  <2>3. CASE pairs' = Collected /\ UNCHANGED <<form, drag>>
    BY <1>1, <1>4, <2>3, ReadKeeps, DragStays
  <2> QED
    BY <1>2, <2>1, <2>2, <2>3
<1> QED
  BY <1>1, <1>5, HeardStep

\* Where the cards of a pair stand, and whose they are
LEMMA InPageIs ==
  ASSUME PageInv, NEW i \in DOMAIN pairs, NEW n \in DOMAIN InPage(i)
  PROVE  InPage(i)[n] \in DOMAIN pairs[i].targets
<1>1. DOMAIN form[i].targets = DOMAIN pairs[i].targets /\ SoundPair(pairs[i], drawn)
  BY ListIs DEF PageInv, AllFit, Fits
<1>2. CASE drag # None /\ drag.seen /\ drag.pair = i
  <2> DEFINE o == drag.order
             ts == pairs[i].targets
  <2>1. IsOrder(o) /\ Len(o) = Len(ts) /\ InPage(i) = o
    BY <1>2 DEF PageInv, DragInv, InPage
  <2>2. o \in Seq(Nat) /\ ts \in Seq(TargetConfig) /\ o[n] \in DOMAIN o
    BY <1>1, <2>1, PairParts DEF IsOrder
  <2> HIDE DEF o, ts
  <2>3. o[n] \in DOMAIN ts
    BY <2>1, <2>2
  <2> QED
    BY <2>1, <2>3 DEF ts
<1>3. CASE ~(drag # None /\ drag.seen /\ drag.pair = i)
  <2>1. InPage(i) = [l \in DOMAIN form[i].targets |-> l]
    BY <1>3 DEF InPage
  <2> QED
    BY <1>1, <2>1
<1> QED
  BY <1>2, <1>3

\* The form becomes the answer, and what is still remembered of a field is what it shows.
LEMMA AdoptedTells ==
  ASSUME PageInv, NEW c, PutSound(c, drawn), Adopts(c)
  PROVE  AllTell(Stored(c.body), Told(c))
<1> DEFINE b == c.body
           new == Stored(b)
<1>1. Sound(b, drawn) /\ AllTell(b, c.typed)
  BY DEF PutSound
<1>2. /\ DOMAIN new = DOMAIN b
      /\ \A i \in DOMAIN b :
           /\ new[i].id = b[i].id /\ DOMAIN new[i].targets = DOMAIN b[i].targets
           /\ \A j \in DOMAIN b[i].targets :
                new[i].targets[j].id = b[i].targets[j].id
                  /\ new[i].targets[j].url = Trimmed(b[i].targets[j].url)
  <2> HIDE DEF b
  <2>1. Sound(b, drawn)
    BY <1>1
  <2>2. DOMAIN new = DOMAIN b
    BY <2>1, StoredIs
  <2>3. ASSUME NEW i \in DOMAIN b
        PROVE  /\ new[i].id = b[i].id /\ DOMAIN new[i].targets = DOMAIN b[i].targets
               /\ \A j \in DOMAIN b[i].targets :
                    new[i].targets[j].id = b[i].targets[j].id
                      /\ new[i].targets[j].url = Trimmed(b[i].targets[j].url)
    <3>1. new[i].id = b[i].id
      BY <2>1, StoredIs
    <3>2. DOMAIN new[i].targets = DOMAIN b[i].targets
      BY <2>1, StoredPair
    <3>3. ASSUME NEW j \in DOMAIN b[i].targets
          PROVE  new[i].targets[j].id = b[i].targets[j].id
                   /\ new[i].targets[j].url = Trimmed(b[i].targets[j].url)
      BY <2>1, StoredPair
    <3> QED
      BY <3>1, <3>2, <3>3
  <2> QED
    BY <2>2, <2>3
<1> HIDE DEF new
<1>3. ASSUME NEW i \in DOMAIN b, NEW j \in DOMAIN b[i].targets
      PROVE  Says(new[i].targets[j].url, Told(c)[<<b[i].id, b[i].targets[j].id>>])
  <2> DEFINE place == <<b[i].id, b[i].targets[j].id>>
             url == b[i].targets[j].url
  <2>1. SoundPair(b[i], drawn)
    BY <1>1, ListIs
  <2>2. place \in Places /\ url \in Urls
    BY <2>1, PairParts, TargetIs DEF Places
  <2>3. Trimmed(url) \in Urls /\ Trimmed(Trimmed(url)) = Trimmed(url)
    BY <2>2, EditorAssumption
  <2>4. Told(c)[place] = IF typed[place] = c.typed[place] \/ InPlace # Sent(c) THEN None ELSE typed[place]
    <3> HIDE DEF place
    <3> QED
      BY <2>2 DEF Told
  <2>5. CASE Told(c)[place] = None
    BY <1>2, <2>3, <2>5 DEF Says
  <2>6. CASE Told(c)[place] # None
    <3>1. /\ Told(c)[place] = typed[place] /\ typed[place] # None /\ typed[place] # c.typed[place]
          /\ InPlace = Sent(c)
      BY <2>4, <2>6
    <3>2. i \in DOMAIN pairs /\ j \in DOMAIN InPage(i)
            /\ place = <<pairs[i].id, pairs[i].targets[InPage(i)[j]].id>>
      <4>1. DOMAIN Sent(c) = DOMAIN b /\ DOMAIN Sent(c)[i] = DOMAIN b[i].targets /\ Sent(c)[i][j] = place
        BY DEF Sent
      <4>2. DOMAIN InPlace = DOMAIN pairs
        BY DEF InPlace
      <4>3. i \in DOMAIN pairs
        BY <3>1, <4>1, <4>2
      <4>4. InPlace[i] = [n \in DOMAIN InPage(i) |-> <<pairs[i].id, pairs[i].targets[InPage(i)[n]].id>>]
        BY <4>3 DEF InPlace
      <4>5. j \in DOMAIN InPage(i)
        BY <3>1, <4>1, <4>4
      <4>6. InPlace[i][j] = <<pairs[i].id, pairs[i].targets[InPage(i)[j]].id>>
        BY <4>4, <4>5
      <4> QED
        BY <3>1, <4>1, <4>3, <4>5, <4>6
    <3> DEFINE m == InPage(i)[j]
    <3>3. m \in DOMAIN pairs[i].targets
      BY <3>2, InPageIs
    <3>4. form[i].targets[m].url = typed[place]
      <4> HIDE DEF m, place
      <4>1. Says(form[i].targets[m].url, typed[<<pairs[i].id, pairs[i].targets[m].id>>])
        BY <3>2, <3>3 DEF PageInv, Answering
      <4>2. place = <<pairs[i].id, pairs[i].targets[m].id>>
        BY <3>2 DEF m
      <4> QED
        BY <3>1, <4>1, <4>2 DEF Says
    <3>5. url = form[i].targets[m].url
      <4>1. i \in DOMAIN form
        BY <3>2 DEF PageInv, AllFit
      <4>2. FormSignature[i].targets[j][1].url = form[i].targets[m].url
        BY <3>2, <4>1, SignatureIs
      <4>3. c.signature[i].targets[j][1].url = url
        BY DEF PutSound
      <4> QED
        BY <4>2, <4>3 DEF Adopts
    <3>6. Says(url, c.typed[place])
      BY <1>1 DEF AllTell, Tells
    <3>7. Trimmed(url) = url
      BY <3>1, <3>4, <3>5, <3>6 DEF Says
    <3> QED
      BY <1>2, <2>6, <3>1, <3>4, <3>5, <3>7 DEF Says
  <2> QED
    BY <2>5, <2>6
<1>4. AllTell(new, Told(c))
  <2> HIDE DEF b
  <2> SUFFICES ASSUME NEW i \in DOMAIN new, NEW j \in DOMAIN new[i].targets
               PROVE  Says(new[i].targets[j].url, Told(c)[<<new[i].id, new[i].targets[j].id>>])
    BY DEF AllTell, Tells
  <2>1. /\ i \in DOMAIN b /\ j \in DOMAIN b[i].targets
        /\ new[i].id = b[i].id /\ new[i].targets[j].id = b[i].targets[j].id
    BY <1>2
  <2> QED
    BY <1>3, <2>1
<1> QED
  BY <1>4 DEF new

LEMMA ToldIs ==
  ASSUME HistoryInv, NEW c, typed' = Told(c), drawn' = drawn
  PROVE  HistoryInv'
<1>1. \A place \in Places : typed'[place] = None \/ typed'[place] = typed[place]
  BY DEF Told
<1>2. typed' = [place \in Places |-> typed'[place]]
  BY DEF Told
<1>3. \A place \in Places : typed'[place] \in Urls \cup {None}
  BY <1>1 DEF HistoryInv
<1>4. typed' \in [Places -> Urls \cup {None}]
  BY <1>2, <1>3
<1> QED
  BY <1>1, <1>4 DEF HistoryInv

\* What the calls give way to, and one more
LEMMA CallsMappedAndOne ==
  ASSUME CallsInv, NEW S \in SUBSET calls, NEW f, NEW new,
         calls' = {f[c] : c \in S} \cup {new}, made' = made + 1, new.n = made, CallSound(new, pairs', drawn'),
         \A c \in S : f[c].n = c.n /\ CallSound(f[c], pairs', drawn')
  PROVE  CallsInv'
<1>1. made \in Nat /\ made' \in Nat
  BY DEF CallsInv
<1>2. ASSUME NEW d \in calls', d # new PROVE \E c \in S : d = f[c] /\ d.n = c.n /\ c.n \in Nat /\ c.n < made
  <2>1. PICK c \in S : d = f[c]
    BY <1>2
  <2> QED
    BY <2>1 DEF CallsInv
<1>3. ASSUME NEW d \in calls' PROVE d.n \in Nat /\ d.n < made' /\ CallSound(d, pairs', drawn')
  <2>1. CASE d = new
    BY <1>1, <2>1
  <2>2. CASE d # new
    <3>1. PICK c \in S : d = f[c] /\ d.n = c.n /\ c.n \in Nat /\ c.n < made
      BY <1>2, <2>2
    <3> QED
      BY <1>1, <3>1
  <2> QED
    BY <2>1, <2>2
<1>4. ASSUME NEW d \in calls', NEW e \in calls', d.n = e.n PROVE d = e
  <2>1. CASE d # new /\ e # new
    <3>1. PICK c \in S : d = f[c] /\ d.n = c.n
      BY <1>2, <2>1
    <3>2. PICK b \in S : e = f[b] /\ e.n = b.n
      BY <1>2, <2>1
    <3>3. c = b
      BY <1>4, <3>1, <3>2 DEF CallsInv
    <3> QED
      BY <3>1, <3>2, <3>3
  <2>2. CASE d = new /\ e # new
    <3>1. e.n \in Nat /\ e.n < made
      BY <1>2, <2>2
    <3> QED
      BY <1>1, <1>4, <2>2, <3>1
  <2>3. CASE d # new /\ e = new
    <3>1. d.n \in Nat /\ d.n < made
      BY <1>2, <2>3
    <3> QED
      BY <1>1, <1>4, <2>3, <3>1
  <2> QED
    BY <2>1, <2>2, <2>3
<1> QED
  BY <1>1, <1>3, <1>4 DEF CallsInv

\* The page becomes the answer, or goes on.
LEMMA AdoptedPage ==
  ASSUME FormInv, NEW c \in calls, PutArrives(c), drawn' = drawn
  PROVE  PageInv' /\ (Adopts(c) \/ IdsOf(pairs') = IdsOf(pairs))
<1>1. c.kind = "put" /\ c.answer # None
  BY DEF PutArrives, Heard, Refused
<1>2. PutSound(c, drawn)
  BY <1>1 DEF FormInv, CallsInv, CallSound
<1>3. PageInv
  BY DEF FormInv
<1>4. CASE Adopts(c)
  <2>1. Paints(c.answer) /\ typed' = Told(c)
    BY <1>4 DEF PutArrives
  <2>2. c.answer = Stored(c.body) /\ Sound(c.body, drawn)
    BY <1>1, <1>2 DEF PutSound
  <2>3. Sound(c.answer, drawn')
    BY <2>2, StoredIs
  <2>4. AllTell(c.answer, typed')
    BY <1>2, <1>3, <1>4, <2>1, <2>2, AdoptedTells
  <2>5. HistoryInv'
    BY <1>3, <2>1, ToldIs DEF PageInv
  <2> QED
    BY <1>3, <1>4, <2>1, <2>3, <2>4, <2>5, Repainted DEF PageInv
<1>5. CASE ~ Adopts(c)
  <2>1. pairs' = Collected /\ UNCHANGED <<form, drag, typed>>
    BY <1>5 DEF PutArrives
  <2>2. IdsOf(Collected) = IdsOf(pairs)
    BY <1>3, CollectedInPage
  <2>3. IdsOf(pairs') = IdsOf(pairs)
    BY <2>1, <2>2
  <2> QED
    BY <1>3, <2>1, <2>3, ReadKeeps, DragStays DEF EditKeeps
<1> QED
  BY <1>4, <1>5

LEMMA PutArrivesStep ==
  ASSUME FormInv, NEW c \in calls, PutArrives(c), drawn' = drawn
  PROVE  FormInv'
<1> DEFINE F(d) == IF Adopts(c) THEN Strayed(d, ProxyIds) ELSE d
           S == calls \ {c}
           f == [d \in S |-> F(d)]
           new == [kind |-> "switch", pair |-> c.then.pair, on |-> c.then.on,
                   n |-> made, heard |-> TRUE, at |-> "sent", answer |-> None]
<1>1. /\ c.kind = "put" /\ c.at = "done" /\ UNCHANGED server
      /\ \/ calls' = {F(d) : d \in S} /\ made' = made
         \/ c.then # None /\ calls' = {F(d) : d \in S} \cup {new} /\ made' = made + 1
  BY DEF PutArrives, Heard
<1>2. PutSound(c, drawn)
  BY <1>1 DEF FormInv, CallsInv, CallSound
<1>3. PageInv' /\ (Adopts(c) \/ IdsOf(pairs') = IdsOf(pairs))
  BY AdoptedPage
<1>4. new.n = made /\ (c.then # None => CallSound(new, pairs', drawn'))
  <2>1. /\ DOMAIN new = SwitchFields /\ new.kind = "switch" /\ new.on = c.then.on /\ new.n = made
        /\ new.answer = None
    BY DEF SwitchFields
  <2> HIDE DEF new
  <2> QED
    BY <1>2, <2>1 DEF PutSound, CallSound, SwitchSound
<1>5. ASSUME NEW d \in S
      PROVE  /\ CallSound(F(d), pairs', drawn') /\ F(d).n = d.n /\ F(d).at = d.at /\ F(d).kind = d.kind
             /\ F(d).kind = "put" => F(d).body = d.body
  <2>1. CallSound(d, pairs, drawn')
    BY DEF FormInv, CallsInv
  <2>2. CASE Adopts(c)
    <3>1. IdsOf(pairs) \ ProxyIds \subseteq IdsOf(pairs')
      <4>1. Sound(pairs, drawn)
        BY DEF FormInv, PageInv
      <4>2. \A i \in DOMAIN pairs : pairs[i].id \in ProxyIds
        BY <4>1, ListIs, PairIs
      <4> QED
        BY <4>2 DEF IdsOf
    <3>2. LET e == Strayed(d, ProxyIds)
          IN  /\ CallSound(e, pairs', drawn') /\ e.n = d.n /\ e.at = d.at /\ e.kind = d.kind
              /\ e.kind = "put" => e.body = d.body
      BY <2>1, <3>1, StrayedIs
    <3> QED
      BY <2>2, <3>2
  <2>3. CASE ~ Adopts(c)
    <3>1. CallSound(d, pairs', drawn')
      BY <1>3, <2>1, <2>3, CallLasts
    <3> QED
      BY <2>3, <3>1
  <2> QED
    BY <2>2, <2>3
<1> HIDE DEF F
<1>6. \A d \in S : f[d] = F(d)
  OBVIOUS
<1>7. \/ calls' = {f[d] : d \in S} /\ made' = made
      \/ calls' = {f[d] : d \in S} \cup {new} /\ made' = made + 1 /\ CallSound(new, pairs', drawn')
  BY <1>1, <1>4, <1>6
<1>8. ASSUME NEW d \in S
      PROVE  /\ CallSound(f[d], pairs', drawn') /\ f[d].n = d.n /\ f[d].at = d.at /\ f[d].kind = d.kind
             /\ f[d].kind = "put" => f[d].body = d.body
  BY <1>5, <1>6
<1>9. S \in SUBSET calls /\ \A d \in calls : d.at = "queued" => d \in S
  BY <1>1
<1> HIDE DEF S, f, new
<1>10. CallsInv'
  BY <1>4, <1>7, <1>8, <1>9, CallsMapped, CallsMappedAndOne DEF FormInv
<1>11. ASSUME NEW d \in calls, d.at = "queued"
       PROVE  \E e \in calls' : e.n = d.n /\ e.at = "queued" /\ (e.kind = "put" => d.kind = "put"
                /\ e.body = d.body)
  BY <1>7, <1>8, <1>9, <1>11
<1>12. ServerInv'
  BY <1>1, <1>11, ServerKept DEF FormInv
<1> QED
  BY <1>3, <1>10, <1>12 DEF FormInv

-----------------------------------------------------------------------------
(* The beginning.                                                          *)

LEMMA UniqueApart ==
  ASSUME NEW V, NEW s \in Seq(V), UniqueIds(s)
  PROVE  Apart(s)
<1> DEFINE L == Len(s)
<1>1. L \in Nat /\ DOMAIN s = 1 .. L /\ Cardinality(IdsOf(s)) = L
  BY DEF UniqueIds
<1> HIDE DEF L
<1> SUFFICES ASSUME NEW i \in DOMAIN s, NEW j \in DOMAIN s, s[i].id = s[j].id, i # j
             PROVE  FALSE
  BY DEF Apart
<1> DEFINE S == DOMAIN s \ {i}
           T == IdsOf(s)
           f == [k \in S |-> s[k].id]
<1>2. IsFiniteSet(DOMAIN s) /\ Cardinality(DOMAIN s) = L
  BY <1>1, FS_Interval
<1>3. IsFiniteSet(S) /\ Cardinality(S) = L - 1
  BY <1>2, FS_RemoveElement
<1>4. f \in Surjection(S, T)
  <2>1. f \in [S -> T]
    BY DEF IdsOf
  <2>2. \A t \in T : \E k \in S : f[k] = t
    <3> SUFFICES ASSUME NEW k \in DOMAIN s
                 PROVE  \E l \in S : f[l] = s[k].id
      BY DEF IdsOf
    <3>1. CASE k = i
      <4>1. j \in S /\ f[j] = s[j].id
        OBVIOUS
      <4> QED
        BY <3>1, <4>1
    <3>2. CASE k # i
      BY <3>2
    <3> QED
      BY <3>1, <3>2
  <2> QED
    BY <2>1, <2>2 DEF Surjection
<1>5. IsFiniteSet(T) /\ Cardinality(T) <= Cardinality(S)
  <2> HIDE DEF f, S, T
  <2> QED
    BY <1>3, <1>4, FS_Surjection
<1> QED
  BY <1>1, <1>3, <1>5

\* A configuration the page may be opened on
LEMMA OpeningIs ==
  ASSUME NEW ps \in Openings, NEW D, IdsOf(ps) \subseteq D,
         \A i \in DOMAIN ps : IdsOf(ps[i].targets) \subseteq D
  PROVE  Sound(ps, D) /\ AllTell(ps, [place \in Places |-> None])
<1>1. ps \in Seq(ProxyPair) /\ ValidList(ps)
  BY OpeningAssumption
<1>2. Apart(ps)
  BY <1>1, UniqueApart DEF ValidList
<1>3. ASSUME NEW i \in DOMAIN ps
      PROVE  SoundPair(ps[i], D) /\ Tells(ps[i], [place \in Places |-> None])
  <2> DEFINE p == ps[i]
  <2>1. /\ p.targets # <<>> /\ UniqueIds(p.targets)
        /\ \A j \in DOMAIN p.targets : ValidTarget(p.targets[j])
        /\ \A k \in DOMAIN p.groups : ValidGroup(p.groups[k], p.targets)
        /\ p.default = DefaultOf(p)
        /\ \A j \in DOMAIN p.targets :
             p.targets[j].url = Trimmed(p.targets[j].url) /\ p.targets[j].key = Keys[<<p.id, p.targets[j].id>>]
    BY <1>1, OpeningAssumption DEF ValidList
  <2>2. p \in ProxyPair /\ p.id \in D /\ IdsOf(p.targets) \subseteq D
    <3>1. p \in ProxyPair
      BY <1>1
    <3> QED
      BY <3>1 DEF IdsOf
  <2> HIDE DEF p
  <2>3. /\ p.id \in ProxyIds /\ p.targets \in Seq(TargetConfig)
    BY <2>2, PairIs
  <2>4. Apart(p.targets)
    BY <2>1, <2>3, UniqueApart
  <2>5. p.default \in IdsOf(p.targets)
    <3>1. 1 \in DOMAIN p.targets
      <4> DEFINE ts == p.targets
      <4>1. ts \in Seq(TargetConfig) /\ ts # <<>>
        BY <2>1, <2>3
      <4> HIDE DEF ts
      <4>2. 1 \in DOMAIN ts
        BY <4>1
      <4> QED
        BY <4>2 DEF ts
    <3>2. p.targets[1].id \in IdsOf(p.targets)
      BY <3>1 DEF IdsOf
    <3> QED
      BY <2>1, <3>2 DEF DefaultOf
  <2>6. ASSUME NEW j \in DOMAIN p.targets
        PROVE  SoundTarget(p.id, p.targets[j], D)
                 /\ Says(p.targets[j].url, [place \in Places |-> None][<<p.id, p.targets[j].id>>])
    <3> DEFINE x == p.targets[j]
    <3>1. x \in TargetConfig /\ x.id \in D /\ x.key = Keys[<<p.id, x.id>>] /\ Trimmed(x.url) = x.url
      BY <2>1, <2>2, <2>3 DEF IdsOf
    <3>2. NoneTwice(x.prices)
      <4>1. IsInjective(x.prices)
        BY <2>1 DEF ValidTarget
      <4> QED
        BY <4>1 DEF IsInjective, NoneTwice
    <3> HIDE DEF x
    <3>3. <<p.id, x.id>> \in Places
      BY <2>3, <3>1, TargetIs DEF Places
    <3>4. [place \in Places |-> None][<<p.id, x.id>>] = None
      BY <3>3
    <3>5. SoundTarget(p.id, x, D)
      BY <3>1, <3>2 DEF SoundTarget
    <3>6. Says(x.url, None)
      BY <3>1 DEF Says
    <3> QED
      BY <3>4, <3>5, <3>6 DEF x
  <2>7. ASSUME NEW k \in DOMAIN p.groups PROVE SoundMembers(p.groups[k].members, p.targets)
    BY <2>1 DEF ValidGroup, SoundMembers
  <2>8. SoundPair(p, D)
    BY <2>2, <2>4, <2>5, <2>6, <2>7, PairMade
  <2>9. Tells(p, [place \in Places |-> None])
    BY <2>6 DEF Tells
  <2> QED
    BY <2>8, <2>9 DEF p
<1> QED
  BY <1>1, <1>2, <1>3 DEF Sound, AllTell

LEMMA FormStarts ==
  ASSUME FormInit
  PROVE  FormInv
<1> DEFINE none == [place \in Places |-> None]
<1>1. /\ committed \in Openings /\ writes = <<>> /\ pairs = committed /\ form = PaintedForm(pairs)
           /\ drag = None
      /\ calls = {} /\ typed = none /\ made = 0
      /\ drawn = IdsOf(pairs) \cup UNION {IdsOf(pairs[i].targets) \cup IdsOf(pairs[i].groups) :
           i \in DOMAIN pairs}
  BY DEF FormInit
<1>2. IdsOf(pairs) \subseteq drawn /\ \A i \in DOMAIN pairs : IdsOf(pairs[i].targets) \subseteq drawn
  BY <1>1
<1>3. Sound(pairs, drawn) /\ AllTell(pairs, none)
  <2>1. pairs \in Openings
    BY <1>1
  <2> QED
    BY <1>2, <2>1, OpeningIs
<1>4. AllFit(form, pairs) /\ Answering(form, pairs, none)
  BY <1>1, <1>3, PaintedIs
<1>5. DragInv
  BY <1>1 DEF DragInv
<1>6. HistoryInv
  <2>1. typed \in [Places -> Urls \cup {None}] /\ \A place \in Places : typed[place] = None
    BY <1>1
  <2>2. ASSUME NEW place \in Places, Keys[place] # None PROVE place[2] \in drawn
    <3>1. \A i \in DOMAIN committed : \A j \in DOMAIN committed[i].targets :
            committed[i].targets[j].id \in drawn
      BY <1>1, <1>2 DEF IdsOf
    <3>2. PICK i \in DOMAIN committed : \E j \in DOMAIN committed[i].targets :
            place = <<committed[i].id, committed[i].targets[j].id>>
      BY <1>1, <2>2, OpeningAssumption
    <3>3. PICK j \in DOMAIN committed[i].targets : place = <<committed[i].id, committed[i].targets[j].id>>
      BY <3>2
    <3> QED
      BY <3>1, <3>3
  <2> QED
    BY <2>1, <2>2 DEF HistoryInv
<1>7. PageInv
  BY <1>1, <1>3, <1>4, <1>5, <1>6 DEF PageInv
<1>8. CallsInv
  BY <1>1 DEF CallsInv
<1>9. ServerInv
  BY <1>1, <1>3 DEF ServerInv
<1> QED
  BY <1>7, <1>8, <1>9 DEF FormInv

-----------------------------------------------------------------------------
(* Every step; the theorems.                                               *)

\* An edit that changes only the page
LEMMA TargetEdit ==
  ASSUME FormInv, NEW i \in DOMAIN pairs, NEW j \in DOMAIN pairs[i].targets, EditsTarget(i, j), drawn' = drawn
  PROVE  FormInv'
<1>1. PageInv /\ CallsInv /\ ServerInv
  BY DEF FormInv
<1>2. ASSUME NEW v \in Urls, TypeUrl(i, j, v) PROVE FormInv'
  <2>1. EditsOnly
    BY <1>2 DEF TypeUrl
  <2> QED
    BY <1>1, <1>2, <2>1, TypeUrlKeeps, EditStep
<1>3. CASE ToggleTarget(i, j)
  <2>1. EditsOnly
    BY <1>3 DEF ToggleTarget
  <2> QED
    BY <1>1, <1>3, <2>1, ToggleTargetKeeps, EditStep
<1>4. CASE ChooseDefault(i, j)
  <2>1. EditsOnly
    BY <1>4 DEF ChooseDefault
  <2> QED
    BY <1>1, <1>4, <2>1, ChooseDefaultKeeps, EditStep
<1>5. CASE RemoveTarget(i, j)
  <2>1. EditsOnly
    BY <1>5 DEF RemoveTarget, Reshapes
  <2> QED
    BY <1>1, <1>5, <2>1, RemoveTargetKeeps, EditStep
<1>6. CASE MoveByKey(i, j)
  <2>1. EditsOnly
    BY <1>6 DEF MoveByKey, Reshapes
  <2> QED
    BY <1>1, <1>6, <2>1, MoveByKeyKeeps, EditStep
<1>7. CASE Import(i, j)
  BY <1>7, ImportStep
<1>8. CASE AddRule(i, j)
  <2>1. EditsOnly
    BY <1>8 DEF AddRule, Reshapes
  <2> QED
    BY <1>1, <1>8, <2>1, AddRuleKeeps, EditStep
<1>9. ASSUME NEW n \in DOMAIN form[i].targets[j].prices, NEW v \in Patterns, TypePattern(i, j, n, v)
      PROVE  FormInv'
  <2>1. EditsOnly
    BY <1>9 DEF TypePattern
  <2> QED
    BY <1>1, <1>9, <2>1, TypePatternKeeps, EditStep
<1>10. ASSUME NEW n \in DOMAIN form[i].targets[j].prices, RemoveRule(i, j, n) PROVE FormInv'
  <2>1. EditsOnly
    BY <1>10 DEF RemoveRule, Reshapes
  <2> QED
    BY <1>1, <1>10, <2>1, RemoveRuleKeeps, EditStep
<1>11. ASSUME NEW n \in DOMAIN form[i].targets[j].prices, SwapRules(i, j, n) PROVE FormInv'
  <2>1. EditsOnly
    BY <1>11 DEF SwapRules, Reshapes
  <2> QED
    BY <1>1, <1>11, <2>1, SwapRulesKeeps, EditStep
<1> QED
  BY <1>2, <1>3, <1>4, <1>5, <1>6, <1>7, <1>8, <1>9, <1>10, <1>11 DEF EditsTarget

LEMMA GroupEdit ==
  ASSUME FormInv, NEW i \in DOMAIN pairs, NEW k \in DOMAIN pairs[i].groups, EditsGroup(i, k), drawn' = drawn
  PROVE  FormInv'
<1>1. PageInv /\ CallsInv /\ ServerInv
  BY DEF FormInv
<1>2. ASSUME NEW t \in IdsOf(pairs[i].targets), Tick(i, k, t) PROVE FormInv'
  <2>1. EditsOnly
    BY <1>2 DEF Tick
  <2> QED
    BY <1>1, <1>2, <2>1, TickKeeps, EditStep
<1>3. ASSUME NEW t \in form[i].groups[k].ticked, NEW v \in Models, TypeModel(i, k, t, v) PROVE FormInv'
  <2>1. EditsOnly
    BY <1>3 DEF TypeModel
  <2> QED
    BY <1>1, <1>3, <2>1, TypeModelKeeps, EditStep
<1>4. CASE RemoveGroup(i, k)
  <2>1. EditsOnly
    BY <1>4 DEF RemoveGroup, Reshapes
  <2> QED
    BY <1>1, <1>4, <2>1, RemoveGroupKeeps, EditStep
<1> QED
  BY <1>2, <1>3, <1>4 DEF EditsGroup

LEMMA AddsStep ==
  ASSUME FormInv, Adds
  PROVE  FormInv'
<1>1. PageInv /\ CallsInv /\ ServerInv
  BY DEF FormInv
<1>2. CASE AddPair
  <2>1. EditsOnly
    BY <1>2 DEF AddPair
  <2> QED
    BY <1>1, <1>2, <2>1, AddPairKeeps, EditStep
<1>3. ASSUME NEW i \in DOMAIN pairs, AddTarget(i) PROVE FormInv'
  <2>1. EditsOnly
    BY <1>3 DEF AddTarget
  <2> QED
    BY <1>1, <1>3, <2>1, AddTargetKeeps, EditStep
<1>4. ASSUME NEW i \in DOMAIN pairs, AddGroup(i) PROVE FormInv'
  <2>1. EditsOnly
    BY <1>4 DEF AddGroup
  <2> QED
    BY <1>1, <1>4, <2>1, AddGroupKeeps, EditStep
<1> QED
  BY <1>2, <1>3, <1>4 DEF Adds

LEMMA EditsStep ==
  ASSUME FormInv, Edits, drawn' = drawn
  PROVE  FormInv'
<1>1. PageInv /\ CallsInv /\ ServerInv
  BY DEF FormInv
<1>2. CASE SwitchLanguage
  <2>1. EditsOnly
    BY <1>2 DEF SwitchLanguage
  <2> QED
    BY <1>1, <1>2, <2>1, SwitchLanguageKeeps, EditStep
<1>3. ASSUME NEW i \in DOMAIN pairs, StartDrag(i) PROVE FormInv'
  <2>1. EditsOnly
    BY <1>3 DEF StartDrag
  <2> QED
    BY <1>1, <1>3, <2>1, StartDragKeeps, EditStep
<1> QED
  BY <1>2, <1>3, RemovePairStep, ToggleSwitchStep, TargetEdit, GroupEdit DEF Edits

LEMMA DragsStep ==
  ASSUME FormInv, Drags, drawn' = drawn
  PROVE  FormInv'
<1>1. PageInv /\ CallsInv /\ ServerInv
  BY DEF FormInv
<1>2. ASSUME drag # None, NEW from \in DOMAIN drag.order, NEW to \in DOMAIN drag.order, DragOver(from, to)
      PROVE  FormInv'
  <2>1. EditsOnly
    BY <1>2 DEF DragOver
  <2> QED
    BY <1>1, <1>2, <2>1, DragOverKeeps, EditStep
<1>3. CASE Drop
  <2>1. EditsOnly
    BY <1>3 DEF Drop
  <2> QED
    BY <1>1, <1>3, <2>1, DropKeeps, EditStep
<1>4. CASE CancelDrag
  <2>1. EditsOnly
    BY <1>4 DEF CancelDrag
  <2> QED
    BY <1>1, <1>4, <2>1, CancelDragKeeps, EditStep
<1> QED
  BY <1>2, <1>3, <1>4 DEF Drags

LEMMA AnswersStep ==
  ASSUME FormInv, NEW c \in calls, Answers(c), drawn' = drawn
  PROVE  FormInv'
  BY PutServedStep, SwitchServedStep, ImportServedStep, PutArrivesStep, SwitchArrivesStep, ImportArrivesStep,
     FailsStep, UnheardStep, LostStep DEF Answers

LEMMA FormStep ==
  ASSUME FormInv, [FormNext]_formVars
  PROVE  FormInv'
<1>1. CASE Adds
  BY <1>1, AddsStep
<1>2. CASE Goes /\ drawn' = drawn
  BY <1>2, EditsStep, DragsStep, SavePairsStep, LeaveAndReturnStep, AppliedStep,
     RestartStep, AnswersStep DEF Goes
<1>3. CASE UNCHANGED formVars
  BY <1>3 DEF formVars, server, history, FormInv, PageInv, DragInv, HistoryInv, CallsInv, ServerInv
<1> QED
  BY <1>1, <1>2, <1>3 DEF FormNext

\* What the page shows, what is on its way and what the server holds fit together, whatever the user,
\* the network and the server do (proxy-config.js, load-balancing.js, routes/pairs.ts).
THEOREM FormKeepsItsInvariant == FormSpec => []FormInv
<1>1. FormInit => FormInv
  BY FormStarts
<1>2. FormInv /\ [FormNext]_formVars => FormInv'
  BY FormStep
<1> QED
  BY <1>1, <1>2, PTL DEF FormSpec

\* What a target's field was last given is what it shows, through every render, reordering and late
\* answer, until an answer came that had it (collectPairs, renderPairs, savePairs).
THEOREM TypedFieldsAreKept == FormSpec => []NothingTypedIsLost
<1>1. FormInv => NothingTypedIsLost
  BY DEF FormInv, PageInv, Answering, Says, NothingTypedIsLost
<1> QED
  BY <1>1, FormKeepsItsInvariant, PTL

LEMMA SoundKeys ==
  ASSUME NEW D, NEW ps, Sound(ps, D)
  PROVE  \A i \in DOMAIN ps : \A j \in DOMAIN ps[i].targets :
           ps[i].targets[j].key = Keys[<<ps[i].id, ps[i].targets[j].id>>]
  BY DEF Sound, SoundPair, SoundTarget

\* What someone wrote into the file by hand stays with its target in every list that is held or on its
\* way (preserveConfigFileFields).
THEOREM KeysAreKept == FormSpec => []KeysStayWithTheirTarget
<1>1. FormInv => KeysStayWithTheirTarget
  <2> DEFINE Held == Lists \cup {writes[q].list : q \in DOMAIN writes}
  <2>1. ASSUME FormInv, NEW ps \in Held PROVE Sound(ps, drawn)
    <3>1. CASE ps = pairs \/ ps = committed
      BY <2>1, <3>1 DEF FormInv, PageInv, ServerInv
    <3>2. ASSUME NEW c \in calls, c.kind = "put", ps = c.body PROVE Sound(ps, drawn)
      BY <2>1, <3>2 DEF FormInv, CallsInv, CallSound, PutSound
    <3>3. ASSUME NEW q \in DOMAIN writes, ps = writes[q].list PROVE Sound(ps, drawn)
      BY <2>1, <3>3 DEF FormInv, ServerInv
    <3> QED
      BY <2>1, <3>1, <3>2, <3>3 DEF Lists
  <2>2. ASSUME FormInv, NEW ps \in Held
        PROVE  \A i \in DOMAIN ps : \A j \in DOMAIN ps[i].targets :
                 ps[i].targets[j].key = Keys[<<ps[i].id, ps[i].targets[j].id>>]
    <3>1. Sound(ps, drawn)
      BY <2>1, <2>2
    <3> QED
      BY <3>1, SoundKeys
  <2> QED
    BY <2>2 DEF KeysStayWithTheirTarget
<1> QED
  BY <1>1, FormKeepsItsInvariant, PTL

\* What the page sends has a default target that is enabled, members that exist and no imported price
\* twice (collectPairs, savePairs).
THEOREM SentPairsAreWellFormed == FormSpec => []SentIsWellFormed
<1>1. FormInv => SentIsWellFormed
  BY DEF FormInv, CallsInv, CallSound, PutSound, SentIsWellFormed
<1> QED
  BY <1>1, FormKeepsItsInvariant, PTL

-----------------------------------------------------------------------------
(* What edits leave of the switches.                                       *)

\* The pairs of a list stood in another, with their switches as they are.
SwitchesOf(new, old) ==
  \A l \in DOMAIN new : \E m \in DOMAIN old : new[l].id = old[m].id /\ new[l].enabled = old[m].enabled

LEMMA ReadSwitches ==
  ASSUME PageInv, NEW i \in DOMAIN pairs
  PROVE  /\ Collected[i] \in ProxyPair /\ Collected[i].id = pairs[i].id
         /\ Collected[i].enabled = pairs[i].enabled
<1>1. SoundPair(Collected[i], drawn) /\ Collected[i].id = pairs[i].id
  BY ReadPair
<1>2. pairs[i] \in ProxyPair
  BY ListIs, PairParts DEF PageInv
<1>3. Collected[i] = CollectedPair(pairs[i], form[i])
  BY DEF Collected
<1>4. CollectedPair(pairs[i], form[i]).enabled = pairs[i].enabled
  BY <1>2 DEF CollectedPair, ProxyPair
<1> QED
  BY <1>1, <1>3, <1>4, PairParts

LEMMA ReadList ==
  ASSUME PageInv
  PROVE  SwitchesOf(Collected, pairs) /\ DOMAIN Collected = DOMAIN pairs
<1>1. DOMAIN Collected = DOMAIN pairs
  BY DEF Collected
<1> QED
  BY <1>1, ReadSwitches DEF SwitchesOf

\* A pair is reshaped, and its switch left alone.
LEMMA OneReshaped ==
  ASSUME PageInv, NEW i \in DOMAIN pairs, NEW y,
         y.id = Collected[i].id, y.enabled = Collected[i].enabled, Paints([Collected EXCEPT ![i] = y])
  PROVE  SwitchesOf(pairs', pairs)
<1>1. pairs' = [Collected EXCEPT ![i] = y]
  BY DEF Paints
<1>2. DOMAIN Collected = DOMAIN pairs
  BY ReadList
<1>3. \A m \in DOMAIN pairs : pairs'[m] = IF m = i THEN y ELSE Collected[m]
  BY <1>1, <1>2
<1>4. DOMAIN pairs' = DOMAIN pairs
  BY <1>1, <1>2
<1> QED
  BY <1>3, <1>4, ReadSwitches DEF SwitchesOf

LEMMA TargetsGiven ==
  ASSUME PageInv, NEW i \in DOMAIN pairs, NEW ts,
         Paints([Collected EXCEPT ![i] = [Collected[i] EXCEPT !.targets = ts]])
  PROVE  SwitchesOf(pairs', pairs)
<1> DEFINE pair == Collected[i]
           y == [pair EXCEPT !.targets = ts]
<1>1. pair \in ProxyPair
  BY ReadSwitches
<1>2. y.id = pair.id /\ y.enabled = pair.enabled
  <2> HIDE DEF pair
  <2> QED
    BY <1>1 DEF ProxyPair
<1>3. Paints([Collected EXCEPT ![i] = y])
  OBVIOUS
<1> HIDE DEF y
<1> QED
  BY <1>2, <1>3, OneReshaped

LEMMA GroupsGiven ==
  ASSUME PageInv, NEW i \in DOMAIN pairs, NEW gs,
         Paints([Collected EXCEPT ![i] = [Collected[i] EXCEPT !.groups = gs]])
  PROVE  SwitchesOf(pairs', pairs)
<1> DEFINE pair == Collected[i]
           y == [pair EXCEPT !.groups = gs]
<1>1. pair \in ProxyPair
  BY ReadSwitches
<1>2. y.id = pair.id /\ y.enabled = pair.enabled
  <2> HIDE DEF pair
  <2> QED
    BY <1>1 DEF ProxyPair
<1>3. Paints([Collected EXCEPT ![i] = y])
  OBVIOUS
<1> HIDE DEF y
<1> QED
  BY <1>2, <1>3, OneReshaped

\* Edits of a target, of a group, and others that add no pair
LEMMA TargetEditSwitches ==
  ASSUME PageInv, NEW i \in DOMAIN pairs, NEW j \in DOMAIN pairs[i].targets, EditsTarget(i, j), ~ Import(i, j)
  PROVE  SwitchesOf(pairs', pairs) /\ EditsOnly
<1>1. CASE pairs' = pairs /\ EditsOnly
  BY <1>1 DEF SwitchesOf
<1>2. ASSUME NEW v \in Urls, TypeUrl(i, j, v) PROVE pairs' = pairs /\ EditsOnly
  BY <1>2 DEF TypeUrl
<1>3. CASE ToggleTarget(i, j)
  BY <1>1, <1>3 DEF ToggleTarget
<1>4. CASE ChooseDefault(i, j)
  <2> DEFINE card == [form[i] EXCEPT !.radio = j]
             y == CollectedPair(pairs[i], card)
  <2>1. EditsOnly /\ Paints([Collected EXCEPT ![i] = y])
    BY <1>4 DEF ChooseDefault
  <2>2. pairs[i] \in ProxyPair
    BY ListIs, PairParts DEF PageInv
  <2> HIDE DEF card
  <2>3. y.id = pairs[i].id /\ y.enabled = pairs[i].enabled
    BY <2>2 DEF CollectedPair, ProxyPair
  <2> HIDE DEF y
  <2> QED
    BY <2>1, <2>3, ReadSwitches, OneReshaped
<1>5. CASE RemoveTarget(i, j)
  <2> DEFINE pair == Collected[i]
             y == WithoutTarget(pair, j)
  <2>1. EditsOnly /\ Paints([Collected EXCEPT ![i] = y])
    <3>1. [Collected EXCEPT ![i] = WithoutTarget(@, j)] = [Collected EXCEPT ![i] = y]
      OBVIOUS
    <3> QED
      BY <1>5, <3>1 DEF RemoveTarget, Reshapes
  <2>2. pair \in ProxyPair
    BY ReadSwitches
  <2> HIDE DEF pair
  <2>3. y.id = pair.id /\ y.enabled = pair.enabled
    BY <2>2 DEF WithoutTarget, ProxyPair
  <2> HIDE DEF y
  <2> QED
    BY <2>1, <2>3, OneReshaped DEF pair
<1>6. CASE MoveByKey(i, j)
  <2>1. PICK ts : EditsOnly /\ Paints([Collected EXCEPT ![i] = [Collected[i] EXCEPT !.targets = ts]])
    <3> DEFINE old == Collected[i].targets
               ts == [m \in DOMAIN old |-> old[IF m = j THEN j + 1 ELSE IF m = j + 1 THEN j ELSE m]]
    <3>1. [Collected EXCEPT ![i].targets =
             [m \in DOMAIN @ |-> @[IF m = j THEN j + 1 ELSE IF m = j + 1 THEN j ELSE m]]]
            = [Collected EXCEPT ![i] = [Collected[i] EXCEPT !.targets = ts]]
      OBVIOUS
    <3> QED
      BY <1>6, <3>1 DEF MoveByKey, Reshapes
  <2> QED
    BY <2>1, TargetsGiven
<1>7. ASSUME NEW prices, EditsOnly, Paints([Collected EXCEPT ![i].targets[j].prices = prices])
      PROVE  SwitchesOf(pairs', pairs)
  <2> DEFINE ts == [Collected[i].targets EXCEPT ![j] = [Collected[i].targets[j] EXCEPT !.prices = prices]]
  <2>1. Paints([Collected EXCEPT ![i] = [Collected[i] EXCEPT !.targets = ts]])
    BY <1>7
  <2> QED
    BY <2>1, TargetsGiven
<1>8. CASE AddRule(i, j)
  <2>1. [Collected EXCEPT ![i].targets[j].prices = Append(@, "")]
          = [Collected EXCEPT ![i].targets[j].prices = Append(Collected[i].targets[j].prices, "")]
    OBVIOUS
  <2>2. /\ EditsOnly
        /\ Paints([Collected EXCEPT ![i].targets[j].prices = Append(Collected[i].targets[j].prices, "")])
    BY <1>8, <2>1 DEF AddRule, Reshapes
  <2> QED
    BY <1>7, <2>2
<1>9. ASSUME NEW n \in DOMAIN form[i].targets[j].prices, NEW v \in Patterns, TypePattern(i, j, n, v)
      PROVE  pairs' = pairs /\ EditsOnly
  BY <1>9 DEF TypePattern
<1>10. ASSUME NEW n \in DOMAIN form[i].targets[j].prices, RemoveRule(i, j, n)
       PROVE  SwitchesOf(pairs', pairs) /\ EditsOnly
  <2>1. [Collected EXCEPT ![i].targets[j].prices = RemoveAt(@, n)]
          = [Collected EXCEPT ![i].targets[j].prices = RemoveAt(Collected[i].targets[j].prices, n)]
    OBVIOUS
  <2>2. /\ EditsOnly
        /\ Paints([Collected EXCEPT ![i].targets[j].prices = RemoveAt(Collected[i].targets[j].prices, n)])
    BY <1>10, <2>1 DEF RemoveRule, Reshapes
  <2> QED
    BY <1>7, <2>2
<1>11. ASSUME NEW n \in DOMAIN form[i].targets[j].prices, SwapRules(i, j, n)
       PROVE  SwitchesOf(pairs', pairs) /\ EditsOnly
  <2> DEFINE old == Collected[i].targets[j].prices
             new == [m \in DOMAIN old |-> old[IF m = n THEN n + 1 ELSE IF m = n + 1 THEN n ELSE m]]
  <2>1. [Collected EXCEPT ![i].targets[j].prices =
           [m \in DOMAIN @ |-> @[IF m = n THEN n + 1 ELSE IF m = n + 1 THEN n ELSE m]]]
          = [Collected EXCEPT ![i].targets[j].prices = new]
    OBVIOUS
  <2>2. EditsOnly /\ Paints([Collected EXCEPT ![i].targets[j].prices = new])
    BY <1>11, <2>1 DEF SwapRules, Reshapes
  <2> QED
    BY <1>7, <2>2
<1> QED
  BY <1>1, <1>2, <1>3, <1>4, <1>5, <1>6, <1>8, <1>9, <1>10, <1>11 DEF EditsTarget

LEMMA GroupEditSwitches ==
  ASSUME PageInv, NEW i \in DOMAIN pairs, NEW k \in DOMAIN pairs[i].groups, EditsGroup(i, k)
  PROVE  SwitchesOf(pairs', pairs) /\ EditsOnly
<1>1. CASE pairs' = pairs /\ EditsOnly
  BY <1>1 DEF SwitchesOf
<1>2. ASSUME NEW t \in IdsOf(pairs[i].targets), Tick(i, k, t) PROVE pairs' = pairs /\ EditsOnly
  BY <1>2 DEF Tick
<1>3. ASSUME NEW t \in form[i].groups[k].ticked, NEW v \in Models, TypeModel(i, k, t, v)
      PROVE  pairs' = pairs /\ EditsOnly
  BY <1>3 DEF TypeModel
<1>4. CASE RemoveGroup(i, k)
  <2>1. [Collected EXCEPT ![i].groups = RemoveAt(@, k)]
          = [Collected EXCEPT ![i] = [Collected[i] EXCEPT !.groups = RemoveAt(Collected[i].groups, k)]]
    OBVIOUS
  <2>2. /\ EditsOnly
        /\ Paints([Collected EXCEPT ![i] = [Collected[i] EXCEPT !.groups = RemoveAt(Collected[i].groups, k)]])
    BY <1>4, <2>1 DEF RemoveGroup, Reshapes
  <2> QED
    BY <2>2, GroupsGiven
<1> QED
  BY <1>1, <1>2, <1>3, <1>4 DEF EditsGroup

LEMMA RemovePairSwitches ==
  ASSUME PageInv, NEW i \in DOMAIN pairs, RemovePair(i)
  PROVE  SwitchesOf(pairs', pairs)
<1> DEFINE old == Collected
           ps == RemoveAt(old, i)
<1>1. pairs' = ps
  BY DEF RemovePair, Paints
<1>2. old \in Seq(ProxyPair) /\ DOMAIN old = DOMAIN pairs
  BY CollectedInPage, ReadList DEF Sound
<1> HIDE DEF old
<1>3. /\ ps \in Seq(ProxyPair) /\ Len(ps) = Len(old) - 1
      /\ \A j \in 1 .. Len(old) - 1 : ps[j] = old[IF j < i THEN j ELSE j + 1]
  BY <1>2, RemoveAtIs
<1> HIDE DEF ps
<1>4. /\ DOMAIN ps = 1 .. Len(old) - 1 /\ DOMAIN old = 1 .. Len(old) /\ Len(old) \in Nat
      /\ i \in 1 .. Len(old)
  BY <1>2, <1>3
<1>5. ASSUME NEW j \in DOMAIN ps PROVE \E m \in DOMAIN pairs : ps[j] = old[m]
  <2>1. (IF j < i THEN j ELSE j + 1) \in DOMAIN old
    BY <1>4
  <2> QED
    BY <1>2, <1>3, <1>4, <2>1
<1> QED
  BY <1>1, <1>5, ReadSwitches DEF SwitchesOf, old

LEMMA AddsSwitches ==
  ASSUME PageInv, Adds
  PROVE  /\ EditsOnly
         /\ \/ SwitchesOf(pairs', pairs)
            \/ \E id \in ProxyIds : id \notin drawn /\ \A l \in DOMAIN pairs' :
                 (pairs'[l].id = id /\ pairs'[l].enabled = FALSE)
                   \/ \E m \in DOMAIN pairs : pairs'[l].id = pairs[m].id /\ pairs'[l].enabled = pairs[m].enabled
<1>1. CASE AddPair
  <2>1. PICK id \in ProxyIds, t \in TargetIds :
          Draws({id, t}) /\ EditsOnly /\ Paints(Append(Collected, NewPair(id, t)))
    BY <1>1 DEF AddPair
  <2> DEFINE new == NewPair(id, t)
             old == Collected
  <2>3. new.id = id /\ new.enabled = FALSE
    BY DEF NewPair
  <2>4. old \in Seq(ProxyPair) /\ DOMAIN old = DOMAIN pairs
    BY CollectedInPage, ReadList DEF Sound
  <2>5. pairs' = Append(old, new)
    BY <2>1 DEF Paints
  <2>6. id \notin drawn
    BY <2>1 DEF Draws
  <2> HIDE DEF new, old
  <2>7. ASSUME NEW l \in DOMAIN pairs'
        PROVE  pairs'[l] = new \/ (l \in DOMAIN pairs /\ pairs'[l] = old[l])
    <3> DEFINE n == Len(old)
    <3>1. DOMAIN old = 1 .. n /\ n \in Nat
      BY <2>4
    <3>2. DOMAIN Append(old, new) = 1 .. n + 1
      BY <2>4
    <3>3. \A m \in 1 .. n : Append(old, new)[m] = old[m]
      BY <2>4
    <3>4. Append(old, new)[n + 1] = new
      BY <2>4
    <3> HIDE DEF n
    <3>5. l \in 1 .. n \/ l = n + 1
      BY <2>5, <2>7, <3>1, <3>2
    <3> QED
      BY <2>4, <2>5, <3>1, <3>3, <3>4, <3>5
  <2>8. \A l \in DOMAIN pairs' :
          (pairs'[l].id = id /\ pairs'[l].enabled = FALSE)
            \/ \E m \in DOMAIN pairs : pairs'[l].id = pairs[m].id /\ pairs'[l].enabled = pairs[m].enabled
    BY <2>3, <2>7, ReadSwitches DEF old
  <2> QED
    BY <2>1, <2>6, <2>8
<1>2. ASSUME NEW i \in DOMAIN pairs, AddTarget(i) PROVE EditsOnly /\ SwitchesOf(pairs', pairs)
  <2>1. PICK t \in TargetIds : EditsOnly /\ Paints([Collected EXCEPT ![i].targets = Append(@, NewTarget(t))])
    BY <1>2 DEF AddTarget
  <2> DEFINE ts == Append(Collected[i].targets, NewTarget(t))
  <2>2. [Collected EXCEPT ![i].targets = Append(@, NewTarget(t))]
          = [Collected EXCEPT ![i] = [Collected[i] EXCEPT !.targets = ts]]
    OBVIOUS
  <2> QED
    BY <2>1, <2>2, TargetsGiven
<1>3. ASSUME NEW i \in DOMAIN pairs, AddGroup(i) PROVE EditsOnly /\ SwitchesOf(pairs', pairs)
  <2>1. PICK g \in GroupIds :
          EditsOnly /\ Paints([Collected EXCEPT ![i].groups = Append(@, [id |-> g, members |-> <<>>])])
    BY <1>3 DEF AddGroup
  <2> DEFINE gs == Append(Collected[i].groups, [id |-> g, members |-> <<>>])
  <2>2. [Collected EXCEPT ![i].groups = Append(@, [id |-> g, members |-> <<>>])]
          = [Collected EXCEPT ![i] = [Collected[i] EXCEPT !.groups = gs]]
    OBVIOUS
  <2> QED
    BY <2>1, <2>2, GroupsGiven
<1> QED
  BY <1>1, <1>2, <1>3 DEF Adds

LEMMA DragsSwitches ==
  ASSUME PageInv, Drags
  PROVE  SwitchesOf(pairs', pairs) /\ EditsOnly
<1>1. CASE pairs' = pairs /\ EditsOnly
  BY <1>1 DEF SwitchesOf
<1>2. CASE \E from, to \in DOMAIN drag.order : DragOver(from, to)
  BY <1>1, <1>2 DEF DragOver
<1>3. CASE CancelDrag
  BY <1>1, <1>3 DEF CancelDrag
<1>4. CASE Drop
  <2>1. EditsOnly
    BY <1>4 DEF Drop
  <2> DEFINE i == drag.pair
             ts == Ordered(pairs[i].targets)
             y == [pairs[i] EXCEPT !.targets = ts]
  <2>2. (i \in DOMAIN pairs /\ pairs' = [pairs EXCEPT ![i] = y]) \/ pairs' = pairs
    <3>1. [pairs EXCEPT ![drag.pair].targets = Ordered(@)] = [pairs EXCEPT ![i] = y]
      OBVIOUS
    <3> QED
      BY <1>4, <3>1 DEF Drop
  <2>3. ASSUME i \in DOMAIN pairs PROVE y.id = pairs[i].id /\ y.enabled = pairs[i].enabled
    <3>1. pairs[i] \in ProxyPair
      BY <2>3, ListIs, PairParts DEF PageInv
    <3> HIDE DEF ts
    <3> QED
      BY <3>1 DEF ProxyPair
  <2> HIDE DEF i, y
  <2>4. CASE i \in DOMAIN pairs /\ pairs' = [pairs EXCEPT ![i] = y]
    <3>1. DOMAIN pairs' = DOMAIN pairs /\ \A m \in DOMAIN pairs : pairs'[m] = IF m = i THEN y ELSE pairs[m]
      BY <2>4
    <3> QED
      BY <2>1, <2>3, <2>4, <3>1 DEF SwitchesOf
  <2> QED
    BY <1>1, <2>1, <2>2, <2>4
<1> QED
  BY <1>2, <1>3, <1>4 DEF Drags

-----------------------------------------------------------------------------
(* What is told of a switch, and how a step keeps it.                      *)

\* Every list that is held or on its way, and what they all tell of the switch of a pair
Around == Lists \cup {writes[q].list : q \in DOMAIN writes}
Turned(ps, p, on) == \A l \in DOMAIN ps : ps[l].id = p => ps[l].enabled = on
Agreed(p) == \E on \in BOOLEAN : \A ps \in Around : Turned(ps, p, on)

\* A switch of a pair that is not doubted is alone on its way, and what was made of it is what it says.
Alone(s) ==
  /\ s.heard /\ \A c \in calls : c.kind = "import" \/ c = s
  /\ s.at = "done" /\ s.answer # None => Turned(committed, s.pair, s.on)

\* A pair that is neither doubted nor being switched stands everywhere as it stands anywhere.
SwitchInv ==
  /\ \A s \in Switches : s.pair \in doubted \/ Alone(s)
  /\ \A s \in Switches : \A q \in DOMAIN writes : writes[q].n = s.n => Turned(writes[q].list, s.pair, s.on)
  /\ \A p \in ProxyIds : p \in doubted \/ (\E s \in Switches : s.pair = p) \/ Agreed(p)

\* What a list tells of a pair, another told.
Follows(new, old, p) ==
  \A l \in DOMAIN new : new[l].id = p => \E m \in DOMAIN old : old[m].id = p /\ old[m].enabled = new[l].enabled

LEMMA SwitchesFollow ==
  ASSUME NEW new, NEW old, SwitchesOf(new, old), NEW p
  PROVE  Follows(new, old, p)
  BY DEF SwitchesOf, Follows

LEMMA SameFollows ==
  ASSUME NEW ps, NEW p
  PROVE  Follows(ps, ps, p)
  BY DEF Follows

LEMMA TurnedFollows ==
  ASSUME NEW new, NEW old, NEW p, Follows(new, old, p), NEW on, Turned(old, p, on)
  PROVE  Turned(new, p, on)
  BY DEF Follows, Turned

LEMMA AgreedLasts ==
  ASSUME NEW p, Agreed(p), \A new \in Around' : \E old \in Around : Follows(new, old, p)
  PROVE  Agreed(p)'
<1>1. PICK on \in BOOLEAN : \A ps \in Around : Turned(ps, p, on)
  BY DEF Agreed
<1>2. ASSUME NEW new \in Around' PROVE Turned(new, p, on)
  <2>1. PICK old \in Around : Follows(new, old, p)
    OBVIOUS
  <2> QED
    BY <1>1, <2>1, TurnedFollows
<1>3. \E b \in BOOLEAN : \A new \in Around' : Turned(new, p, b)
  BY <1>1, <1>2
<1> QED
  BY <1>3 DEF Agreed, Turned

\* The lists there are, one by one
LEMMA AroundIs ==
  ASSUME NEW ps \in Around
  PROVE  \/ ps = pairs \/ ps = committed
         \/ \E c \in calls : c.kind = "put" /\ ps = c.body
         \/ \E q \in DOMAIN writes : ps = writes[q].list
  BY DEF Around, Lists

LEMMA InAround ==
  /\ pairs \in Around /\ committed \in Around
  /\ \A c \in calls : c.kind = "put" => c.body \in Around
  /\ \A q \in DOMAIN writes : writes[q].list \in Around
  BY DEF Around, Lists

\* What a step has to show
LEMMA SwitchesGoOn ==
  ASSUME SwitchInv, doubted \subseteq doubted',
         \A s \in Switches' : s.pair \in doubted' \/ Alone(s)',
         \A s \in Switches' : \A q \in DOMAIN writes' :
           writes'[q].n = s.n => Turned(writes'[q].list, s.pair, s.on),
         \A s \in Switches : s.pair \in doubted' \/ (\E r \in Switches' : r.pair = s.pair) \/ Agreed(s.pair)',
         \A p \in ProxyIds : \/ p \in doubted' \/ (\E r \in Switches' : r.pair = p) \/ Agreed(p)'
                             \/ \A new \in Around' : \E old \in Around : Follows(new, old, p)
  PROVE  SwitchInv'
<1>1. ASSUME NEW p \in ProxyIds
      PROVE  p \in doubted' \/ (\E r \in Switches' : r.pair = p) \/ Agreed(p)'
  <2>1. CASE p \in doubted
    BY <2>1
  <2>2. ASSUME NEW s \in Switches, s.pair = p
        PROVE  p \in doubted' \/ (\E r \in Switches' : r.pair = p) \/ Agreed(p)'
    BY <2>2
  <2>3. CASE Agreed(p)
    BY <2>3, AgreedLasts
  <2> QED
    BY <2>1, <2>2, <2>3 DEF SwitchInv
<1> QED
  BY <1>1 DEF SwitchInv

\* The server and its writes are left alone.
LEMMA QuietStep ==
  ASSUME FormInv, SwitchInv, UNCHANGED server, doubted \subseteq doubted',
         \E old \in Around : SwitchesOf(pairs', old),
         \A d \in calls' :
           \/ d.kind = "import" \/ d \in calls
           \/ /\ \A s \in Switches' : s.pair \in doubted'
              /\ d.kind = "put" => \E old \in Around : SwitchesOf(d.body, old)
              /\ d.kind = "switch" => \E s \in Switches : s.pair = d.pair /\ s.on = d.on /\ s.n = d.n,
         \A s \in Switches : s.pair \in doubted' \/ s \in calls'
  PROVE  SwitchInv'
<1>1. committed' = committed /\ writes' = writes
  BY DEF server
<1>2. ASSUME NEW s \in Switches' PROVE s.pair \in doubted' \/ Alone(s)'
  <2>1. s \in calls' /\ s.kind = "switch"
    BY DEF Switches
  <2> SUFFICES ASSUME s.pair \notin doubted' PROVE Alone(s)'
    OBVIOUS
  <2>2. \A d \in calls' : d.kind = "import" \/ d \in calls
    BY <1>2
  <2>3. s \in Switches
    BY <2>1, <2>2 DEF Switches
  <2>4. Alone(s)
    BY <2>3 DEF SwitchInv
  <2>5. Turned(committed, s.pair, s.on)' <=> Turned(committed, s.pair, s.on)
    BY <1>1 DEF Turned
  <2> QED
    BY <2>2, <2>4, <2>5 DEF Alone
<1>3. ASSUME NEW s \in Switches', NEW q \in DOMAIN writes', writes'[q].n = s.n
      PROVE  Turned(writes'[q].list, s.pair, s.on)
  <2>1. PICK r \in Switches : r.pair = s.pair /\ r.on = s.on /\ r.n = s.n
    BY DEF Switches
  <2> QED
    BY <1>1, <1>3, <2>1 DEF SwitchInv
<1>4. ASSUME NEW s \in Switches
      PROVE  s.pair \in doubted' \/ \E r \in Switches' : r.pair = s.pair
  BY DEF Switches
<1>5. ASSUME NEW new \in Around' PROVE \E old \in Around : SwitchesOf(new, old)
  <2>1. CASE new = pairs'
    BY <2>1
  <2>2. CASE new = committed' \/ \E q \in DOMAIN writes' : new = writes'[q].list
    BY <1>1, <2>2, InAround DEF SwitchesOf
  <2>3. ASSUME NEW d \in calls', d.kind = "put", new = d.body PROVE \E old \in Around : SwitchesOf(new, old)
    <3>1. CASE d \in calls
      BY <2>3, <3>1, InAround DEF SwitchesOf
    <3> QED
      BY <2>3, <3>1
  <2> QED
    BY <2>1, <2>2, <2>3 DEF Around, Lists
<1>6. \A p \in ProxyIds : \A new \in Around' : \E old \in Around : Follows(new, old, p)
  BY <1>5, SwitchesFollow
<1> QED
  BY <1>2, <1>3, <1>4, <1>6, SwitchesGoOn

-----------------------------------------------------------------------------
(* Lists in which pairs keep their switches; edits.                        *)

\* With a save or a switch on its way, no other switch is alone.
LEMMA NoOtherAlone ==
  ASSUME SwitchInv, NEW c \in calls, c.kind # "import", NEW s \in Switches, s # c
  PROVE  s.pair \in doubted
  BY DEF SwitchInv, Alone

\* Of what is held or on its way, all is sound.
LEMMA AroundSound ==
  ASSUME FormInv, NEW ps \in Around
  PROVE  Sound(ps, drawn)
<1>1. CASE ps = pairs \/ ps = committed
  BY <1>1 DEF FormInv, PageInv, ServerInv
<1>2. ASSUME NEW c \in calls, c.kind = "put", ps = c.body PROVE Sound(ps, drawn)
  BY <1>2 DEF FormInv, CallsInv, CallSound, PutSound
<1>3. ASSUME NEW q \in DOMAIN writes, ps = writes[q].list PROVE Sound(ps, drawn)
  BY <1>3 DEF FormInv, ServerInv
<1> QED
  BY <1>1, <1>2, <1>3, AroundIs

\* What the server stores has the switches of what was sent.
LEMMA StoredSwitches ==
  ASSUME NEW D, NEW ps, Sound(ps, D)
  PROVE  SwitchesOf(Stored(ps), ps) /\ DOMAIN Stored(ps) = DOMAIN ps
<1>1. DOMAIN Stored(ps) = DOMAIN ps /\ \A i \in DOMAIN ps : Stored(ps)[i].id = ps[i].id
  BY StoredIs
<1>2. ASSUME NEW i \in DOMAIN ps PROVE Stored(ps)[i].enabled = ps[i].enabled
  <2> DEFINE x == ps[i]
             p == ParsedPair(x)
  <2>1. x \in ProxyPair
    BY ListIs
  <2>2. DOMAIN Parsed(ps) = DOMAIN ps /\ Parsed(ps)[i] = p
    BY DEF Parsed
  <2> HIDE DEF x
  <2>4. p.enabled = x.enabled /\ DOMAIN p = DOMAIN x /\ "enabled" \in DOMAIN x
    BY <2>1 DEF ParsedPair, ProxyPair
  <2> HIDE DEF p
  <2>5. PICK ts : Stored(ps)[i] = [p EXCEPT !.targets = ts]
    BY <2>2 DEF Stored, Preserved
  <2> QED
    BY <2>4, <2>5 DEF x
<1> QED
  BY <1>1, <1>2 DEF SwitchesOf

\* A list with one pair switched
LEMMA SwitchedFollows ==
  ASSUME NEW D, NEW ps, Sound(ps, D), NEW id, NEW on \in BOOLEAN
  PROVE  /\ Turned(Switched(ps, id, on), id, on)
         /\ \A p : p # id => Follows(Switched(ps, id, on), ps, p)
<1> DEFINE new == Switched(ps, id, on)
<1>1. DOMAIN new = DOMAIN ps
  BY DEF Switched
<1>2. ASSUME NEW i \in DOMAIN ps
      PROVE  /\ new[i].id = ps[i].id
             /\ ps[i].id = id => new[i].enabled = on
             /\ ps[i].id # id => new[i].enabled = ps[i].enabled
  <2> DEFINE x == ps[i]
  <2>1. x \in ProxyPair
    BY ListIs
  <2>2. new[i] = IF x.id = id THEN [x EXCEPT !.enabled = on] ELSE x
    BY DEF Switched
  <2> HIDE DEF x, new
  <2> QED
    BY <2>1, <2>2 DEF ProxyPair, x
<1> HIDE DEF new
<1>3. Turned(new, id, on) /\ \A p : p # id => Follows(new, ps, p)
  BY <1>1, <1>2 DEF Turned, Follows
<1> QED
  BY <1>3 DEF new

\* A pair that stands once in a list
LEMMA IndexIs ==
  ASSUME NEW D, NEW ps, Sound(ps, D), NEW p \in IdsOf(ps)
  PROVE  /\ IndexOf(ps, p) \in DOMAIN ps /\ ps[IndexOf(ps, p)].id = p
         /\ \A l \in DOMAIN ps : ps[l].id = p => l = IndexOf(ps, p)
<1>1. \E l \in DOMAIN ps : ps[l].id = p
  BY DEF IdsOf
<1>2. IndexOf(ps, p) \in DOMAIN ps /\ ps[IndexOf(ps, p)].id = p
  BY <1>1 DEF IndexOf
<1> QED
  BY <1>2 DEF Sound, Apart

LEMMA FormStartsAgreed ==
  ASSUME FormInit
  PROVE  SwitchInv
<1>1. calls = {} /\ writes = <<>> /\ pairs = committed
  BY DEF FormInit
<1>2. Around = {committed} /\ Switches = {}
  BY <1>1 DEF Around, Lists, Switches
<1>3. Sound(committed, drawn)
  BY FormStarts DEF FormInv, ServerInv
<1>4. ASSUME NEW p \in ProxyIds PROVE Agreed(p)
  <2>1. CASE p \in IdsOf(committed)
    <3> DEFINE on == committed[IndexOf(committed, p)].enabled
    <3>1. Turned(committed, p, on)
      BY <1>3, <2>1, IndexIs DEF Turned
    <3>2. on \in BOOLEAN
      BY <1>3, <2>1, IndexIs, ListIs, PairIs
    <3> HIDE DEF on
    <3> QED
      BY <1>2, <3>1, <3>2 DEF Agreed
  <2>2. CASE p \notin IdsOf(committed)
    <3>1. Turned(committed, p, FALSE)
      BY <2>2 DEF Turned, IdsOf
    <3> QED
      BY <1>2, <3>1 DEF Agreed
  <2> QED
    BY <2>1, <2>2
<1> QED
  BY <1>1, <1>2, <1>4 DEF SwitchInv

\* Edits
LEMMA EditSwitches ==
  ASSUME FormInv, SwitchInv, EditsOnly, SwitchesOf(pairs', pairs)
  PROVE  SwitchInv'
<1>1. server' = server /\ calls' = calls /\ doubted' = doubted
  BY DEF EditsOnly
<1>2. \A s \in Switches : s \in calls
  BY DEF Switches
<1> QED
  BY <1>1, <1>2, InAround, QuietStep

LEMMA AddsStay ==
  ASSUME FormInv, SwitchInv, Adds
  PROVE  SwitchInv'
<1>1. PageInv
  BY DEF FormInv
<1>2. EditsOnly
  BY <1>1, AddsSwitches
<1>3. CASE SwitchesOf(pairs', pairs)
  BY <1>2, <1>3, EditSwitches
<1>4. ASSUME NEW id \in ProxyIds, id \notin drawn,
             \A l \in DOMAIN pairs' :
               (pairs'[l].id = id /\ pairs'[l].enabled = FALSE)
                 \/ \E m \in DOMAIN pairs : pairs'[l].id = pairs[m].id /\ pairs'[l].enabled = pairs[m].enabled
      PROVE  SwitchInv'
  <2>1. committed' = committed /\ writes' = writes /\ calls' = calls /\ doubted' = doubted
    BY <1>2 DEF EditsOnly, server
  <2>2. Switches' = Switches /\ \A s \in Switches : s \in calls
    BY <2>1 DEF Switches
  <2>3. ASSUME NEW s \in Switches' PROVE s.pair \in doubted' \/ Alone(s)'
    <3>1. s.pair \in doubted \/ Alone(s)
      BY <2>2 DEF SwitchInv
    <3> QED
      BY <2>1, <3>1 DEF Alone, Turned
  <2>4. \A new \in Around' : new = pairs' \/ new \in Around
    BY <2>1 DEF Around, Lists
  <2>5. ASSUME NEW p \in ProxyIds, p # id
        PROVE  \A new \in Around' : \E old \in Around : Follows(new, old, p)
    <3>1. Follows(pairs', pairs, p)
      BY <1>4, <2>5 DEF Follows
    <3> QED
      BY <2>4, <3>1, InAround, SameFollows
  <2>6. Agreed(id)'
    <3>1. ASSUME NEW ps \in Around PROVE Turned(ps, id, FALSE)
      <4>1. Sound(ps, drawn)
        BY AroundSound
      <4>2. \A l \in DOMAIN ps : ps[l].id \in drawn
        BY <4>1 DEF Sound, SoundPair
      <4> QED
        BY <1>4, <4>2 DEF Turned
    <3>2. Turned(pairs', id, FALSE)
      <4>1. Turned(pairs, id, FALSE)
        BY <3>1, InAround
      <4> QED
        BY <1>4, <4>1 DEF Turned
    <3>3. \A new \in Around' : Turned(new, id, FALSE)
      BY <2>4, <3>1, <3>2
    <3> QED
      BY <3>3 DEF Agreed, Turned
  <2>7. \A s \in Switches' : \A q \in DOMAIN writes' :
          writes'[q].n = s.n => Turned(writes'[q].list, s.pair, s.on)
    BY <2>1, <2>2 DEF SwitchInv
  <2> QED
    BY <2>1, <2>2, <2>3, <2>5, <2>6, <2>7, SwitchesGoOn
<1> QED
  BY <1>1, <1>3, <1>4, AddsSwitches

-----------------------------------------------------------------------------
(* Calls of the page, with its switches.                                   *)

\* Calls of the page
LEMMA SaveSwitches ==
  ASSUME FormInv, SwitchInv, UNCHANGED server, NEW displayed, NEW then, Calls(PutCall(displayed, then)),
         pairs' = Collected, doubted' = doubted \cup {c.pair : c \in Switches}
  PROVE  SwitchInv'
<1> DEFINE new == PutCall(displayed, then)
<1>1. calls' = calls \cup {new} /\ new.kind = "put" /\ new.body = Collected
  BY DEF Calls, PutCall
<1> HIDE DEF new
<1>2. SwitchesOf(Collected, pairs)
  BY ReadList DEF FormInv
<1>3. \A s \in Switches' : s \in Switches
  BY <1>1 DEF Switches
<1>4. \A s \in Switches : s \in calls' /\ s.pair \in doubted'
  BY <1>1 DEF Switches
<1>5. \A d \in calls' : d \in calls \/ (d.kind = "put" /\ d.body = Collected)
  BY <1>1
<1> QED
  BY <1>2, <1>3, <1>4, <1>5, InAround, QuietStep

LEMMA ImportSwitches ==
  ASSUME FormInv, SwitchInv, NEW i \in DOMAIN pairs, NEW j \in DOMAIN pairs[i].targets, Import(i, j)
  PROVE  SwitchInv'
<1> DEFINE c == [kind |-> "import", pair |-> pairs[i].id, index |-> j, stray |-> FALSE,
                 n |-> made, heard |-> TRUE, at |-> "sent", answer |-> None]
<1>1. /\ calls' = calls \cup {c} /\ c.kind = "import" /\ pairs' = Collected
      /\ server' = server /\ doubted' = doubted
  BY DEF Import, Calls, history
<1> HIDE DEF c
<1>2. SwitchesOf(pairs', pairs)
  BY <1>1, ReadList DEF FormInv
<1>3. \A s \in Switches : s \in calls'
  BY <1>1 DEF Switches
<1> QED
  BY <1>1, <1>2, <1>3, InAround, QuietStep

LEMMA StrayedKind ==
  ASSUME NEW c, NEW ps, NEW D, CallSound(c, ps, D), NEW freed
  PROVE  Strayed(c, freed) = c \/ (c.kind = "import" /\ Strayed(c, freed).kind = "import")
<1>1. CASE c.kind = "import" /\ ImportSound(c, ps)
  <2>1. [c EXCEPT !.stray = TRUE].kind = "import"
    BY <1>1 DEF ImportSound, ImportFields
  <2> QED
    BY <1>1, <2>1 DEF Strayed
<1>2. CASE c.kind # "import"
  BY <1>2 DEF Strayed
<1> QED
  BY <1>1, <1>2 DEF CallSound

LEMMA RemovePairStays ==
  ASSUME FormInv, SwitchInv, NEW i \in DOMAIN pairs, RemovePair(i)
  PROVE  SwitchInv'
<1>1. calls' = {Strayed(c, {pairs[i].id}) : c \in calls} /\ server' = server /\ doubted' = doubted
  BY DEF RemovePair, history
<1>2. SwitchesOf(pairs', pairs)
  BY RemovePairSwitches DEF FormInv
<1>3. \A c \in calls : Strayed(c, {pairs[i].id}) = c
        \/ (c.kind = "import" /\ Strayed(c, {pairs[i].id}).kind = "import")
  BY StrayedKind DEF FormInv, CallsInv
<1>4. \A d \in calls' : d.kind = "import" \/ d \in calls
  BY <1>1, <1>3
<1>5. ASSUME NEW s \in Switches PROVE s \in calls'
  <2>1. s \in calls /\ s.kind = "switch"
    BY DEF Switches
  <2>2. Strayed(s, {pairs[i].id}) = s
    BY <1>3, <2>1
  <2> QED
    BY <1>1, <2>1, <2>2
<1> QED
  BY <1>1, <1>2, <1>4, <1>5, InAround, QuietStep

\* What is let go of
LEMMA LetGoKind ==
  ASSUME NEW c, NEW ps, NEW D, CallSound(c, ps, D)
  PROVE  LET d == [c EXCEPT !.heard = FALSE]
         IN  /\ d.kind = c.kind /\ d.n = c.n
             /\ c.kind = "put" => d.body = c.body
             /\ c.kind = "switch" => d.pair = c.pair /\ d.on = c.on
<1>1. CASE c.kind = "put" /\ PutSound(c, D)
  BY <1>1 DEF PutSound, PutFields
<1>2. CASE c.kind = "switch" /\ SwitchSound(c)
  BY <1>2 DEF SwitchSound, SwitchFields
<1>3. CASE c.kind = "import" /\ ImportSound(c, ps)
  BY <1>3 DEF ImportSound, ImportFields
<1> QED
  BY <1>1, <1>2, <1>3 DEF CallSound

LEMMA LetsSwitches ==
  ASSUME FormInv, SwitchInv, NEW freed \in SUBSET calls, Lets(freed), UNCHANGED server, SwitchesOf(pairs', pairs),
         \A c \in freed : c.heard, \/ \E c \in calls : freed = {c}
                                  \/ \A c \in calls : c.heard => c \in freed
  PROVE  SwitchInv'
<1> DEFINE Unheeded(c) == [c EXCEPT !.heard = FALSE]
<1>1. /\ calls' = {IF c \in freed THEN Unheeded(c) ELSE c : c \in calls}
      /\ doubted' = doubted \cup {c.pair : c \in {d \in freed : d.kind = "switch"}}
  BY DEF Lets
<1>2. ASSUME NEW c \in freed
      PROVE  /\ Unheeded(c).kind = c.kind /\ Unheeded(c).n = c.n
             /\ c.kind = "put" => Unheeded(c).body = c.body
             /\ c.kind = "switch" => Unheeded(c).pair = c.pair /\ Unheeded(c).on = c.on
  <2>1. CallSound(c, pairs, drawn)
    BY DEF FormInv, CallsInv
  <2> QED
    BY <2>1, LetGoKind
<1> HIDE DEF Unheeded
<1>3. ASSUME NEW s \in Switches PROVE s.pair \in doubted' \/ s \in calls'
  <2>1. s \in calls /\ s.kind = "switch"
    BY DEF Switches
  <2> QED
    BY <1>1, <2>1
<1>4. \A d \in calls' : d \in calls \/ \E c \in freed : d = Unheeded(c)
  BY <1>1
<1>5. ASSUME NEW c \in freed, c.kind # "import", NEW s \in Switches' PROVE s.pair \in doubted'
  <2>1. CASE s \in calls /\ s \notin freed
    <3>1. s \in Switches /\ s # c
      BY <2>1 DEF Switches
    <3> QED
      BY <1>1, <1>5, <3>1, NoOtherAlone
  <2>2. CASE s \in freed
    BY <1>1, <2>2 DEF Switches
  <2>3. ASSUME NEW b \in freed, s = Unheeded(b) PROVE s.pair \in doubted'
    BY <1>1, <1>2, <2>3 DEF Switches
  <2> QED
    BY <1>4, <2>1, <2>2, <2>3 DEF Switches
<1>6. ASSUME NEW d \in calls'
      PROVE  \/ d.kind = "import" \/ d \in calls
             \/ /\ \A s \in Switches' : s.pair \in doubted'
                /\ d.kind = "put" => \E old \in Around : SwitchesOf(d.body, old)
                /\ d.kind = "switch" => \E s \in Switches : s.pair = d.pair /\ s.on = d.on /\ s.n = d.n
  <2> SUFFICES ASSUME d \notin calls, d.kind # "import"
               PROVE  /\ \A s \in Switches' : s.pair \in doubted'
                      /\ d.kind = "put" => \E old \in Around : SwitchesOf(d.body, old)
                      /\ d.kind = "switch" => \E s \in Switches : s.pair = d.pair /\ s.on = d.on /\ s.n = d.n
    OBVIOUS
  <2>1. PICK c \in freed : d = Unheeded(c)
    BY <1>4
  <2>2. c \in calls /\ c.kind = d.kind
    BY <1>2, <2>1
  <2>3. d.kind = "put" => \E old \in Around : SwitchesOf(d.body, old)
    BY <1>2, <2>1, <2>2, InAround DEF SwitchesOf
  <2>4. d.kind = "switch" => \E s \in Switches : s.pair = d.pair /\ s.on = d.on /\ s.n = d.n
    BY <1>2, <2>1, <2>2 DEF Switches
  <2> QED
    BY <1>5, <2>2, <2>3, <2>4
<1>7. doubted \subseteq doubted'
  BY <1>1
<1> QED
  BY <1>3, <1>6, <1>7, InAround, QuietStep

LEMMA LostSwitches ==
  ASSUME FormInv, SwitchInv, NEW c \in calls, Lost(c)
  PROVE  SwitchInv'
<1>1. Lets({c}) /\ server' = server /\ pairs' = pairs
  BY DEF Lost
<1>2. SwitchesOf(pairs', pairs)
  BY <1>1 DEF SwitchesOf
<1> QED
  BY <1>1, <1>2, LetsSwitches DEF Lost

LEMMA LeaveSwitches ==
  ASSUME FormInv, SwitchInv, LeaveAndReturn
  PROVE  SwitchInv'
<1> DEFINE freed == {c \in calls : c.heard}
<1>1. Lets(freed) /\ server' = server /\ pairs' = Collected
  BY DEF LeaveAndReturn
<1>2. SwitchesOf(pairs', pairs)
  BY <1>1, ReadList DEF FormInv
<1>3. freed \in SUBSET calls /\ (\A c \in freed : c.heard) /\ \A c \in calls : c.heard => c \in freed
  OBVIOUS
<1> HIDE DEF freed
<1> QED
  BY <1>1, <1>2, <1>3, LetsSwitches

LEMMA EditsStay ==
  ASSUME FormInv, SwitchInv, Edits
  PROVE  SwitchInv'
<1>1. PageInv
  BY DEF FormInv
<1>2. CASE SwitchLanguage
  <2>1. EditsOnly /\ pairs' = Collected
    BY <1>2 DEF SwitchLanguage
  <2> QED
    BY <1>1, <2>1, ReadList, EditSwitches
<1>3. ASSUME NEW i \in DOMAIN pairs, StartDrag(i) PROVE SwitchInv'
  <2>1. EditsOnly /\ pairs' = Collected
    BY <1>3 DEF StartDrag
  <2> QED
    BY <1>1, <2>1, ReadList, EditSwitches
<1>4. ASSUME NEW i \in DOMAIN pairs, ToggleSwitch(i) PROVE SwitchInv'
  <2> DEFINE on == ~ form[i].switch
             then == [pair |-> pairs[i].id, on |-> on]
             displayed == [FormSignature EXCEPT ![i].switch = on]
  <2>1. /\ Calls(PutCall(displayed, then)) /\ pairs' = Collected /\ server' = server
        /\ doubted' = doubted \cup {c.pair : c \in Switches}
    BY <1>4 DEF ToggleSwitch
  <2> HIDE DEF displayed, then
  <2> QED
    BY <2>1, SaveSwitches
<1>5. ASSUME NEW i \in DOMAIN pairs, NEW j \in DOMAIN pairs[i].targets, EditsTarget(i, j) PROVE SwitchInv'
  BY <1>1, <1>5, TargetEditSwitches, EditSwitches, ImportSwitches
<1>6. ASSUME NEW i \in DOMAIN pairs, NEW k \in DOMAIN pairs[i].groups, EditsGroup(i, k) PROVE SwitchInv'
  BY <1>1, <1>6, GroupEditSwitches, EditSwitches
<1> QED
  BY <1>2, <1>3, <1>4, <1>5, <1>6, RemovePairStays DEF Edits

-----------------------------------------------------------------------------
(* Saves and switches at the server.                                       *)

\* A call and what it becomes at the server: the same save or switch, in another state
SameCall(d, c) ==
  /\ d.kind = c.kind /\ d.n = c.n
  /\ c.kind = "put" => d.body = c.body
  /\ c.kind = "switch" => d.pair = c.pair /\ d.on = c.on /\ d.heard = c.heard

LEMMA QueuedSame ==
  ASSUME NEW c, NEW ps, NEW D, CallSound(c, ps, D), c.kind # "import"
  PROVE  LET d == [c EXCEPT !.at = "queued"] IN SameCall(d, c) /\ d.at = "queued"
<1>1. CASE c.kind = "put" /\ PutSound(c, D)
  BY <1>1 DEF PutSound, PutFields, SameCall
<1>2. CASE c.kind = "switch" /\ SwitchSound(c)
  BY <1>2 DEF SwitchSound, SwitchFields, SameCall
<1> QED
  BY <1>1, <1>2 DEF CallSound

LEMMA AnsweredSame ==
  ASSUME NEW c, NEW ps, NEW D, CallSound(c, ps, D), NEW a
  PROVE  LET d == [c EXCEPT !.at = "done", !.answer = a] IN SameCall(d, c) /\ d.at = "done" /\ d.answer = a
<1>1. CASE c.kind = "put" /\ PutSound(c, D)
  BY <1>1 DEF PutSound, PutFields, SameCall
<1>2. CASE c.kind = "switch" /\ SwitchSound(c)
  BY <1>2 DEF SwitchSound, SwitchFields, SameCall
<1>3. CASE c.kind = "import" /\ ImportSound(c, ps)
  BY <1>3 DEF ImportSound, ImportFields, SameCall
<1> QED
  BY <1>1, <1>2, <1>3 DEF CallSound

\* The server goes on with a save or a switch.
LEMMA ServedSwitches ==
  ASSUME FormInv, SwitchInv, NEW c \in calls, c.kind # "import", NEW d, SameCall(d, c),
         calls' = (calls \ {c}) \cup {d}, pairs' = pairs, doubted' = doubted,
         \A p \in ProxyIds : c.kind = "put" \/ c.pair # p =>
           /\ \E old \in Around : Follows(committed', old, p)
           /\ \A q \in DOMAIN writes' : \E old \in Around : Follows(writes'[q].list, old, p),
         \A q \in DOMAIN writes' :
           \/ \E r \in DOMAIN writes : writes'[q] = writes[r]
           \/ writes'[q].n = c.n /\ (c.kind = "switch" => Turned(writes'[q].list, c.pair, c.on)),
         c.kind = "switch" /\ d.at = "done" /\ d.answer # None => Turned(committed', c.pair, c.on)
  PROVE  SwitchInv'
<1>1. \A e \in calls' : e = d \/ (e \in calls /\ e # c)
  OBVIOUS
<1>2. ASSUME NEW s \in Switches', s # d PROVE s \in Switches /\ s # c /\ s.pair \in doubted
  BY <1>1, <1>2, NoOtherAlone DEF Switches
<1>3. ASSUME d \in Switches' PROVE c \in Switches
  BY <1>3 DEF Switches, SameCall
<1>4. ASSUME NEW s \in Switches' PROVE s.pair \in doubted' \/ Alone(s)'
  <2>1. CASE s # d
    BY <1>2, <2>1
  <2>2. CASE s = d
    <3>1. c \in Switches /\ c.kind = "switch"
      BY <1>3, <2>2 DEF Switches
    <3>2. c.pair \in doubted \/ Alone(c)
      BY <3>1 DEF SwitchInv
    <3>3. ASSUME Alone(c) PROVE Alone(d)'
      <4>1. d.heard /\ d.pair = c.pair /\ d.on = c.on
        BY <3>1, <3>3 DEF Alone, SameCall
      <4>2. \A e \in calls' : e.kind = "import" \/ e = d
        BY <1>1, <3>3 DEF Alone
      <4>3. d.at = "done" /\ d.answer # None => Turned(committed', d.pair, d.on)
        BY <3>1, <4>1
      <4> QED
        BY <4>1, <4>2, <4>3 DEF Alone, Turned
    <3> QED
      BY <2>2, <3>1, <3>2, <3>3 DEF SameCall
  <2> QED
    BY <2>1, <2>2
<1>5. ASSUME NEW s \in Switches', NEW q \in DOMAIN writes', writes'[q].n = s.n
      PROVE  Turned(writes'[q].list, s.pair, s.on)
  <2>1. CASE s = d
    <3>1. c \in Switches /\ s.n = c.n /\ s.pair = c.pair /\ s.on = c.on /\ c.kind = "switch"
      BY <1>3, <2>1 DEF SameCall, Switches
    <3> QED
      BY <1>5, <3>1 DEF SwitchInv
  <2>2. CASE s # d
    <3>1. s \in Switches /\ s # c /\ s \in calls
      BY <1>2, <2>2 DEF Switches
    <3>2. s.n # c.n
      BY <3>1 DEF FormInv, CallsInv
    <3> QED
      BY <1>5, <3>1, <3>2 DEF SwitchInv
  <2> QED
    BY <2>1, <2>2
<1>6. ASSUME NEW s \in Switches PROVE \E r \in Switches' : r.pair = s.pair
  <2>1. CASE s = c
    <3>1. d \in Switches' /\ d.pair = s.pair
      BY <2>1 DEF Switches, SameCall
    <3> QED
      BY <3>1
  <2>2. CASE s # c
    BY <2>2 DEF Switches
  <2> QED
    BY <2>1, <2>2
<1>7. ASSUME NEW p \in ProxyIds
      PROVE  \/ \E r \in Switches' : r.pair = p
             \/ \A new \in Around' : \E old \in Around : Follows(new, old, p)
  <2>1. CASE c.kind = "switch" /\ c.pair = p
    <3>1. c \in Switches
      BY <2>1 DEF Switches
    <3> QED
      BY <1>6, <2>1, <3>1
  <2>2. CASE c.kind = "put" \/ c.pair # p
    <3>1. ASSUME NEW new \in Around' PROVE \E old \in Around : Follows(new, old, p)
      <4>1. CASE new = pairs'
        BY <4>1, InAround, SameFollows
      <4>2. CASE new = committed' \/ \E q \in DOMAIN writes' : new = writes'[q].list
        BY <2>2, <4>2
      <4>3. ASSUME NEW e \in calls', e.kind = "put", new = e.body PROVE \E old \in Around : Follows(new, old, p)
        <5>1. new \in Around
          BY <1>1, <4>3, InAround DEF SameCall
        <5> QED
          BY <5>1, SameFollows
      <4> QED
        BY <4>1, <4>2, <4>3 DEF Around, Lists
    <3> QED
      BY <3>1
  <2>3. c.kind = "put" \/ c.kind = "switch"
    BY DEF FormInv, CallsInv, CallSound
  <2> QED
    BY <2>1, <2>2, <2>3
<1> QED
  BY <1>4, <1>5, <1>6, <1>7, SwitchesGoOn

\* What is left alone there
LEMMA WritesFollow ==
  ASSUME NEW p
  PROVE  /\ \E old \in Around : Follows(committed, old, p)
         /\ \A q \in DOMAIN writes : \E old \in Around : Follows(writes[q].list, old, p)
  BY InAround, SameFollows

\* A write is put at the end of those that wait.
LEMMA WaitsSwitches ==
  ASSUME FormInv, SwitchInv, NEW c \in calls, c.kind # "import", NEW ps, Waits(c, ps),
         committed' = committed, pairs' = pairs, doubted' = doubted,
         \A p \in ProxyIds : c.kind = "put" \/ c.pair # p => \E old \in Around : Follows(ps, old, p),
         c.kind = "switch" => Turned(ps, c.pair, c.on)
  PROVE  SwitchInv'
<1> DEFINE d == [c EXCEPT !.at = "queued"]
           w == [n |-> c.n, list |-> ps]
<1>1. calls' = (calls \ {c}) \cup {d} /\ writes' = Append(writes, w)
  BY DEF Waits
<1>2. SameCall(d, c) /\ d.at = "queued"
  BY QueuedSame DEF FormInv, CallsInv
<1>3. w.n = c.n /\ w.list = ps
  OBVIOUS
<1> HIDE DEF d, w
<1>4. ASSUME NEW q \in DOMAIN writes' PROVE writes'[q] = w \/ \E r \in DOMAIN writes : writes'[q] = writes[r]
  <2> DEFINE n == Len(writes)
             V == [n : Nat, list : Seq(ProxyPair)]
  <2>1. writes \in Seq(V)
    BY DEF FormInv, ServerInv
  <2> HIDE DEF V
  <2>2. DOMAIN writes = 1 .. n /\ n \in Nat /\ DOMAIN writes' = 1 .. n + 1
    BY <1>1, <2>1
  <2>3. writes'[n + 1] = w /\ \A r \in 1 .. n : writes'[r] = writes[r]
    BY <1>1, <2>1
  <2> HIDE DEF n
  <2>4. q \in 1 .. n \/ q = n + 1
    BY <2>2, <1>4
  <2> QED
    BY <2>2, <2>3, <2>4
<1>5. ASSUME NEW p \in ProxyIds, c.kind = "put" \/ c.pair # p
      PROVE  /\ \E old \in Around : Follows(committed', old, p)
             /\ \A q \in DOMAIN writes' : \E old \in Around : Follows(writes'[q].list, old, p)
  BY <1>3, <1>4, <1>5, WritesFollow
<1>6. \A q \in DOMAIN writes' :
        \/ \E r \in DOMAIN writes : writes'[q] = writes[r]
        \/ writes'[q].n = c.n /\ (c.kind = "switch" => Turned(writes'[q].list, c.pair, c.on))
  BY <1>3, <1>4
<1> QED
  BY <1>1, <1>2, <1>5, <1>6, ServedSwitches

\* It is answered at once.
LEMMA BecomesSwitches ==
  ASSUME FormInv, SwitchInv, NEW c \in calls, c.kind # "import", NEW a, Becomes(c, a),
         committed' = committed, writes' = writes, pairs' = pairs, doubted' = doubted,
         c.kind = "switch" /\ a # None => Turned(committed, c.pair, c.on)
  PROVE  SwitchInv'
<1> DEFINE d == [c EXCEPT !.at = "done", !.answer = a]
<1>1. calls' = (calls \ {c}) \cup {d}
  BY DEF Becomes
<1>2. SameCall(d, c) /\ d.at = "done" /\ d.answer = a
  BY AnsweredSame DEF FormInv, CallsInv
<1> HIDE DEF d
<1> QED
  BY <1>1, <1>2, WritesFollow, ServedSwitches

LEMMA PutServedSwitches ==
  ASSUME FormInv, SwitchInv, NEW c \in calls, PutServed(c)
  PROVE  SwitchInv'
<1>1. /\ c.kind = "put" /\ committed' = committed /\ pairs' = pairs /\ doubted' = doubted
      /\ Waits(c, Stored(c.body)) \/ (Becomes(c, None) /\ writes' = writes)
  BY DEF PutServed, Refused, history
<1>2. \A p \in ProxyIds : \E old \in Around : Follows(Stored(c.body), old, p)
  <2>1. c.body \in Around
    BY <1>1, InAround
  <2>2. SwitchesOf(Stored(c.body), c.body)
    BY <2>1, AroundSound, StoredSwitches
  <2> QED
    BY <2>1, <2>2, SwitchesFollow
<1>3. CASE Waits(c, Stored(c.body))
  BY <1>1, <1>2, <1>3, WaitsSwitches
<1>4. CASE Becomes(c, None) /\ writes' = writes
  BY <1>1, <1>4, BecomesSwitches
<1> QED
  BY <1>1, <1>3, <1>4

LEMMA SwitchServedSwitches ==
  ASSUME FormInv, SwitchInv, NEW c \in calls, SwitchServed(c)
  PROVE  SwitchInv'
<1>1. c.kind = "switch" /\ committed' = committed /\ pairs' = pairs /\ doubted' = doubted
  BY DEF SwitchServed, history
<1>2. c.on \in BOOLEAN /\ Sound(committed, drawn)
  BY <1>1 DEF FormInv, CallsInv, CallSound, SwitchSound, ServerInv
<1>3. CASE Becomes(c, None) /\ writes' = writes
  BY <1>1, <1>3, BecomesSwitches
<1>4. CASE /\ c.pair \in IdsOf(committed) /\ committed[IndexOf(committed, c.pair)].enabled = c.on
           /\ Becomes(c, c.on) /\ writes' = writes
  <2>1. Turned(committed, c.pair, c.on)
    BY <1>2, <1>4, IndexIs DEF Turned
  <2> QED
    BY <1>1, <1>4, <2>1, BecomesSwitches
<1>5. CASE Waits(c, Switched(committed, c.pair, c.on))
  <2> DEFINE ps == Switched(committed, c.pair, c.on)
  <2>1. Turned(ps, c.pair, c.on) /\ \A p : p # c.pair => Follows(ps, committed, p)
    BY <1>2, SwitchedFollows
  <2> HIDE DEF ps
  <2>2. Waits(c, ps)
    BY <1>5 DEF ps
  <2> QED
    BY <1>1, <2>1, <2>2, InAround, WaitsSwitches
<1> QED
  BY <1>3, <1>4, <1>5 DEF SwitchServed, Refused

\* The write whose turn it is, and the call it was made for
LEMMA HeadIs ==
  ASSUME FormInv, writes # <<>>
  PROVE  /\ Head(writes) = writes[1] /\ 1 \in DOMAIN writes
         /\ \A q \in DOMAIN Tail(writes) : q + 1 \in DOMAIN writes /\ Tail(writes)[q] = writes[q + 1]
         /\ \E c \in calls : /\ c = CHOOSE d \in calls : d.n = Head(writes).n
                             /\ c.n = Head(writes).n /\ c.at = "queued" /\ c.kind # "import"
<1> DEFINE V == [n : Nat, list : Seq(ProxyPair)]
<1>1. writes \in Seq(V)
  BY DEF FormInv, ServerInv
<1> HIDE DEF V
<1>2. /\ Head(writes) = writes[1] /\ 1 \in DOMAIN writes
      /\ \A q \in DOMAIN Tail(writes) : q + 1 \in DOMAIN writes /\ Tail(writes)[q] = writes[q + 1]
  BY <1>1
<1>3. PICK b \in calls : b.n = Head(writes).n /\ b.at = "queued"
  BY <1>2 DEF FormInv, ServerInv
<1>4. b = CHOOSE d \in calls : d.n = Head(writes).n
  BY <1>3 DEF FormInv, CallsInv
<1>5. b.kind # "import"
  BY <1>3 DEF FormInv, CallsInv, CallSound, ImportSound
<1> QED
  BY <1>2, <1>3, <1>4, <1>5

LEMMA AppliedSwitches ==
  ASSUME FormInv, SwitchInv, Applied
  PROVE  SwitchInv'
<1> DEFINE w == Head(writes)
           b == CHOOSE d \in calls : d.n = w.n
           answer == IF b.kind = "put" THEN w.list ELSE b.on
<1>1. /\ writes # <<>> /\ writes' = Tail(writes) /\ pairs' = pairs /\ doubted' = doubted
      /\ \/ committed' = w.list /\ Becomes(b, answer)
         \/ committed' = committed /\ Becomes(b, None)
  BY DEF Applied, Refused, history
<1> HIDE DEF answer
<1>2. PICK c \in calls : c = b /\ c.n = w.n /\ c.kind # "import"
  BY <1>1, HeadIs
<1>3. /\ w = writes[1] /\ 1 \in DOMAIN writes
      /\ \A q \in DOMAIN writes' : q + 1 \in DOMAIN writes /\ writes'[q] = writes[q + 1]
  BY <1>1, HeadIs
<1> HIDE DEF w, b
<1>4. PICK a : Becomes(c, a) /\ (committed' = w.list \/ (committed' = committed /\ a = None))
  BY <1>1, <1>2
<1> DEFINE d == [c EXCEPT !.at = "done", !.answer = a]
<1>5. calls' = (calls \ {c}) \cup {d}
  BY <1>4 DEF Becomes
<1>6. SameCall(d, c) /\ d.answer = a
  BY AnsweredSame DEF FormInv, CallsInv
<1> HIDE DEF d
<1>7. ASSUME NEW p \in ProxyIds
      PROVE  /\ \E old \in Around : Follows(committed', old, p)
             /\ \A q \in DOMAIN writes' : \E old \in Around : Follows(writes'[q].list, old, p)
  BY <1>3, <1>4, WritesFollow
<1>8. c.kind = "switch" /\ d.at = "done" /\ d.answer # None => Turned(committed', c.pair, c.on)
  <2> SUFFICES ASSUME c.kind = "switch", d.answer # None
               PROVE  Turned(committed', c.pair, c.on)
    OBVIOUS
  <2>1. c \in Switches /\ committed' = writes[1].list /\ writes[1].n = c.n
    BY <1>2, <1>3, <1>4, <1>6 DEF Switches
  <2> QED
    BY <1>3, <2>1 DEF SwitchInv
<1>9. \A q \in DOMAIN writes' : \E r \in DOMAIN writes : writes'[q] = writes[r]
  BY <1>3
<1> QED
  BY <1>1, <1>2, <1>5, <1>6, <1>7, <1>8, <1>9, ServedSwitches

-----------------------------------------------------------------------------
(* Restarts, and answers to switches.                                      *)

LEMMA ImportServedSwitches ==
  ASSUME FormInv, SwitchInv, NEW c \in calls, ImportServed(c)
  PROVE  SwitchInv'
<1>1. PICK a : Becomes(c, a)
  BY DEF ImportServed
<1>2. c.kind = "import" /\ server' = server /\ pairs' = pairs /\ doubted' = doubted
  BY DEF ImportServed, history
<1> DEFINE d == [c EXCEPT !.at = "done", !.answer = a]
<1>3. calls' = (calls \ {c}) \cup {d}
  BY <1>1 DEF Becomes
<1>4. d.kind = "import"
  BY <1>2, AnsweredSame DEF FormInv, CallsInv, SameCall
<1> HIDE DEF d
<1>5. \A s \in Switches : s \in calls'
  BY <1>2, <1>3 DEF Switches
<1>6. SwitchesOf(pairs', pairs)
  BY <1>2 DEF SwitchesOf
<1> QED
  BY <1>2, <1>3, <1>4, <1>5, <1>6, InAround, QuietStep

\* A restart answers nothing any more, and reads what was committed.
LEMMA RestartSwitches ==
  ASSUME FormInv, SwitchInv, Restart
  PROVE  SwitchInv'
<1> DEFINE G(c) == [c EXCEPT !.at = "done", !.answer = None]
<1>1. /\ writes = <<>> /\ writes' = writes /\ committed' = Stored(committed) /\ pairs' = pairs
      /\ calls' = {IF c.at = "done" THEN c ELSE G(c) : c \in calls}
      /\ doubted' = doubted \cup {c.pair : c \in {d \in calls : d.kind = "switch" /\ d.at # "done"}}
  BY DEF Restart, Refused
<1>2. \A c \in calls : SameCall(G(c), c)
  BY AnsweredSame DEF FormInv, CallsInv
<1> HIDE DEF G
<1>3. \A d \in calls' : \/ d \in calls /\ d.at = "done"
                        \/ \E c \in calls : c.at # "done" /\ d = G(c)
  BY <1>1
<1>4. SwitchesOf(committed', committed)
  BY <1>1, StoredSwitches DEF FormInv, ServerInv
<1>5. ASSUME NEW s \in Switches' PROVE s.pair \in doubted' \/ Alone(s)'
  <2>1. ASSUME NEW c \in calls, c.at # "done", s = G(c) PROVE s.pair \in doubted'
    BY <1>1, <1>2, <2>1 DEF SameCall, Switches
  <2>2. ASSUME s \in calls, s.at = "done", s.pair \notin doubted PROVE Alone(s)'
    <3>1. Alone(s)
      BY <2>2 DEF SwitchInv, Switches
    <3>2. ASSUME NEW d \in calls' PROVE d.kind = "import" \/ d = s
      BY <1>2, <1>3, <2>2, <3>1 DEF Alone, SameCall
    <3>3. s.at = "done" /\ s.answer # None => Turned(committed', s.pair, s.on)
      BY <1>4, <3>1, SwitchesFollow, TurnedFollows DEF Alone
    <3> QED
      BY <3>1, <3>2, <3>3 DEF Alone, Turned
  <2> QED
    BY <1>1, <1>3, <2>1, <2>2 DEF Switches
<1>6. ASSUME NEW s \in Switches PROVE s.pair \in doubted' \/ \E r \in Switches' : r.pair = s.pair
  <2>1. s \in calls /\ s.kind = "switch"
    BY DEF Switches
  <2> QED
    BY <1>1, <2>1 DEF Switches
<1>7. ASSUME NEW p \in ProxyIds, NEW new \in Around' PROVE \E old \in Around : Follows(new, old, p)
  <2>1. CASE new = pairs'
    BY <1>1, <2>1, InAround, SameFollows
  <2>2. CASE new = committed'
    BY <1>4, <2>2, InAround, SwitchesFollow
  <2>3. ASSUME NEW d \in calls', d.kind = "put", new = d.body PROVE new \in Around
    <3>1. CASE d \in calls
      BY <2>3, <3>1, InAround
    <3>2. ASSUME NEW c \in calls, d = G(c) PROVE new \in Around
      BY <1>2, <2>3, <3>2, InAround DEF SameCall
    <3> QED
      BY <1>3, <3>1, <3>2
  <2>4. DOMAIN writes' = {}
    BY <1>1
  <2>5. new = pairs' \/ new = committed' \/ \E d \in calls' : d.kind = "put" /\ new = d.body
    BY <2>4 DEF Around, Lists
  <2> QED
    BY <2>1, <2>2, <2>3, <2>5, SameFollows
<1>8. DOMAIN writes' = {} /\ doubted \subseteq doubted'
  BY <1>1
<1> QED
  BY <1>5, <1>6, <1>7, <1>8, SwitchesGoOn

\* A call that ends in nothing
LEMMA EndedSwitches ==
  ASSUME FormInv, SwitchInv, NEW c \in calls, calls' = calls \ {c}, UNCHANGED server, SwitchesOf(pairs', pairs),
         doubted \subseteq doubted', c.kind = "switch" => c.pair \in doubted'
  PROVE  SwitchInv'
<1>1. \A s \in Switches : s \in calls' \/ s.pair \in doubted'
  BY DEF Switches
<1> QED
  BY <1>1, InAround, QuietStep

LEMMA UnheardSwitches ==
  ASSUME FormInv, SwitchInv, NEW c \in calls, Unheard(c)
  PROVE  SwitchInv'
<1>1. ~ c.heard /\ calls' = calls \ {c} /\ server' = server /\ pairs' = pairs /\ doubted' = doubted
  BY DEF Unheard, history
<1>2. c.kind = "switch" => c.pair \in doubted
  BY <1>1 DEF SwitchInv, Switches, Alone
<1>3. SwitchesOf(pairs', pairs)
  BY <1>1 DEF SwitchesOf
<1> QED
  BY <1>1, <1>2, <1>3, EndedSwitches

LEMMA FailsSwitches ==
  ASSUME FormInv, SwitchInv, NEW c \in calls, Fails(c)
  PROVE  SwitchInv'
<1>1. /\ calls' = calls \ {c} /\ server' = server /\ pairs' = pairs
      /\ doubted' = IF c.kind = "switch" THEN doubted \cup {c.pair} ELSE doubted
  BY DEF Fails
<1>2. SwitchesOf(pairs', pairs)
  BY <1>1 DEF SwitchesOf
<1> QED
  BY <1>1, <1>2, EndedSwitches

LEMMA ImportArrivesSwitches ==
  ASSUME FormInv, SwitchInv, NEW c \in calls, ImportArrives(c)
  PROVE  SwitchInv'
<1>1. c.kind = "import" /\ calls' = calls \ {c} /\ server' = server /\ doubted' = doubted
  BY DEF ImportArrives, Heard, history
<1>2. PageInv
  BY DEF FormInv
<1>3. CASE pairs' = Collected
  BY <1>1, <1>2, <1>3, ReadList, EndedSwitches
<1>4. CASE ~ c.stray
  <2> DEFINE i == IndexOf(pairs, c.pair)
             k == c.index
             prices == Imported(Collected[i].targets[k].prices, c.answer)
             ts == [Collected[i].targets EXCEPT ![k] = [Collected[i].targets[k] EXCEPT !.prices = prices]]
  <2>1. i \in DOMAIN pairs
    <3>1. c.pair \in IdsOf(pairs)
      BY <1>1, <1>4 DEF FormInv, CallsInv, CallSound, ImportSound
    <3> QED
      BY <1>2, <3>1, IndexIs DEF PageInv
  <2>2. Paints([Collected EXCEPT ![i] = [Collected[i] EXCEPT !.targets = ts]]) \/ pairs' = Collected
    <3>1. [Collected EXCEPT ![i].targets[k].prices = Imported(@, c.answer)]
            = [Collected EXCEPT ![i] = [Collected[i] EXCEPT !.targets = ts]]
      OBVIOUS
    <3> QED
      BY <1>4, <3>1 DEF ImportArrives
  <2> HIDE DEF i, ts
  <2>3. SwitchesOf(pairs', pairs)
    BY <1>2, <2>1, <2>2, ReadList, TargetsGiven
  <2> QED
    BY <1>1, <2>3, EndedSwitches
<1>5. CASE c.stray
  <2>1. pairs' = Collected
    BY <1>5 DEF ImportArrives, Paints
  <2> QED
    BY <1>3, <2>1
<1> QED
  BY <1>4, <1>5

\* Once the answer of a switch that was alone is there, everything tells what it says.
LEMMA SwitchArrivesSwitches ==
  ASSUME FormInv, SwitchInv, NEW c \in calls, SwitchArrives(c)
  PROVE  SwitchInv'
<1>1. /\ c.kind = "switch" /\ c.at = "done" /\ c.answer # None /\ calls' = calls \ {c}
      /\ committed' = committed /\ writes' = writes /\ doubted' = doubted
      /\ pairs' = IF c.pair \in IdsOf(pairs) THEN Switched(pairs, c.pair, c.answer) ELSE pairs
  BY DEF SwitchArrives, Heard, Refused, history, server
<1>2. c.on \in BOOLEAN /\ c.answer = c.on /\ Sound(pairs, drawn) /\ c \in Switches
  BY <1>1 DEF FormInv, PageInv, CallsInv, CallSound, SwitchSound, Switches
<1>3. Turned(pairs', c.pair, c.on) /\ \A p : p # c.pair => Follows(pairs', pairs, p)
  <2>1. CASE c.pair \in IdsOf(pairs)
    BY <1>1, <1>2, <2>1, SwitchedFollows
  <2>2. CASE c.pair \notin IdsOf(pairs)
    <3>1. pairs' = pairs
      BY <1>1, <2>2
    <3> QED
      BY <2>2, <3>1, SameFollows DEF Turned, IdsOf
  <2> QED
    BY <2>1, <2>2
<1>4. ASSUME NEW s \in Switches' PROVE s \in Switches /\ s.pair \in doubted
  BY <1>1, <1>4, NoOtherAlone DEF Switches
<1>5. ASSUME c.pair \notin doubted PROVE Agreed(c.pair)'
  <2>1. Alone(c)
    BY <1>2, <1>5 DEF SwitchInv
  <2>2. \A d \in calls' : d.kind = "import"
    BY <1>1, <2>1 DEF Alone
  <2>3. DOMAIN writes = {}
    <3>1. ASSUME NEW q \in DOMAIN writes PROVE FALSE
      <4>1. PICK d \in calls : d.n = writes[q].n /\ d.at = "queued"
        BY DEF FormInv, ServerInv
      <4>2. d.kind = "import"
        BY <1>1, <2>1, <4>1 DEF Alone
      <4> QED
        BY <4>1, <4>2 DEF FormInv, CallsInv, CallSound, ImportSound
    <3> QED
      BY <3>1
  <2>4. Around' = {pairs', committed'}
    BY <1>1, <2>2, <2>3 DEF Around, Lists
  <2>5. Turned(committed', c.pair, c.on)
    BY <1>1, <2>1 DEF Alone
  <2>6. \A new \in Around' : Turned(new, c.pair, c.on)
    BY <1>3, <2>4, <2>5
  <2>7. \E on \in BOOLEAN : \A new \in Around' : Turned(new, c.pair, on)
    BY <1>2, <2>6
  <2> QED
    BY <2>7 DEF Agreed, Turned
<1>6. ASSUME NEW s \in Switches
      PROVE  s.pair \in doubted' \/ (\E r \in Switches' : r.pair = s.pair) \/ Agreed(s.pair)'
  <2>1. CASE s = c
    BY <1>1, <1>5, <2>1
  <2>2. CASE s # c
    BY <1>1, <2>2, NoOtherAlone DEF Switches
  <2> QED
    BY <2>1, <2>2
<1>7. ASSUME NEW p \in ProxyIds
      PROVE  \/ p \in doubted' \/ Agreed(p)'
             \/ \A new \in Around' : \E old \in Around : Follows(new, old, p)
  <2>1. CASE p = c.pair
    BY <1>1, <1>5, <2>1
  <2>2. CASE p # c.pair
    <3>1. \A new \in Around' : new = pairs' \/ new \in Around
      BY <1>1 DEF Around, Lists
    <3> QED
      BY <1>3, <2>2, <3>1, InAround, SameFollows
  <2> QED
    BY <2>1, <2>2
<1>8. \A s \in Switches' : \A q \in DOMAIN writes' :
        writes'[q].n = s.n => Turned(writes'[q].list, s.pair, s.on)
  BY <1>1, <1>4 DEF SwitchInv
<1> QED
  BY <1>1, <1>4, <1>6, <1>7, <1>8, SwitchesGoOn

-----------------------------------------------------------------------------
(* Answers to saves; the theorem on switches.                              *)

LEMMA PutArrivesSwitches ==
  ASSUME FormInv, SwitchInv, NEW c \in calls, PutArrives(c)
  PROVE  SwitchInv'
<1> DEFINE F(d) == IF Adopts(c) THEN Strayed(d, ProxyIds) ELSE d
           S == calls \ {c}
           new == [kind |-> "switch", pair |-> c.then.pair, on |-> c.then.on,
                   n |-> made, heard |-> TRUE, at |-> "sent", answer |-> None]
           news == {d \in {new} : c.then # None}
<1>1. /\ c.kind = "put" /\ c.answer # None /\ committed' = committed /\ writes' = writes
      /\ calls' = {F(d) : d \in S} \cup news
      /\ doubted \subseteq doubted'
      /\ c.then # None /\ (\E d \in S : d.kind # "import") => c.then.pair \in doubted'
      /\ pairs' = IF Adopts(c) THEN c.answer ELSE Collected
  BY DEF PutArrives, Heard, Refused, server, Paints
<1>2. /\ new.kind = "switch" /\ new.pair = c.then.pair /\ new.n = made /\ new.heard /\ new.at # "done"
  OBVIOUS
<1>3. ASSUME NEW d \in S PROVE F(d) = d \/ (d.kind = "import" /\ F(d).kind = "import")
  BY StrayedKind DEF FormInv, CallsInv
<1> HIDE DEF F, new
<1>4. ASSUME NEW d \in calls' PROVE d.kind = "import" \/ d \in S \/ (c.then # None /\ d = new)
  BY <1>1, <1>3
<1>5. ASSUME NEW d \in S, d.kind # "import" PROVE d \in calls'
  BY <1>1, <1>3, <1>5
<1>6. ASSUME NEW s \in Switches', s \in S PROVE s.pair \in doubted /\ s \in Switches
  BY <1>1, <1>6, NoOtherAlone DEF Switches
<1>7. ASSUME NEW s \in Switches' PROVE s.pair \in doubted' \/ Alone(s)'
  <2>1. CASE s \in S
    BY <1>1, <1>6, <2>1
  <2>2. CASE c.then # None /\ s = new
    <3>1. CASE \E d \in S : d.kind # "import"
      BY <1>1, <1>2, <2>2, <3>1
    <3>2. CASE \A d \in S : d.kind = "import"
      BY <1>2, <1>4, <2>2, <3>2 DEF Alone
    <3> QED
      BY <3>1, <3>2
  <2> QED
    BY <1>4, <2>1, <2>2 DEF Switches
<1>8. ASSUME NEW s \in Switches', NEW q \in DOMAIN writes', writes'[q].n = s.n
      PROVE  Turned(writes'[q].list, s.pair, s.on)
  <2>1. s # new
    <3>1. PICK d \in calls : d.n = writes[q].n
      BY <1>1 DEF FormInv, ServerInv
    <3>2. d.n \in Nat /\ d.n < made /\ made \in Nat
      BY <3>1 DEF FormInv, CallsInv
    <3> QED
      BY <1>1, <1>2, <1>8, <3>1, <3>2
  <2>2. s \in S
    BY <1>4, <2>1 DEF Switches
  <2> QED
    BY <1>1, <1>6, <1>8, <2>2 DEF SwitchInv
<1>9. ASSUME NEW s \in Switches PROVE \E r \in Switches' : r.pair = s.pair
  <2>1. s \in S /\ s.kind = "switch"
    BY <1>1 DEF Switches
  <2> QED
    BY <1>5, <2>1 DEF Switches
<1>10. \E old \in Around : SwitchesOf(pairs', old)
  <2>1. CASE Adopts(c)
    <3>1. c.answer = Stored(c.body) /\ Sound(c.body, drawn)
      BY <1>1 DEF FormInv, CallsInv, CallSound, PutSound
    <3> QED
      BY <1>1, <2>1, <3>1, StoredSwitches, InAround
  <2>2. CASE ~ Adopts(c)
    BY <1>1, <2>2, ReadList, InAround DEF FormInv
  <2> QED
    BY <2>1, <2>2
<1>11. \A ps \in Around' : ps = pairs' \/ ps \in Around
  <2>1. ASSUME NEW d \in calls', d.kind = "put" PROVE d.body \in Around
    BY <1>2, <1>4, <2>1, InAround
  <2> QED
    BY <1>1, <2>1, InAround DEF Around, Lists
<1>12. \A p \in ProxyIds : \A ps \in Around' : \E old \in Around : Follows(ps, old, p)
  BY <1>10, <1>11, SwitchesFollow, SameFollows
<1> HIDE DEF S, news
<1> QED
  BY <1>1, <1>7, <1>8, <1>9, <1>12, SwitchesGoOn

LEMMA SwitchInvStep ==
  ASSUME FormInv, SwitchInv, [FormNext]_formVars
  PROVE  SwitchInv'
<1>1. CASE Adds
  BY <1>1, AddsStay
<1>2. CASE Goes
  <2>1. CASE Drags
    BY <2>1, DragsSwitches, EditSwitches DEF FormInv
  <2>2. CASE SavePairs
    <3>1. /\ Calls(PutCall(FormSignature, None)) /\ pairs' = Collected /\ server' = server
          /\ doubted' = doubted \cup {c.pair : c \in Switches}
      BY <2>2 DEF SavePairs
    <3> QED
      BY <3>1, SaveSwitches
  <2>3. ASSUME NEW c \in calls, Answers(c) PROVE SwitchInv'
    BY <2>3, PutServedSwitches, SwitchServedSwitches, ImportServedSwitches, PutArrivesSwitches,
       SwitchArrivesSwitches, ImportArrivesSwitches, FailsSwitches, UnheardSwitches, LostSwitches DEF Answers
  <2> QED
    BY <1>2, <2>1, <2>2, <2>3, EditsStay, LeaveSwitches, AppliedSwitches, RestartSwitches DEF Goes
<1>3. CASE UNCHANGED formVars
  <2>1. committed' = committed /\ writes' = writes /\ pairs' = pairs /\ calls' = calls /\ doubted' = doubted
    BY <1>3 DEF formVars, server, history
  <2>2. EditsOnly \/ (server' = server /\ SwitchesOf(pairs', pairs) /\ \A s \in Switches : s \in calls')
    BY <2>1 DEF server, SwitchesOf, Switches
  <2> QED
    BY <2>1, <2>2, InAround, QuietStep DEF server, SwitchesOf, Switches
<1> QED
  BY <1>1, <1>2, <1>3 DEF FormNext

\* The configuration changes when a write is applied, and when it is read again.
LEMMA CommittedStays ==
  ASSUME FormNext, ~ Applied, ~ Restart
  PROVE  committed' = committed
<1>1. CASE Adds
  BY <1>1 DEF Adds, AddPair, AddTarget, AddGroup, EditsOnly, server
<1>2. CASE Edits
  <2>1. ASSUME NEW i \in DOMAIN pairs, NEW j \in DOMAIN pairs[i].targets, EditsTarget(i, j)
        PROVE  committed' = committed
    BY <2>1 DEF EditsTarget, TypeUrl, ToggleTarget, ChooseDefault, RemoveTarget, MoveByKey, Import, AddRule,
                TypePattern, RemoveRule, SwapRules, Reshapes, EditsOnly, server
  <2>2. ASSUME NEW i \in DOMAIN pairs, NEW k \in DOMAIN pairs[i].groups, EditsGroup(i, k)
        PROVE  committed' = committed
    BY <2>2 DEF EditsGroup, Tick, TypeModel, RemoveGroup, Reshapes, EditsOnly, server
  <2> QED
    BY <1>2, <2>1, <2>2 DEF Edits, SwitchLanguage, RemovePair, StartDrag, ToggleSwitch, EditsOnly, server
<1>3. CASE Drags
  BY <1>3 DEF Drags, DragOver, Drop, CancelDrag, EditsOnly, server
<1>4. CASE SavePairs \/ LeaveAndReturn
  BY <1>4 DEF SavePairs, LeaveAndReturn, server
<1>5. ASSUME NEW c \in calls, Answers(c) PROVE committed' = committed
  BY <1>5 DEF Answers, PutServed, SwitchServed, ImportServed, PutArrives, SwitchArrives, ImportArrives,
              Fails, Unheard, Lost, server
<1> QED
  BY <1>1, <1>2, <1>3, <1>4, <1>5 DEF FormNext, Goes

\* Two lists that tell the same of a pair
LEMMA SameTold ==
  ASSUME NEW D, NEW ps, Sound(ps, D), NEW E, NEW new, Sound(new, E), NEW p \in IdsOf(ps) \cap IdsOf(new)
  PROVE  /\ \A on : Turned(ps, p, on) /\ Turned(new, p, on) => EnabledIn(ps, p) = EnabledIn(new, p)
         /\ Follows(new, ps, p) => EnabledIn(ps, p) = EnabledIn(new, p)
<1>1. /\ IndexOf(ps, p) \in DOMAIN ps /\ ps[IndexOf(ps, p)].id = p
      /\ \A l \in DOMAIN ps : ps[l].id = p => l = IndexOf(ps, p)
  BY IndexIs
<1>2. IndexOf(new, p) \in DOMAIN new /\ new[IndexOf(new, p)].id = p
  BY IndexIs
<1> QED
  BY <1>1, <1>2 DEF Turned, Follows, EnabledIn

\* A pair is switched by its switch: a save turns none on or off, unless its switch and another write
\* were under way together or its switch got no answer (togglePairEnabled, setPairEnabled, savePairs).
THEOREM OnlyItsSwitchTurnsAPair == FormSpec => OnlyTheSwitchSwitches
<1> DEFINE Step == \A p \in IdsOf(committed) \cap IdsOf(committed') :
             EnabledIn(committed, p) # EnabledIn(committed', p) =>
               p \in doubted \/ \E c \in Switches : c.pair = p /\ c.n = Head(writes).n
<1>1. FormInit => SwitchInv
  BY FormStartsAgreed
<1>2. FormInv /\ SwitchInv /\ [FormNext]_formVars => SwitchInv'
  BY SwitchInvStep
<1>3. FormInv /\ FormInv' /\ SwitchInv /\ [FormNext]_formVars => [Step]_formVars
  <2> SUFFICES ASSUME FormInv, FormInv', SwitchInv, FormNext,
                      NEW p \in IdsOf(committed) \cap IdsOf(committed'),
                      EnabledIn(committed, p) # EnabledIn(committed', p), p \notin doubted
               PROVE  \E c \in Switches : c.pair = p /\ c.n = Head(writes).n
    OBVIOUS
  <2>1. Sound(committed, drawn) /\ Sound(committed', drawn')
    BY DEF FormInv, ServerInv
  <2>2. p \in ProxyIds
    BY <2>1, ListIs, PairIs DEF IdsOf
  <2>3. CASE Restart
    <3>1. committed' = Stored(committed)
      BY <2>3 DEF Restart
    <3>2. Follows(committed', committed, p)
      BY <2>1, <3>1, StoredSwitches, SwitchesFollow
    <3> QED
      BY <2>1, <3>2, SameTold
  <2>4. CASE Applied
    <3>1. writes # <<>> /\ (committed' = Head(writes).list \/ committed' = committed)
      BY <2>4 DEF Applied
    <3>2. Head(writes) = writes[1] /\ 1 \in DOMAIN writes
      BY <3>1, HeadIs
    <3>3. committed' \in Around /\ committed \in Around
      BY <3>1, <3>2, InAround
    <3>4. ~ Agreed(p)
      BY <2>1, <3>3, SameTold DEF Agreed
    <3>5. PICK s \in Switches : s.pair = p
      BY <2>2, <3>4 DEF SwitchInv
    <3>6. Alone(s)
      BY <3>5 DEF SwitchInv
    <3>7. PICK c \in calls : c.n = Head(writes).n /\ c.kind # "import"
      BY <3>1, HeadIs
    <3>8. c = s
      BY <3>6, <3>7 DEF Alone
    <3> QED
      BY <3>5, <3>7, <3>8
  <2>5. committed' # committed
    OBVIOUS
  <2> QED
    BY <2>3, <2>4, <2>5, CommittedStays
<1> QED
  BY <1>1, <1>2, <1>3, FormKeepsItsInvariant, PTL DEF FormSpec, OnlyTheSwitchSwitches

-----------------------------------------------------------------------------
(* The record that is shown.                                               *)

CallTyped == {NoCall} \cup [id : Records, phase : Phases, got : Int]

\* What was read of a record, ahead or not, is one of its bodies, by its number.
PaneInv ==
  /\ version \in [Records -> Int] /\ cache \in [Records -> Int]
  /\ selected \in Records \cup {None}
  /\ selects \in Seq(CallTyped)
  /\ refresh \in CallTyped
  /\ PaneIsOfTheSelection

LEMMA CallIsTyped ==
  ASSUME NEW r \in Records, NEW phase \in Phases
  PROVE  Call(r, phase) \in CallTyped
<1>1. NoCall \in [id : Records \cup {None}, phase : Phases \cup {None}, got : Int]
  BY DEF NoCall
<1>2. ASSUME NEW c \in [id : Records \cup {None}, phase : Phases \cup {None}, got : Int]
      PROVE  [c EXCEPT !.id = r, !.phase = phase] \in [id : Records, phase : Phases, got : Int]
  OBVIOUS
<1>3. Call(r, phase) \in [id : Records, phase : Phases, got : Int]
  BY <1>1, <1>2 DEF Call
<1> QED
  BY <1>3 DEF CallTyped

LEMMA CallIs ==
  ASSUME NEW c \in CallTyped
  PROVE  /\ c = NoCall => c.id = None /\ c.phase = None
         /\ c # NoCall => c \in [id : Records, phase : Phases, got : Int]
  BY DEF CallTyped, NoCall

LEMMA PaneInit == Init => PaneInv
<1> SUFFICES ASSUME Init PROVE PaneInv
  OBVIOUS
<1>1. version \in [Records -> Int] /\ cache \in [Records -> Int]
  BY DEF Init, NotCached
<1>2. refresh \in CallTyped
  BY DEF Init, CallTyped
<1>3. selects \in Seq(CallTyped) /\ selected = None
  BY DEF Init
<1> QED
  BY <1>1, <1>2, <1>3 DEF PaneInv, PaneIsOfTheSelection

\* A pane that was given a body is of the record of that body.
LEMMA GivenIs ==
  ASSUME NEW r \in Records, NEW v \in Int, NEW reset, Given(r, v, reset)
  PROVE  shown' # None /\ shown'[1] = r
<1>1. shown' = <<r, v>>
  BY DEF Given, Rendered
<1>2. <<r, v>> \in Records \X Int
  OBVIOUS
<1> QED
  BY <1>1, <1>2, RecordAssumption

\* An answer either changes nothing, or what is shown is of the selection.
LEMMA TakenIs ==
  ASSUME PaneInv, NEW r \in Records \cup {None}, NEW v \in Int, NEW reset, Taken(r, v, reset)
  PROVE  /\ selected = r /\ r # None => shown' # None /\ shown'[1] = r
         /\ selected # r => shown' = shown
<1>1. selected = r /\ r # None => Given(r, v, reset)
  BY DEF Taken
<1>2. selected # r => UNCHANGED pane
  BY DEF Taken
<1> QED
  BY <1>1, <1>2, GivenIs DEF pane

\* Where the calls that failed are the same, and what is shown, so is the invariant.
LEMMA PaneStays ==
  ASSUME PaneInv, shown' = shown, selected' = selected, loading => loading', Failed => Failed'
  PROVE  PaneIsOfTheSelection'
  BY DEF PaneInv, PaneIsOfTheSelection

LEMMA SelectsChanged ==
  ASSUME PaneInv, NEW f \in [DOMAIN selects -> CallTyped], selects' = f
  PROVE  selects' \in Seq(CallTyped)
<1>1. Len(selects) \in Nat /\ DOMAIN selects = 1 .. Len(selects)
  BY DEF PaneInv
<1> QED
  BY <1>1, SequenceOf

\* What the user does with the tree, and what is done for it
LEMMA ShowsKeeps == PaneInv /\ (Shows \/ UNCHANGED vars) => PaneInv'
<1> SUFFICES ASSUME PaneInv, Shows \/ UNCHANGED vars PROVE PaneInv'
  OBVIOUS
<1>1. shown' = shown
  BY DEF Shows, Drain, ExpandLevel, ChangeMode, Rendered, Toggle, ToggleEvent, vars, pane
<1>2. UNCHANGED records
  BY DEF Shows, Drain, ExpandLevel, ChangeMode, Toggle, ToggleEvent, vars
<1> QED
  BY <1>1, <1>2 DEF records, PaneInv, PaneIsOfTheSelection, Failed

LEMMA SelectKeeps ==
  ASSUME PaneInv, NEW r \in Records, Select(r)
  PROVE  PaneInv'
<1> DEFINE phase == IF cache[r] = BeingRead THEN "waits" ELSE "asked"
<1>1. version' \in [Records -> Int] /\ cache' \in [Records -> Int] /\ refresh' \in CallTyped
  BY DEF Select, PaneInv
<1>2. cache[r] \in Int /\ selected' = r
  BY DEF Select, PaneInv
<1>3. CASE cache[r] > 0 /\ Given(r, cache[r], TRUE) /\ selects' = Append(selects, NoCall)
  <2>1. selects' \in Seq(CallTyped)
    BY <1>3 DEF PaneInv, CallTyped
  <2>2. shown' # None /\ shown'[1] = r
    BY <1>2, <1>3, GivenIs
  <2> QED
    BY <1>1, <1>2, <2>1, <2>2 DEF PaneInv, PaneIsOfTheSelection
<1>4. CASE loading' = TRUE /\ selects' = Append(selects, Call(r, phase))
  <2>1. Call(r, phase) \in CallTyped
    BY CallIsTyped DEF Phases
  <2>2. selects' \in Seq(CallTyped)
    BY <1>4, <2>1 DEF PaneInv
  <2> QED
    BY <1>1, <1>2, <1>4, <2>2 DEF PaneInv, PaneIsOfTheSelection
<1> QED
  BY <1>3, <1>4 DEF Select

LEMMA ReadAheadArrivesKeeps ==
  ASSUME PaneInv, NEW r \in Records, ReadAheadArrives(r)
  PROVE  PaneInv'
<1> DEFINE f == [i \in DOMAIN selects |-> IF i \in Waiting(r) THEN NoCall ELSE selects[i]]
<1>0. r # None /\ version[r] \in Int
  BY RecordAssumption DEF PaneInv
<1>1. version' \in [Records -> Int] /\ refresh' \in CallTyped /\ selected' = selected
  BY DEF ReadAheadArrives, PaneInv
<1>2. cache' \in [Records -> Int]
  BY DEF ReadAheadArrives, PaneInv
<1>3. \A i \in DOMAIN selects : selects[i] \in CallTyped
  BY DEF PaneInv
<1>4. f \in [DOMAIN selects -> CallTyped] /\ selects' = f
  BY <1>3 DEF ReadAheadArrives, CallTyped
<1>5. selects' \in Seq(CallTyped)
  BY <1>4, SelectsChanged
<1>6. Failed => Failed'
  <2>1. \A i \in DOMAIN selects : selects[i].phase = "failed" => selects'[i] = selects[i]
    BY <1>4 DEF Waiting
  <2> QED
    BY <2>1, <1>1, <1>4 DEF Failed
<1>7. PaneIsOfTheSelection'
  <2>1. CASE selected = r /\ Waiting(r) # {}
    <3>1. shown' # None /\ shown'[1] = r
      BY <1>0, <2>1, TakenIs DEF ReadAheadArrives
    <3> QED
      BY <3>1, <2>1, <1>1 DEF PaneIsOfTheSelection
  <2>2. CASE selected # r \/ Waiting(r) = {}
    <3>1. shown' = shown
      BY <1>0, <2>2, TakenIs DEF ReadAheadArrives, pane
    <3>2. loading => loading'
      BY <2>2 DEF ReadAheadArrives
    <3> QED
      BY <3>1, <3>2, <1>1, <1>6, PaneStays
  <2> QED
    BY <2>1, <2>2
<1> QED
  BY <1>1, <1>2, <1>5, <1>7 DEF PaneInv

LEMMA ReadAheadFailsKeeps ==
  ASSUME PaneInv, NEW r \in Records, ReadAheadFails(r)
  PROVE  PaneInv'
<1> DEFINE f == [i \in DOMAIN selects |-> IF i \in Waiting(r) THEN Call(r, "asked")
                                          ELSE selects[i]]
<1>1. version' \in [Records -> Int] /\ refresh' \in CallTyped /\ selected' = selected
      /\ loading' = loading /\ shown' = shown
  BY DEF ReadAheadFails, PaneInv, pane
<1>2. cache' \in [Records -> Int]
  BY DEF ReadAheadFails, PaneInv, NotCached
<1>3. \A i \in DOMAIN selects : selects[i] \in CallTyped
  BY DEF PaneInv
<1>4. f \in [DOMAIN selects -> CallTyped] /\ selects' = f
  BY <1>3, CallIsTyped DEF ReadAheadFails, Phases
<1>5. selects' \in Seq(CallTyped)
  BY <1>4, SelectsChanged
<1>6. Failed => Failed'
  <2>1. \A i \in DOMAIN selects : selects[i].phase = "failed" => selects'[i] = selects[i]
    BY <1>4 DEF Waiting
  <2> QED
    BY <2>1, <1>1, <1>4 DEF Failed
<1> QED
  BY <1>1, <1>2, <1>5, <1>6, PaneStays DEF PaneInv

LEMMA SelectServedKeeps ==
  ASSUME PaneInv, NEW i \in DOMAIN selects, SelectServed(i)
  PROVE  PaneInv'
<1> DEFINE c == [selects[i] EXCEPT !.phase = "answered", !.got = version[selects[i].id]]
           f == [selects EXCEPT ![i] = c]
<1>1. UNCHANGED <<version, selected, loading, cache, refresh, shown>>
  BY DEF SelectServed, pane
<1>2. selects[i] \in CallTyped /\ selects[i].phase = "asked" /\ None \notin Phases
  BY RecordAssumption DEF PaneInv, SelectServed
<1>3. selects[i] \in [id : Records, phase : Phases, got : Int] \/ selects[i].phase = None
  BY <1>2, CallIs
<1>4. selects[i] \in [id : Records, phase : Phases, got : Int]
  BY <1>2, <1>3 DEF Phases
<1>5. version[selects[i].id] \in Int
  BY <1>4 DEF PaneInv
<1>6. c \in CallTyped
  BY <1>4, <1>5 DEF CallTyped, Phases
<1>7. selects' = f /\ f \in [DOMAIN selects -> CallTyped]
  <2>1. selects' = f
    BY DEF SelectServed
  <2>2. selects \in [DOMAIN selects -> CallTyped]
    BY DEF PaneInv
  <2> QED
    BY <2>1, <2>2, <1>6
<1>8. selects' \in Seq(CallTyped)
  BY <1>7, SelectsChanged
<1>9. Failed => Failed'
  <2>1. \A j \in DOMAIN selects : selects[j].phase = "failed" => selects'[j] = selects[j]
    BY <1>2, <1>7
  <2> QED
    BY <2>1, <1>1, <1>7 DEF Failed
<1> QED
  BY <1>1, <1>8, <1>9, PaneStays DEF PaneInv

LEMMA SelectArrivesKeeps ==
  ASSUME PaneInv, NEW i \in DOMAIN selects, SelectArrives(i)
  PROVE  PaneInv'
<1> DEFINE f == [selects EXCEPT ![i] = NoCall]
           r == selects[i].id
           v == selects[i].got
<1>1. UNCHANGED <<version, selected, refresh>>
  BY DEF SelectArrives
<1>2. selects[i] \in CallTyped /\ selects[i].phase = "answered" /\ None \notin Phases
  BY RecordAssumption DEF PaneInv, SelectArrives
<1>3. r \in Records /\ v \in Int
  BY <1>2, CallIs DEF Phases
<1>4. cache' \in [Records -> Int]
  BY <1>3 DEF PaneInv, SelectArrives
<1>5. selects' = f /\ f \in [DOMAIN selects -> CallTyped]
  BY DEF PaneInv, SelectArrives, CallTyped
<1>6. selects' \in Seq(CallTyped)
  BY <1>5, SelectsChanged
<1>7. Failed => Failed'
  <2>1. \A j \in DOMAIN selects : selects[j].phase = "failed" => selects'[j] = selects[j]
    BY <1>2, <1>5
  <2> QED
    BY <2>1, <1>1, <1>5 DEF Failed
<1>8. Taken(r, v, TRUE) /\ loading' = (loading /\ selected # r) /\ r # None
  BY <1>3, RecordAssumption DEF SelectArrives
<1>9. PaneIsOfTheSelection'
  <2>1. CASE selected = r
    <3>1. shown' # None /\ shown'[1] = r
      BY <1>3, <1>8, <2>1, TakenIs
    <3> QED
      BY <3>1, <2>1, <1>1 DEF PaneIsOfTheSelection
  <2>2. CASE selected # r
    <3>1. shown' = shown
      BY <1>3, <1>8, <2>2, TakenIs
    <3> QED
      BY <3>1, <2>2, <1>1, <1>7, <1>8, PaneStays
  <2> QED
    BY <2>1, <2>2
<1> QED
  BY <1>1, <1>4, <1>6, <1>9 DEF PaneInv

LEMMA SelectFailsKeeps ==
  ASSUME PaneInv, NEW i \in DOMAIN selects, SelectFails(i)
  PROVE  PaneInv'
<1>9. loading' = (loading /\ selected # selects[i].id)
  BY DEF SelectFails
<1> DEFINE c == [selects[i] EXCEPT !.phase = "failed"]
           f == [selects EXCEPT ![i] = c]
<1>1. UNCHANGED <<version, selected, cache, refresh, shown>>
  BY DEF SelectFails, pane
<1>2. selects[i] \in CallTyped /\ selects[i].phase = "asked" /\ None \notin Phases
  BY RecordAssumption DEF PaneInv, SelectFails
<1>3. selects[i] \in [id : Records, phase : Phases, got : Int]
  BY <1>2, CallIs DEF Phases
<1>4. c \in CallTyped /\ c.phase = "failed" /\ c.id = selects[i].id
  BY <1>3 DEF CallTyped, Phases
<1>5. selects' = f /\ f \in [DOMAIN selects -> CallTyped] /\ f[i] = c
  BY <1>4 DEF PaneInv, SelectFails
<1>6. selects' \in Seq(CallTyped)
  BY <1>5, SelectsChanged
<1>7. Failed => Failed'
  <2>1. \A j \in DOMAIN selects : selects[j].phase = "failed" => selects'[j] = selects[j]
    BY <1>2, <1>5
  <2> QED
    BY <2>1, <1>1, <1>5 DEF Failed
<1>8. PaneIsOfTheSelection'
  <2>1. CASE selected = selects[i].id
    <3>1. Failed'
      BY <2>1, <1>1, <1>4, <1>5 DEF Failed
    <3> QED
      BY <3>1 DEF PaneIsOfTheSelection
  <2>2. CASE selected # selects[i].id
    <3>1. loading => loading'
      BY <2>2, <1>9 DEF SelectFails
    <3> QED
      BY <3>1, <1>1, <1>7, PaneStays
  <2> QED
    BY <2>1, <2>2
<1> QED
  BY <1>1, <1>6, <1>8 DEF PaneInv

LEMMA RefreshKeeps ==
  ASSUME PaneInv, RefreshBegins \/ RefreshServed \/ RefreshArrives \/ RefreshFails
  PROVE  PaneInv'
<1>1. UNCHANGED <<version, selected, loading, selects>>
  BY DEF RefreshBegins, RefreshServed, RefreshArrives, RefreshFails
<1>2. refresh \in CallTyped /\ None \notin Phases
  BY RecordAssumption DEF PaneInv
<1>3. Failed <=> Failed'
  BY <1>1 DEF Failed
<1>4. CASE RefreshBegins
  <2>1. refresh' \in CallTyped
    BY <1>4, CallIsTyped DEF RefreshBegins, PaneInv, Phases
  <2>2. UNCHANGED <<cache, shown>>
    BY <1>4 DEF RefreshBegins, pane
  <2> QED
    BY <2>1, <2>2, <1>1, <1>3, PaneStays DEF PaneInv
<1>5. CASE RefreshServed
  <2> DEFINE c == [refresh EXCEPT !.phase = "answered", !.got = version[refresh.id]]
  <2>1. refresh \in [id : Records, phase : Phases, got : Int]
    BY <1>2, <1>5, CallIs DEF RefreshServed, Phases
  <2>2. version[refresh.id] \in Int
    BY <2>1 DEF PaneInv
  <2>3. c \in CallTyped
    BY <2>1, <2>2 DEF CallTyped, Phases
  <2>4. refresh' = c /\ UNCHANGED <<cache, shown>>
    BY <1>5 DEF RefreshServed, pane
  <2> QED
    BY <2>3, <2>4, <1>1, <1>3, PaneStays DEF PaneInv
<1>6. CASE RefreshArrives
  <2>1. refresh \in [id : Records, phase : Phases, got : Int]
    BY <1>2, <1>6, CallIs DEF RefreshArrives, Phases
  <2>2. refresh' \in CallTyped
    BY <1>6 DEF RefreshArrives, CallTyped
  <2>3. cache' \in [Records -> Int]
    BY <2>1, <1>6 DEF RefreshArrives, PaneInv
  <2>4. Taken(refresh.id, refresh.got, FALSE)
    BY <1>6 DEF RefreshArrives
  <2>5. selected = refresh.id => shown' # None /\ shown'[1] = refresh.id
    BY <2>1, <2>4, TakenIs, RecordAssumption
  <2>6. selected # refresh.id => shown' = shown
    BY <2>1, <2>4, TakenIs
  <2>7. PaneIsOfTheSelection'
    BY <2>5, <2>6, <1>1, <1>3 DEF PaneInv, PaneIsOfTheSelection
  <2> QED
    BY <2>2, <2>3, <2>7, <1>1 DEF PaneInv
<1>7. CASE RefreshFails
  <2>1. refresh' \in CallTyped /\ UNCHANGED <<cache, shown>>
    BY <1>7 DEF RefreshFails, CallTyped, pane
  <2> QED
    BY <2>1, <1>1, <1>3, PaneStays DEF PaneInv
<1> QED
  BY <1>4, <1>5, <1>6, <1>7

LEMMA ServerKeeps ==
  ASSUME PaneInv, NEW r \in Records, RequestGoesOn(r) \/ ReadAhead(r)
  PROVE  PaneInv'
<1>1. UNCHANGED <<selected, loading, selects, refresh, shown>>
  BY DEF RequestGoesOn, ReadAhead, pane
<1>2. version' \in [Records -> Int] /\ cache' \in [Records -> Int]
  BY DEF RequestGoesOn, ReadAhead, PaneInv, BeingRead
<1> QED
  BY <1>1, <1>2 DEF PaneInv, PaneIsOfTheSelection, Failed

\* Whatever was selected and read before, ahead or again, and however late it is answered or
\* lost: once the selection stopped loading, and was not lost, the pane is of the record that
\* is selected.
THEOREM PaneFollowsTheSelection == Spec => []PaneIsOfTheSelection
<1>1. PaneInv /\ [Next]_vars => PaneInv'
  <2> SUFFICES ASSUME PaneInv, [Next]_vars PROVE PaneInv'
    OBVIOUS
  <2>1. CASE Shows \/ UNCHANGED vars
    BY <2>1, ShowsKeeps
  <2>2. CASE RefreshBegins \/ RefreshServed \/ RefreshArrives \/ RefreshFails
    BY <2>2, RefreshKeeps
  <2>3. CASE \E i \in DOMAIN selects : SelectServed(i) \/ SelectArrives(i) \/ SelectFails(i)
    BY <2>3, SelectServedKeeps, SelectArrivesKeeps, SelectFailsKeeps
  <2>4. ASSUME NEW r \in Records,
               RequestGoesOn(r) \/ ReadAhead(r) \/ Select(r) \/ ReadAheadArrives(r)
               \/ ReadAheadFails(r)
        PROVE  PaneInv'
    BY <2>4, ServerKeeps, SelectKeeps, ReadAheadArrivesKeeps, ReadAheadFailsKeeps
  <2> QED
    BY <2>1, <2>2, <2>3, <2>4 DEF Next, Reads
<1>2. PaneInv => PaneIsOfTheSelection
  BY DEF PaneInv
<1> QED
  BY PaneInit, <1>1, <1>2, PTL DEF Spec

-----------------------------------------------------------------------------
(* The list of the history.                                                *)

Queries == {Everything, Words}
RowRec == [id : Tasks \X Nat, status : Statuses]
GroupRec ==
  [id : Tasks, summary : [count : Nat, pending : Nat], loaded : BOOLEAN, rows : Seq(RowRec),
   more : BOOLEAN, next : Nat, query : Queries]
PageOf(V) == [items : Seq(V), next : Nat, more : BOOLEAN]

\* Nothing is in a list twice; rows are found by the words; and a task, unless it was cleaned
\* up, has a record that is.
Once(s) == \A m, n \in DOMAIN s : s[m].id = s[n].id => m = n
RowsFound(q, those) == Once(those) /\ \A k \in DOMAIN those : Found(q, those[k].id)
Live(q, t, held, away) == t \notin away => \E k \in DOMAIN held[t] : Found(q, <<t, k>>)
ListFound(q, s, held, away) ==
  /\ s \in Seq(GroupRec) /\ Once(s)
  /\ \A i \in DOMAIN s : Live(q, s[i].id, held, away) /\ RowsFound(q, s[i].rows)

\* Keeping some of a list leaves each of them in it once.
LEMMA KeepingOnce ==
  ASSUME NEW V, NEW s \in Seq(V), NEW S, Once(s)
  PROVE  Once(Keeping(s, S))
<1> DEFINE K == Keeping(s, S)
<1>1. \A m, n \in DOMAIN s : s[m] = s[n] => m = n
  BY DEF Once
<1>2. /\ K \in Seq(V) /\ \A n \in DOMAIN K : \E m \in DOMAIN s : K[n] = s[m]
      /\ \A m, n \in DOMAIN K : K[m] = K[n] => m = n
  BY <1>1, KeepingIs
<1> HIDE DEF K
<1>3. Once(K)
  <2> SUFFICES ASSUME NEW m \in DOMAIN K, NEW n \in DOMAIN K, K[m].id = K[n].id PROVE m = n
    BY DEF Once
  <2>1. PICK i \in DOMAIN s : K[m] = s[i]
    BY <1>2
  <2>2. PICK k \in DOMAIN s : K[n] = s[k]
    BY <1>2
  <2> QED
    BY <2>1, <2>2, <1>2 DEF Once
<1> QED
  BY <1>3 DEF K

LEMMA OnceJoined ==
  ASSUME NEW V, NEW s \in Seq(V), NEW u \in Seq(V), Once(s), Once(u),
         \A m \in DOMAIN s, n \in DOMAIN u : s[m].id # u[n].id
  PROVE  /\ Once(s \o u) /\ s \o u \in Seq(V)
         /\ \A i \in DOMAIN (s \o u) : \/ i \in DOMAIN s /\ (s \o u)[i] = s[i]
                                       \/ i - Len(s) \in DOMAIN u /\ (s \o u)[i] = u[i - Len(s)]
<1> DEFINE w == s \o u
<1>1. /\ w \in Seq(V) /\ Len(s) \in Nat
      /\ \A i \in DOMAIN w : \/ i \in DOMAIN s /\ w[i] = s[i]
                             \/ i - Len(s) \in DOMAIN u /\ w[i] = u[i - Len(s)] /\ i \in Nat
  OBVIOUS
<1> HIDE DEF w
<1>2. Once(w)
  <2> SUFFICES ASSUME NEW m \in DOMAIN w, NEW n \in DOMAIN w, w[m].id = w[n].id PROVE m = n
    BY DEF Once
  <2>1. \/ m \in DOMAIN s /\ w[m] = s[m]
        \/ m \in Nat /\ m - Len(s) \in DOMAIN u /\ w[m] = u[m - Len(s)]
    BY <1>1
  <2>2. \/ n \in DOMAIN s /\ w[n] = s[n]
        \/ n \in Nat /\ n - Len(s) \in DOMAIN u /\ w[n] = u[n - Len(s)]
    BY <1>1
  <2>3. CASE m \in DOMAIN s /\ w[m] = s[m]
    BY <2>2, <2>3 DEF Once
  <2>4. CASE m \in Nat /\ m - Len(s) \in DOMAIN u /\ w[m] = u[m - Len(s)]
    <3>1. n \in Nat /\ n - Len(s) \in DOMAIN u /\ w[n] = u[n - Len(s)]
      BY <2>2, <2>4
    <3>2. m - Len(s) = n - Len(s)
      BY <2>4, <3>1 DEF Once
    <3> QED
      BY <2>4, <3>1, <3>2, <1>1
  <2> QED
    BY <2>1, <2>3, <2>4
<1> QED
  BY <1>1, <1>2 DEF w

LEMMA PageIs ==
  ASSUME NEW V, NEW s \in Seq(V), NEW limit \in Nat, NEW from \in Nat
  PROVE  LET p == Page(s, limit, from)
         IN /\ p \in PageOf(V)
            /\ \A i \in DOMAIN p.items : i + from \in DOMAIN s /\ p.items[i] = s[i + from]
            /\ DOMAIN p.items \subseteq Nat
<1> DEFINE upto == Low(from + limit, Len(s))
           items == SubSeq(s, from + 1, upto)
<1>1. upto \in Nat /\ upto <= Len(s) /\ Len(s) \in Nat
  BY DEF Low
<1> HIDE DEF upto
<1>2. items \in Seq(V) /\ Len(items) \in Nat
  BY <1>1
<1>3. \A i \in DOMAIN items : i \in Nat /\ i + from \in DOMAIN s /\ items[i] = s[i + from]
  <2> SUFFICES ASSUME NEW i \in DOMAIN items
               PROVE  i \in Nat /\ i + from \in DOMAIN s /\ items[i] = s[i + from]
    OBVIOUS
  <2>1. i \in Nat /\ i >= 1 /\ i <= upto - from
    BY <1>1
  <2>2. items[i] = s[i + from]
    BY <1>1, <2>1
  <2> HIDE DEF items
  <2>3. i + from \in 1 .. Len(s) /\ DOMAIN s = 1 .. Len(s)
    BY <1>1, <2>1
  <2> QED
    BY <2>1, <2>2, <2>3
<1> HIDE DEF items
<1>4. Page(s, limit, from) =
        [items |-> items, next |-> from + Len(items), more |-> from + Len(items) < Len(s)]
  BY DEF Page, items, upto
<1> QED
  BY <1>1, <1>2, <1>3, <1>4 DEF PageOf

LEMMA PageOnce ==
  ASSUME NEW V, NEW s \in Seq(V), NEW limit \in Nat, NEW from \in Nat, Once(s)
  PROVE  Once(Page(s, limit, from).items)
<1> DEFINE items == Page(s, limit, from).items
<1>1. \A i \in DOMAIN items : i \in Nat /\ i + from \in DOMAIN s /\ items[i] = s[i + from]
  BY PageIs
<1> HIDE DEF items
<1>2. Once(items)
  <2> SUFFICES ASSUME NEW m \in DOMAIN items, NEW n \in DOMAIN items, items[m].id = items[n].id
               PROVE  m = n
    BY DEF Once
  <2>1. m + from = n + from
    BY <1>1 DEF Once
  <2> QED
    BY <2>1, <1>1
<1> QED
  BY <1>2 DEF items

\* The held of a task, as the server finds them
LEMMA RecordsOfIs ==
  ASSUME log \in [Tasks -> Seq(Statuses)], NEW q, NEW t \in Tasks
  PROVE  RecordsOf(q, t) \in Seq(RowRec) /\ RowsFound(q, RecordsOf(q, t))
<1> DEFINE all == [i \in DOMAIN log[t] |-> [id |-> <<t, i>>, status |-> log[t][i]]]
           back == Reverse(all)
           S == {r \in ToSet(all) : Found(q, r.id)}
           N == Len(log[t])
<1>1. N \in Nat /\ DOMAIN log[t] = 1 .. N /\ \A i \in 1 .. N : log[t][i] \in Statuses
  OBVIOUS
<1>2. all \in [1 .. N -> RowRec] /\ \A i \in 1 .. N : all[i].id = <<t, i>>
  BY <1>1 DEF RowRec
<1> HIDE DEF all
<1>3. all \in Seq(RowRec) /\ Len(all) = N
  BY <1>1, <1>2, SequenceOf
<1>4. back = [i \in 1 .. N |-> all[(N - i) + 1]]
  BY <1>3 DEF Reverse
<1>5. back \in [1 .. N -> RowRec] /\ \A i \in 1 .. N : back[i].id = <<t, (N - i) + 1>>
  BY <1>1, <1>2, <1>4
<1> HIDE DEF back
<1>6. back \in Seq(RowRec) /\ DOMAIN back = 1 .. N
  BY <1>1, <1>5, SequenceOf
<1>7. Once(back)
  <2> SUFFICES ASSUME NEW m \in 1 .. N, NEW n \in 1 .. N, back[m].id = back[n].id PROVE m = n
    BY <1>6 DEF Once
  <2>2. <<t, (N - m) + 1>>[2] = <<t, (N - n) + 1>>[2]
    BY <1>5
  <2>1. (N - m) + 1 = (N - n) + 1
    BY <2>2
  <2> QED
    BY <2>1, <1>1
<1> DEFINE K == Keeping(back, S)
<1>8. K \in Seq(RowRec) /\ \A n \in DOMAIN K : K[n] \in S
  <2> HIDE DEF S
  <2> QED
    BY <1>6, KeepingIs
<1>9. Once(K)
  <2> HIDE DEF S
  <2> QED
    BY <1>6, <1>7, KeepingOnce
<1>10. K = RecordsOf(q, t)
  BY DEF RecordsOf, all, back
<1> HIDE DEF K
<1> QED
  BY <1>8, <1>9, <1>10 DEF RowsFound

LEMMA PendingIs ==
  ASSUME log \in [Tasks -> Seq(Statuses)], NEW t \in Tasks
  PROVE  [count |-> Len(log[t]), pending |-> Pending(t)] \in [count : Nat, pending : Nat]
<1> DEFINE S == {i \in DOMAIN log[t] : log[t][i] = "pending"}
<1>1. Len(log[t]) \in Nat /\ DOMAIN log[t] = 1 .. Len(log[t])
  OBVIOUS
<1>2. IsFiniteSet(1 .. Len(log[t]))
  BY <1>1, FS_Interval
<1>3. IsFiniteSet(S)
  BY <1>1, <1>2, FS_Subset
<1>4. Pending(t) \in Nat
  BY <1>3, FS_CardinalityType DEF Pending
<1> QED
  BY <1>1, <1>4

LEMMA TaskIs ==
  ASSUME log \in [Tasks -> Seq(Statuses)], NEW q \in Queries, NEW t \in Tasks
  PROVE  Group(q, t) \in GroupRec /\ Group(q, t).id = t /\ RowsFound(q, Group(q, t).rows)
<1> DEFINE first == Page(RecordsOf(q, t), PreviewRows, 0)
           summary == [count |-> Len(log[t]), pending |-> Pending(t)]
           held == RecordsOf(q, t)
<1>0. summary \in [count : Nat, pending : Nat]
  BY PendingIs
<1> HIDE DEF summary
<1>1. held \in Seq(RowRec) /\ RowsFound(q, held)
  BY RecordsOfIs
<1>2. PreviewRows \in Nat
  BY HistoryAssumption
<1>3. /\ first \in PageOf(RowRec)
      /\ \A i \in DOMAIN first.items : \E n \in DOMAIN held : first.items[i] = held[n]
      /\ Once(first.items)
  <2> HIDE DEF held
  <2>1. Once(held)
    BY <1>1 DEF RowsFound
  <2>2. first = Page(held, PreviewRows, 0)
    BY DEF held
  <2> HIDE DEF first
  <2> QED
    BY <1>1, <1>2, <2>1, <2>2, PageIs, PageOnce
<1> HIDE DEF held, first
<1>4. CASE q = Everything
  <2> DEFINE g == [id |-> t, summary |-> summary, loaded |-> FALSE, rows |-> <<>>,
                   more |-> FALSE, next |-> 0, query |-> Everything]
  <2>1. Group(q, t) = g
    BY <1>4 DEF Group, summary
  <2>2. g \in GroupRec
    BY <1>0 DEF GroupRec, Queries
  <2>3. RowsFound(q, <<>>)
    BY DEF RowsFound, Once
  <2> QED
    BY <2>1, <2>2, <2>3
<1>5. CASE q # Everything
  <2> DEFINE g == [id |-> t, summary |-> summary, loaded |-> TRUE, rows |-> first.items,
                   more |-> first.more, next |-> first.next, query |-> q]
  <2>1. Group(q, t) = g
    BY <1>5 DEF Group, summary, first
  <2>2. g \in GroupRec
    BY <1>0, <1>3 DEF GroupRec, PageOf
  <2>3. RowsFound(q, first.items)
    BY <1>1, <1>3 DEF RowsFound
  <2> QED
    BY <2>1, <2>2, <2>3
<1> QED
  BY <1>4, <1>5

\* A page of tasks is of tasks that have what was searched for.
LEMMA GroupPageIs ==
  ASSUME log \in [Tasks -> Seq(Statuses)], order \in Seq(Tasks), IsInjective(order),
         NEW q \in Queries, NEW limit \in Nat, NEW from \in Nat
  PROVE  /\ GroupPage(q, limit, from) \in PageOf(GroupRec)
         /\ ListFound(q, GroupPage(q, limit, from).items, log, gone)
<1> DEFINE S == {t \in Tasks : \E i \in DOMAIN log[t] : Found(q, <<t, i>>)}
           found == Keeping(order, S)
           page == Page(found, limit, from)
           ts == page.items
           items == [i \in DOMAIN ts |-> Group(q, ts[i])]
<1>0. \A m, n \in DOMAIN order : order[m] = order[n] => m = n
  BY DEF IsInjective
<1>1. /\ found \in Seq(Tasks) /\ \A n \in DOMAIN found : found[n] \in S
      /\ \A m, n \in DOMAIN found : found[m] = found[n] => m = n
  <2> HIDE DEF S
  <2> QED
    BY <1>0, KeepingIs
<1> HIDE DEF found
<1>2. /\ page \in PageOf(Tasks)
      /\ \A i \in DOMAIN ts : i \in Nat /\ i + from \in DOMAIN found /\ ts[i] = found[i + from]
  BY <1>1, PageIs
<1> HIDE DEF page
<1>3. ts \in Seq(Tasks) /\ page.next \in Nat /\ page.more \in BOOLEAN
  BY <1>2 DEF PageOf
<1> HIDE DEF ts
<1>4. \A i \in DOMAIN ts : ts[i] \in S /\ ts[i] \in Tasks
  BY <1>1, <1>2
<1>5. \A i \in DOMAIN items : items[i] \in GroupRec /\ items[i].id = ts[i] /\ RowsFound(q, items[i].rows)
  BY <1>4, TaskIs
<1>6. DOMAIN items = DOMAIN ts /\ items = [i \in DOMAIN ts |-> items[i]]
  OBVIOUS
<1> HIDE DEF items
<1>7. items \in Seq(GroupRec)
  <2>1. \A i \in DOMAIN ts : items[i] \in GroupRec
    BY <1>5, <1>6
  <2>2. Len(ts) \in Nat /\ DOMAIN ts = 1 .. Len(ts)
    BY <1>3
  <2>3. items \in [1 .. Len(ts) -> GroupRec]
    BY <1>6, <2>1, <2>2
  <2> QED
    BY <2>2, <2>3
<1>8. Once(items)
  <2> SUFFICES ASSUME NEW m \in DOMAIN items, NEW n \in DOMAIN items, items[m].id = items[n].id
               PROVE  m = n
    BY DEF Once
  <2>1. ts[m] = ts[n]
    BY <1>5
  <2>2. m + from = n + from
    BY <2>1, <1>1, <1>2, <1>6
  <2> QED
    BY <2>2, <1>2, <1>6
<1>9. \A i \in DOMAIN items : Live(q, items[i].id, log, gone)
  BY <1>4, <1>5, <1>6 DEF Live
<1>10. GroupPage(q, limit, from) = [page EXCEPT !.items = items]
  BY DEF GroupPage, TasksFor, page, found, items, ts
<1>11. [page EXCEPT !.items = items] \in PageOf(GroupRec) /\ [page EXCEPT !.items = items].items = items
  BY <1>2, <1>7 DEF PageOf
<1> QED
  BY <1>5, <1>7, <1>8, <1>9, <1>10, <1>11 DEF ListFound

-----------------------------------------------------------------------------
(* Lists put together.                                                      *)

LEMMA NamedIs ==
  ASSUME NEW groups, NEW t \in Ids(groups)
  PROVE  \E i \in DOMAIN groups : groups[i].id = t /\ Named(groups, t) = groups[i]
<1>1. PICK i \in DOMAIN groups : groups[i].id = t
  BY DEF Ids
<1>2. groups[i] \in ToSet(groups)
  BY DEF ToSet
<1>3. Named(groups, t) \in ToSet(groups) /\ Named(groups, t).id = t
  BY <1>1, <1>2 DEF Named
<1> QED
  BY <1>3 DEF ToSet

LEMMA MergedFound ==
  ASSUME NEW current, NEW new, NEW keep, NEW held, NEW away,
         ListFound(query, current, held, away), ListFound(query, new, held, away)
  PROVE  ListFound(query, Merged(current, new, keep), held, away)
<1> DEFINE same(g) == /\ g.id \in Ids(current)
                      /\ Named(current, g.id).summary = g.summary
                      /\ Named(current, g.id).query = query
           front == [i \in DOMAIN new |-> IF same(new[i]) THEN Named(current, new[i].id) ELSE new[i]]
           S == {g \in ToSet(current) : g.id \notin Ids(new)}
           rest == IF keep THEN Keeping(current, S) ELSE <<>>
<1>1. Merged(current, new, keep) = front \o rest
  BY DEF Merged
<1>2. /\ current \in Seq(GroupRec) /\ Once(current)
      /\ \A i \in DOMAIN current : /\ current[i] \in GroupRec /\ Live(query, current[i].id, held, away)
                                   /\ RowsFound(query, current[i].rows)
  BY DEF ListFound
<1>3. /\ new \in Seq(GroupRec) /\ Once(new)
      /\ \A i \in DOMAIN new : /\ new[i] \in GroupRec /\ Live(query, new[i].id, held, away)
                               /\ RowsFound(query, new[i].rows)
  BY DEF ListFound
<1>4. \A i \in DOMAIN new : /\ front[i] \in GroupRec /\ front[i].id = new[i].id
                            /\ RowsFound(query, front[i].rows)
  <2> TAKE i \in DOMAIN new
  <2>1. CASE same(new[i])
    <3>1. front[i] = Named(current, new[i].id) /\ new[i].id \in Ids(current)
      BY <2>1
    <3>2. PICK k \in DOMAIN current : current[k].id = new[i].id /\ Named(current, new[i].id) = current[k]
      BY <3>1, NamedIs
    <3> HIDE DEF front
    <3> QED
      BY <3>1, <3>2, <1>2
  <2>2. CASE ~ same(new[i])
    <3>1. front[i] = new[i]
      BY <2>2
    <3> QED
      BY <3>1, <1>3
  <2> QED
    BY <2>1, <2>2
<1>5. DOMAIN front = DOMAIN new /\ front = [i \in DOMAIN new |-> front[i]]
  OBVIOUS
<1> HIDE DEF front
<1>6. front \in Seq(GroupRec)
  BY <1>3, <1>4, <1>5, MappedSeq
<1>7. Once(front)
  BY <1>3, <1>4, <1>5 DEF Once
<1>8. /\ rest \in Seq(GroupRec) /\ Once(rest)
      /\ \A n \in DOMAIN rest : rest[n].id \notin Ids(new) /\ \E m \in DOMAIN current : rest[n] = current[m]
  <2>1. CASE keep
    <3> DEFINE K == Keeping(current, S)
    <3>1. K \in Seq(GroupRec) /\ \A n \in DOMAIN K : K[n] \in S /\ \E m \in DOMAIN current : K[n] = current[m]
      <4> HIDE DEF S
      <4> QED
        BY <1>2, KeepingIs
    <3>2. Once(K)
      <4> HIDE DEF S
      <4> QED
        BY <1>2, KeepingOnce
    <3>3. rest = K
      BY <2>1
    <3> HIDE DEF K, rest
    <3> QED
      BY <3>1, <3>2, <3>3
  <2>2. CASE ~keep
    <3>1. rest = <<>>
      BY <2>2
    <3> HIDE DEF rest
    <3> QED
      BY <3>1 DEF Once
  <2> QED
    BY <2>1, <2>2
<1> HIDE DEF rest
<1>9. \A m \in DOMAIN front, n \in DOMAIN rest : front[m].id # rest[n].id
  BY <1>4, <1>5, <1>8 DEF Ids
<1> DEFINE w == front \o rest
<1>10. /\ Once(w) /\ w \in Seq(GroupRec)
       /\ \A i \in DOMAIN w : \/ i \in DOMAIN front /\ w[i] = front[i]
                              \/ i - Len(front) \in DOMAIN rest /\ w[i] = rest[i - Len(front)]
  BY <1>6, <1>7, <1>8, <1>9, OnceJoined
<1> HIDE DEF w
<1>11. \A i \in DOMAIN w : Live(query, w[i].id, held, away) /\ RowsFound(query, w[i].rows)
  <2> TAKE i \in DOMAIN w
  <2>1. CASE i \in DOMAIN front /\ w[i] = front[i]
    BY <2>1, <1>3, <1>4, <1>5
  <2>2. CASE i - Len(front) \in DOMAIN rest /\ w[i] = rest[i - Len(front)]
    <3>1. PICK m \in DOMAIN current : w[i] = current[m]
      BY <2>2, <1>8
    <3> QED
      BY <3>1, <1>2
  <2> QED
    BY <2>1, <2>2, <1>10
<1> QED
  BY <1>1, <1>10, <1>11 DEF ListFound, w

LEMMA AppendedFound ==
  ASSUME NEW current, NEW new, NEW held, NEW away,
         ListFound(query, current, held, away), ListFound(query, new, held, away)
  PROVE  ListFound(query, Appended(current, new), held, away)
<1> DEFINE update(g) ==
             IF g.id \notin Ids(new) THEN g
             ELSE LET n == Named(new, g.id)
                  IN IF n.loaded THEN [n EXCEPT !.rows = g.rows, !.loaded = g.loaded]
                     ELSE [g EXCEPT !.summary = n.summary]
           front == [i \in DOMAIN current |-> update(current[i])]
           S == {g \in ToSet(new) : g.id \notin Ids(current)}
           rest == Keeping(new, S)
<1>1. Appended(current, new) = front \o rest
  BY DEF Appended
<1>2. /\ current \in Seq(GroupRec) /\ Once(current)
      /\ \A i \in DOMAIN current : /\ current[i] \in GroupRec /\ Live(query, current[i].id, held, away)
                                   /\ RowsFound(query, current[i].rows)
  BY DEF ListFound
<1>3. /\ new \in Seq(GroupRec) /\ Once(new)
      /\ \A i \in DOMAIN new : /\ new[i] \in GroupRec /\ Live(query, new[i].id, held, away)
                               /\ RowsFound(query, new[i].rows)
  BY DEF ListFound
<1>4. \A i \in DOMAIN current : /\ front[i] \in GroupRec /\ front[i].id = current[i].id
                                /\ front[i].rows = current[i].rows
  <2> TAKE i \in DOMAIN current
  <2> DEFINE g == current[i]
             n == Named(new, g.id)
  <2>0. g \in GroupRec
    BY <1>2
  <2>1. CASE g.id \notin Ids(new)
    BY <2>0, <2>1
  <2>2. CASE g.id \in Ids(new)
    <3>1. PICK k \in DOMAIN new : new[k].id = g.id /\ n = new[k]
      BY <2>2, NamedIs
    <3>2. n \in GroupRec /\ n.id = g.id
      BY <3>1, <1>3
    <3>3. front[i] = IF n.loaded THEN [n EXCEPT !.rows = g.rows, !.loaded = g.loaded]
                     ELSE [g EXCEPT !.summary = n.summary]
      BY <2>2
    <3> HIDE DEF g, n, front
    <3>4. CASE n.loaded
      <4>1. front[i] = [n EXCEPT !.rows = g.rows, !.loaded = g.loaded]
        BY <3>3, <3>4
      <4>2. g.rows \in Seq(RowRec) /\ g.loaded \in BOOLEAN
        BY <2>0 DEF GroupRec
      <4>3. /\ [n EXCEPT !.rows = g.rows, !.loaded = g.loaded] \in GroupRec
            /\ [n EXCEPT !.rows = g.rows, !.loaded = g.loaded].id = n.id
            /\ [n EXCEPT !.rows = g.rows, !.loaded = g.loaded].rows = g.rows
        BY <3>2, <4>2 DEF GroupRec
      <4> QED
        BY <4>1, <4>3, <3>2 DEF g
    <3>5. CASE ~n.loaded
      <4>1. front[i] = [g EXCEPT !.summary = n.summary]
        BY <3>3, <3>5
      <4>2. /\ [g EXCEPT !.summary = n.summary] \in GroupRec
            /\ [g EXCEPT !.summary = n.summary].id = g.id
            /\ [g EXCEPT !.summary = n.summary].rows = g.rows
        BY <3>2, <2>0 DEF GroupRec
      <4> QED
        BY <4>1, <4>2 DEF g
    <3> QED
      BY <3>4, <3>5
  <2> QED
    BY <2>1, <2>2
<1>5. DOMAIN front = DOMAIN current /\ front = [i \in DOMAIN current |-> front[i]]
  OBVIOUS
<1> HIDE DEF front
<1>6. front \in Seq(GroupRec)
  BY <1>2, <1>4, <1>5, MappedSeq
<1>7. Once(front)
  BY <1>2, <1>4, <1>5 DEF Once
<1>8. /\ rest \in Seq(GroupRec)
      /\ \A n \in DOMAIN rest : rest[n] \in S /\ \E m \in DOMAIN new : rest[n] = new[m]
  <2> HIDE DEF S
  <2> QED
    BY <1>3, KeepingIs
<1>9. Once(rest)
  <2> HIDE DEF S
  <2> QED
    BY <1>3, KeepingOnce
<1> HIDE DEF rest
<1>10. \A m \in DOMAIN front, n \in DOMAIN rest : front[m].id # rest[n].id
  BY <1>4, <1>5, <1>8 DEF Ids
<1> DEFINE w == front \o rest
<1>11. /\ Once(w) /\ w \in Seq(GroupRec)
       /\ \A i \in DOMAIN w : \/ i \in DOMAIN front /\ w[i] = front[i]
                              \/ i - Len(front) \in DOMAIN rest /\ w[i] = rest[i - Len(front)]
  BY <1>6, <1>7, <1>8, <1>9, <1>10, OnceJoined
<1> HIDE DEF w
<1>12. \A i \in DOMAIN w : Live(query, w[i].id, held, away) /\ RowsFound(query, w[i].rows)
  <2> TAKE i \in DOMAIN w
  <2>1. CASE i \in DOMAIN front /\ w[i] = front[i]
    BY <2>1, <1>2, <1>4, <1>5
  <2>2. CASE i - Len(front) \in DOMAIN rest /\ w[i] = rest[i - Len(front)]
    <3>1. PICK m \in DOMAIN new : w[i] = new[m]
      BY <2>2, <1>8
    <3> QED
      BY <3>1, <1>3
  <2> QED
    BY <2>1, <2>2, <1>11
<1> QED
  BY <1>1, <1>11, <1>12 DEF ListFound, w

\* A list whose rows changed, but stay found, or whose rows only have another status.
LEMMA RowsChanged ==
  ASSUME NEW s, NEW q, NEW held, NEW away, ListFound(q, s, held, away), NEW f,
         DOMAIN f = DOMAIN s, f = [i \in DOMAIN s |-> f[i]],
         \A i \in DOMAIN s : f[i] \in GroupRec /\ f[i].id = s[i].id /\ RowsFound(q, f[i].rows)
  PROVE  ListFound(q, f, held, away)
<1>1. s \in Seq(GroupRec)
  BY DEF ListFound
<1>2. f \in Seq(GroupRec)
  BY <1>1, MappedSeq
<1> QED
  BY <1>2 DEF ListFound, Once

\* The log goes on and tasks are cleaned up: what was found stays found.
LEMMA StaysFound ==
  ASSUME NEW q, NEW s, ListFound(q, s, log, gone), log \in [Tasks -> Seq(Statuses)],
         NEW held, NEW away,
         \A t \in Tasks : t \notin away => t \notin gone /\ DOMAIN log[t] \subseteq DOMAIN held[t]
  PROVE  ListFound(q, s, held, away)
<1>1. \A i \in DOMAIN s : s[i].id \in Tasks
  <2>1. \A i \in DOMAIN s : s[i] \in GroupRec
    BY DEF ListFound
  <2> QED
    BY <2>1 DEF GroupRec
<1>2. \A i \in DOMAIN s : Live(q, s[i].id, held, away)
  BY <1>1 DEF ListFound, Live
<1> QED
  BY <1>2 DEF ListFound

-----------------------------------------------------------------------------
(* The rows of a task.                                                     *)

LEMMA WithRowsFound ==
  ASSUME query \in Queries, NEW g \in GroupRec, RowsFound(query, g.rows), NEW kind,
         NEW answer \in PageOf(RowRec), RowsFound(query, answer.items)
  PROVE  /\ WithRows(g, kind, answer) \in GroupRec /\ WithRows(g, kind, answer).id = g.id
         /\ RowsFound(query, WithRows(g, kind, answer).rows)
<1> DEFINE have == {g.rows[i].id : i \in DOMAIN g.rows}
           items == answer.items
           S == {r \in ToSet(items) : kind = "first" \/ r.id \notin have}
           K == Keeping(items, S)
           old == IF kind = "first" THEN <<>> ELSE g.rows
           w == old \o K
           searched == IF kind = "first" THEN query ELSE g.query
<1>1. items \in Seq(RowRec) /\ answer.more \in BOOLEAN /\ answer.next \in Nat
  BY DEF PageOf
<1>2. RowsFound(query, items)
  OBVIOUS
<1> HIDE DEF items
<1>3. /\ K \in Seq(RowRec)
      /\ \A n \in DOMAIN K : K[n] \in S /\ \E m \in DOMAIN items : K[n] = items[m]
  <2> HIDE DEF S
  <2> QED
    BY <1>1, KeepingIs
<1>4. Once(K)
  <2> HIDE DEF S
  <2> QED
    BY <1>1, <1>2, KeepingOnce DEF RowsFound
<1> HIDE DEF K
<1>5. g.rows \in Seq(RowRec) /\ g.query \in Queries
  BY DEF GroupRec
<1>6. old \in Seq(RowRec) /\ Once(old) /\ \A n \in DOMAIN old : Found(query, old[n].id)
  BY <1>5 DEF RowsFound, Once
<1>7. \A m \in DOMAIN old, n \in DOMAIN K : old[m].id # K[n].id
  BY <1>3
<1> HIDE DEF old
<1>8. /\ Once(w) /\ w \in Seq(RowRec)
      /\ \A i \in DOMAIN w : \/ i \in DOMAIN old /\ w[i] = old[i]
                             \/ i - Len(old) \in DOMAIN K /\ w[i] = K[i - Len(old)]
  BY <1>3, <1>4, <1>6, <1>7, OnceJoined
<1> HIDE DEF w
<1>9. RowsFound(query, w)
  <2>1. \A i \in DOMAIN w : Found(query, w[i].id)
    <3> TAKE i \in DOMAIN w
    <3>1. CASE i \in DOMAIN old /\ w[i] = old[i]
      BY <3>1, <1>6
    <3>2. CASE i - Len(old) \in DOMAIN K /\ w[i] = K[i - Len(old)]
      BY <3>2, <1>2, <1>3 DEF RowsFound
    <3> QED
      BY <3>1, <3>2, <1>8
  <2> QED
    BY <2>1, <1>8 DEF RowsFound
<1> DEFINE filled == [g EXCEPT !.rows = w, !.loaded = TRUE, !.more = answer.more,
                             !.next = answer.next, !.query = searched]
<1>10. WithRows(g, kind, answer) = filled
  BY DEF WithRows, w, old, K, items
<1>11. searched \in Queries
  BY <1>5
<1> HIDE DEF searched
<1>12. filled \in GroupRec /\ filled.id = g.id /\ filled.rows = w
  BY <1>1, <1>8, <1>11 DEF GroupRec
<1> QED
  BY <1>9, <1>10, <1>12

-----------------------------------------------------------------------------
(* What is on its way to the list.                                          *)

ReadKeys == Tasks \X {"first", "more"}
ReadRec ==
  [q : Queries \cup {None}, from : Nat, limit : Nat, answer : PageOf(RowRec) \cup {None},
   kept : BOOLEAN]

\* A read that still finds its group is for the words of now; an answer is to the words of its
\* read.
ReadFound(read, words) ==
  /\ read.kept => read.q = words
  /\ read.answer # None => RowsFound(read.q, read.answer.items)
ReadsFound(rs, words) ==
  rs \in [ReadKeys -> ReadRec] /\ \A r \in ReadKeys : ReadFound(rs[r], words)

LoadFields == {"phase", "how", "q", "from", "limit", "answer", "batch"}
LoadFound(ld, held, away) ==
  /\ DOMAIN ld = LoadFields /\ ld.from \in Nat /\ ld.limit \in Nat
  /\ ld.phase \in {"asked", "answered"} => ld.q \in Queries
  /\ ld.phase = "answered" => /\ ld.answer \in PageOf(GroupRec)
                              /\ ListFound(ld.q, ld.answer.items, held, away)

\* The server never has a task twice; what is listed, loaded and read was found by the words
\* it was loaded and read for.
SearchInv ==
  /\ order \in Seq(Tasks) /\ IsInjective(order) /\ log \in [Tasks -> Seq(Statuses)]
  /\ query \in Queries /\ offset \in Nat
  /\ ListFound(query, list, log, gone)
  /\ LoadFound(load, log, gone)
  /\ ReadsFound(reads, query)

LEMMA DetachedFound ==
  ASSUME ReadsFound(reads, query), NEW tasks
  PROVE  ReadsFound(Detached(tasks), query)
<1> DEFINE rs == Detached(tasks)
<1>1. \A r \in ReadKeys : reads[r] \in ReadRec /\ ReadFound(reads[r], query)
  BY DEF ReadsFound
<1>2. rs = [r \in ReadKeys |-> [reads[r] EXCEPT !.kept = @ /\ r[1] \notin tasks]]
  BY DEF Detached, ReadsFound
<1>3. \A r \in ReadKeys : /\ rs[r] \in ReadRec /\ rs[r].q = reads[r].q /\ rs[r].answer = reads[r].answer
                          /\ rs[r].kept => reads[r].kept
  <2> HIDE DEF rs
  <2> TAKE r \in ReadKeys
  <2> PICK read : read = reads[r]
    OBVIOUS
  <2>1. read \in ReadRec
    BY <1>1
  <2>2. rs[r] = [read EXCEPT !.kept = @ /\ r[1] \notin tasks]
    BY <1>2
  <2>3. rs[r] \in ReadRec
    BY <2>1, <2>2 DEF ReadRec
  <2>4. rs[r].q = read.q /\ rs[r].answer = read.answer
    BY <2>1, <2>2 DEF ReadRec
  <2>5. rs[r].kept => read.kept
    BY <2>1, <2>2 DEF ReadRec
  <2> QED
    BY <2>3, <2>4, <2>5
<1> HIDE DEF rs
<1>4. \A r \in ReadKeys : ReadFound(rs[r], query)
  BY <1>1, <1>3 DEF ReadFound
<1>5. rs \in [ReadKeys -> ReadRec]
  BY <1>2, <1>3
<1> QED
  BY <1>4, <1>5 DEF ReadsFound, rs

\* When all groups are replaced the words may be.
LEMMA AllDetached ==
  ASSUME ReadsFound(reads, query), NEW words
  PROVE  ReadsFound(Detached(Tasks), words)
<1> DEFINE rs == Detached(Tasks)
<1>1. \A r \in ReadKeys : reads[r] \in ReadRec /\ ReadFound(reads[r], query) /\ r[1] \in Tasks
  BY DEF ReadsFound, ReadKeys
<1>2. rs = [r \in ReadKeys |-> [reads[r] EXCEPT !.kept = @ /\ r[1] \notin Tasks]]
  BY DEF Detached, ReadsFound
<1>3. \A r \in ReadKeys : /\ rs[r] \in ReadRec /\ rs[r].q = reads[r].q /\ rs[r].answer = reads[r].answer
                          /\ rs[r].kept = FALSE
  <2> HIDE DEF rs
  <2> TAKE r \in ReadKeys
  <2> PICK read : read = reads[r]
    OBVIOUS
  <2>1. read \in ReadRec /\ r[1] \in Tasks
    BY <1>1
  <2>2. rs[r] = [read EXCEPT !.kept = @ /\ r[1] \notin Tasks]
    BY <1>2
  <2>3. rs[r] \in ReadRec
    BY <2>1, <2>2 DEF ReadRec
  <2>4. rs[r].q = read.q /\ rs[r].answer = read.answer
    BY <2>1, <2>2 DEF ReadRec
  <2>5. rs[r].kept = FALSE
    BY <2>1, <2>2 DEF ReadRec
  <2> QED
    BY <2>3, <2>4, <2>5
<1> HIDE DEF rs
<1>4. \A r \in ReadKeys : ReadFound(rs[r], words)
  BY <1>1, <1>3 DEF ReadFound
<1>5. rs \in [ReadKeys -> ReadRec]
  BY <1>2, <1>3
<1> QED
  BY <1>4, <1>5 DEF ReadsFound, rs

LEMMA AskedFound ==
  ASSUME NEW rs, ReadsFound(rs, query), query \in Queries, NEW groups, NEW tasks
  PROVE  ReadsFound(Asked(groups, tasks, rs), query)
<1> DEFINE new == Asked(groups, tasks, rs)
           ask == [q |-> query, from |-> 0, limit |-> RowPage, answer |-> None, kept |-> TRUE]
<1>1. \A r \in ReadKeys : rs[r] \in ReadRec /\ ReadFound(rs[r], query)
  BY DEF ReadsFound
<1>2. DOMAIN rs = ReadKeys
  BY DEF ReadsFound
<1>3. DOMAIN new = ReadKeys /\ \A r \in ReadKeys : new[r] = ask \/ new[r] = rs[r]
  BY <1>2 DEF Asked
<1>4. RowPage \in Nat
  BY HistoryAssumption
<1>5. ask \in ReadRec /\ ReadFound(ask, query)
  BY <1>4 DEF ReadRec, ReadFound
<1>6. new = [r \in ReadKeys |-> new[r]]
  BY <1>2 DEF Asked
<1> HIDE DEF new, ask
<1>7. \A r \in ReadKeys : new[r] \in ReadRec /\ ReadFound(new[r], query)
  BY <1>1, <1>3, <1>5
<1> QED
  BY <1>6, <1>7 DEF ReadsFound, new

\* A load that begins has no answer yet.
LEMMA BegunFound ==
  ASSUME NEW how, NEW q \in Queries, NEW groups \in Seq(GroupRec), NEW from \in Nat,
         NEW held, NEW away
  PROVE  LoadFound(Begun(how, q, groups, from), held, away)
<1> DEFINE screen == IF from # 0 THEN from ELSE Len(groups)
           start == IF how = "append" THEN from ELSE 0
           limit == IF how = "quiet"
                    THEN Low(PageMax, IF screen > PageSize THEN screen ELSE PageSize)
                    ELSE PageSize
           ld == [Idle EXCEPT !.phase = "asked", !.how = how, !.q = q, !.from = start, !.limit = limit]
<1>1. PageSize \in Nat /\ PageMax \in Nat /\ screen \in Nat
  BY HistoryAssumption
<1>2. limit \in Nat /\ start \in Nat
  BY <1>1 DEF Low
<1>3. Begun(how, q, groups, from) = ld
  BY DEF Begun
<1> HIDE DEF limit, start
<1>4. DOMAIN Idle = LoadFields
  BY DEF Idle, LoadFields
<1>5. /\ DOMAIN ld = LoadFields /\ ld.from = start /\ ld.limit = limit /\ ld.q = q
      /\ ld.phase = "asked"
  BY <1>4 DEF LoadFields
<1> HIDE DEF ld
<1>6. LoadFound(ld, held, away)
  BY <1>2, <1>5 DEF LoadFound
<1> QED
  BY <1>3, <1>6

LEMMA IdleFound ==
  ASSUME NEW held, NEW away
  PROVE  LoadFound(Idle, held, away)
  BY DEF LoadFound, LoadFields, Idle

LEMMA SettledFound ==
  ASSUME SearchInv, NEW groups \in Seq(GroupRec), NEW from \in Nat, LoadSettles(groups, from),
         NEW held, NEW away
  PROVE  LoadFound(load', held, away)
  BY BegunFound, IdleFound DEF LoadSettles, SearchInv

LEMMA AskedToLoadFound ==
  ASSUME NEW how, NEW q \in Queries, NEW ld, NEW groups \in Seq(GroupRec), NEW from \in Nat,
         NEW held, NEW away, LoadFound(ld, held, away), AskedToLoad(how, q, ld, groups, from)
  PROVE  LoadFound(load', held, away)
  BY BegunFound DEF AskedToLoad

LEMMA DroppedFound ==
  ASSUME NEW held, NEW away, LoadFound(load, held, away)
  PROVE  LoadFound(Dropped, held, away)
<1> DEFINE ld == [load EXCEPT !.batch = {}]
<1>1. DOMAIN load = LoadFields
  BY DEF LoadFound
<1>2. /\ DOMAIN ld = LoadFields /\ ld.from = load.from /\ ld.limit = load.limit /\ ld.phase = load.phase
      /\ ld.q = load.q /\ ld.answer = load.answer
  BY <1>1 DEF LoadFields
<1> HIDE DEF ld
<1>3. LoadFound(ld, held, away)
  BY <1>2 DEF LoadFound
<1> QED
  BY <1>3 DEF Dropped, ld

LEMMA ToTopIs ==
  ASSUME order \in Seq(Tasks), IsInjective(order), NEW t \in Tasks
  PROVE  ToTop(t) \in Seq(Tasks) /\ IsInjective(ToTop(t))
<1> DEFINE S == Tasks \ {t}
           K == Keeping(order, S)
           w == <<t>> \o K
<1>1. \A m, n \in DOMAIN order : order[m] = order[n] => m = n
  BY DEF IsInjective
<1>2. /\ K \in Seq(Tasks) /\ \A n \in DOMAIN K : K[n] \in S
      /\ \A m, n \in DOMAIN K : K[m] = K[n] => m = n
  <2> HIDE DEF S
  <2> QED
    BY <1>1, KeepingIs
<1> HIDE DEF K
<1>3. /\ w \in Seq(Tasks)
      /\ \A i \in DOMAIN w : i \in Nat
      /\ \A i \in DOMAIN w : (i = 1 /\ w[i] = t) \/ (i - 1 \in DOMAIN K /\ w[i] = K[i - 1])
  BY <1>2
<1> HIDE DEF w
<1>4. \A m, n \in DOMAIN w : w[m] = w[n] => m = n
  <2> SUFFICES ASSUME NEW m \in DOMAIN w, NEW n \in DOMAIN w, w[m] = w[n] PROVE m = n
    OBVIOUS
  <2>1. CASE m = 1 /\ w[m] = t
    BY <2>1, <1>2, <1>3
  <2>2. CASE m - 1 \in DOMAIN K /\ w[m] = K[m - 1]
    <3>1. n - 1 \in DOMAIN K /\ w[n] = K[n - 1]
      BY <2>2, <1>2, <1>3
    <3>2. m - 1 = n - 1
      BY <2>2, <3>1, <1>2
    <3> QED
      BY <3>2, <1>3
  <2> QED
    BY <2>1, <2>2, <1>3
<1> QED
  BY <1>3, <1>4 DEF IsInjective, ToTop, w, K

LEMMA NewRead ==
  NoRead \in ReadRec /\ \A words : ReadFound(NoRead, words)
  BY DEF NoRead, ReadRec, ReadFound

LEMMA SearchInvInit == HistoryInit => SearchInv
<1> SUFFICES ASSUME HistoryInit PROVE SearchInv
  OBVIOUS
<1>1. order \in Seq(Tasks) /\ IsInjective(order) /\ log \in [Tasks -> Seq(Statuses)]
  BY HistoryAssumption DEF HistoryInit
<1>2. query \in Queries /\ offset \in Nat /\ query = Everything
  BY DEF HistoryInit, Queries
<1>3. ListFound(query, list, log, gone)
  BY DEF HistoryInit, ListFound, Once
<1>4. LoadFound(load, log, gone)
  <2>1. load = Begun("plain", query, <<>>, 0)
    BY <1>2 DEF HistoryInit
  <2>2. <<>> \in Seq(GroupRec)
    OBVIOUS
  <2> QED
    BY <2>1, <2>2, <1>2, BegunFound
<1>5. ReadsFound(reads, query)
  <2>1. reads = [r \in ReadKeys |-> NoRead]
    BY DEF HistoryInit, ReadKeys
  <2> QED
    BY <2>1, NewRead DEF ReadsFound
<1> QED
  BY <1>1, <1>2, <1>3, <1>4, <1>5 DEF SearchInv

LEMMA LoadStaysFound ==
  ASSUME LoadFound(load, log, gone), log \in [Tasks -> Seq(Statuses)],
         NEW held, NEW away,
         \A t \in Tasks : t \notin away => t \notin gone /\ DOMAIN log[t] \subseteq DOMAIN held[t]
  PROVE  LoadFound(load, held, away)
  BY StaysFound DEF LoadFound

\* A step of the server that changes nothing at the page
LEMMA ServerKeepsFound ==
  ASSUME SearchInv, UNCHANGED browser,
         order' \in Seq(Tasks), IsInjective(order'), log' \in [Tasks -> Seq(Statuses)],
         \A t \in Tasks : t \notin gone' => t \notin gone /\ DOMAIN log[t] \subseteq DOMAIN log'[t]
  PROVE  SearchInv'
<1>1. UNCHANGED <<list, offset, query, load, reads>>
  BY DEF browser, listed
<1>2. ListFound(query, list, log', gone') /\ LoadFound(load, log', gone')
  BY StaysFound, LoadStaysFound DEF SearchInv
<1> QED
  BY <1>1, <1>2 DEF SearchInv

LEMMA RequestBeginsKeeps ==
  ASSUME SearchInv, NEW t \in Tasks, RequestBegins(t)
  PROVE  SearchInv'
<1>1. log \in [Tasks -> Seq(Statuses)] /\ log' = [log EXCEPT ![t] = Append(@, "pending")]
      /\ order' = ToTop(t) /\ gone' = gone /\ UNCHANGED browser
  BY DEF SearchInv, RequestBegins
<1>2. order' \in Seq(Tasks) /\ IsInjective(order')
  BY <1>1, ToTopIs DEF SearchInv
<1>3. log' \in [Tasks -> Seq(Statuses)]
  BY <1>1 DEF Statuses
<1>4. \A u \in Tasks : DOMAIN log[u] \subseteq DOMAIN log'[u]
  <2> TAKE u \in Tasks
  <2>1. log[u] \in Seq(Statuses)
    BY <1>1
  <2>2. DOMAIN Append(log[u], "pending") = 1 .. Len(log[u]) + 1 /\ DOMAIN log[u] = 1 .. Len(log[u])
        /\ Len(log[u]) \in Nat
    BY <2>1
  <2>3. CASE u = t
    BY <1>1, <2>2, <2>3
  <2>4. CASE u # t
    BY <1>1, <2>4
  <2> QED
    BY <2>3, <2>4
<1> QED
  BY <1>1, <1>2, <1>3, <1>4, ServerKeepsFound

LEMMA RequestEndsKeeps ==
  ASSUME SearchInv, NEW t \in Tasks, RequestEnds(t)
  PROVE  SearchInv'
<1>1. PICK i \in DOMAIN log[t] : log' = [log EXCEPT ![t][i] = "finished"]
  BY DEF RequestEnds
<1>2. log \in [Tasks -> Seq(Statuses)]
      /\ order' = ToTop(t) /\ gone' = gone /\ UNCHANGED browser
  BY DEF SearchInv, RequestEnds
<1>3. order' \in Seq(Tasks) /\ IsInjective(order')
  BY <1>2, ToTopIs DEF SearchInv
<1> DEFINE s == [log[t] EXCEPT ![i] = "finished"]
<1>4. s \in Seq(Statuses) /\ DOMAIN s = DOMAIN log[t]
  BY <1>2 DEF Statuses
<1>5. log' = [log EXCEPT ![t] = s]
  BY <1>1
<1> HIDE DEF s
<1>6. log' \in [Tasks -> Seq(Statuses)] /\ \A u \in Tasks : DOMAIN log[u] \subseteq DOMAIN log'[u]
  BY <1>2, <1>4, <1>5
<1> QED
  BY <1>2, <1>3, <1>6, ServerKeepsFound

LEMMA CleanServedKeeps ==
  ASSUME SearchInv, CleanServed
  PROVE  SearchInv'
<1> DEFINE S == Tasks \ clean.ids
           K == Keeping(order, S)
<1>1. /\ order' = K /\ log' = [t \in Tasks |-> IF t \in clean.ids THEN <<>> ELSE log[t]]
      /\ gone' = gone \cup clean.ids /\ UNCHANGED browser
  BY DEF CleanServed
<1>2. order \in Seq(Tasks) /\ (\A m, n \in DOMAIN order : order[m] = order[n] => m = n)
      /\ log \in [Tasks -> Seq(Statuses)]
  BY DEF SearchInv, IsInjective
<1>3. K \in Seq(Tasks) /\ \A m, n \in DOMAIN K : K[m] = K[n] => m = n
  <2> HIDE DEF S
  <2> QED
    BY <1>2, KeepingIs
<1> HIDE DEF K
<1>4. order' \in Seq(Tasks) /\ IsInjective(order')
  BY <1>1, <1>3 DEF IsInjective
<1>5. log' \in [Tasks -> Seq(Statuses)]
  BY <1>1, <1>2
<1>6. \A t \in Tasks : t \notin gone' => t \notin gone /\ DOMAIN log[t] \subseteq DOMAIN log'[t]
  BY <1>1
<1> QED
  BY <1>1, <1>4, <1>5, <1>6, ServerKeepsFound

\* A step that leaves the server alone, and the words: what is to be shown of it
LEMMA PageKeeps ==
  ASSUME SearchInv, UNCHANGED <<logged, query>>, offset' \in Nat,
         ListFound(query, list', log, gone), LoadFound(load', log, gone), ReadsFound(reads', query)
  PROVE  SearchInv'
  BY DEF SearchInv, logged

\* A load that goes on to its sweep, or to its end, has no answer that could be listed.
LEMMA LoadGoesOn ==
  ASSUME NEW held, NEW away, LoadFound(load, held, away), NEW ld, DOMAIN ld = LoadFields,
         ld.from = load.from, ld.limit = load.limit, ld.phase \notin {"asked", "answered"}
  PROVE  LoadFound(ld, held, away)
  BY DEF LoadFound

-----------------------------------------------------------------------------
(* Steps of the page.                                                       *)

LEMMA ReadServedKeeps ==
  ASSUME SearchInv, NEW r \in ReadKeys, ReadServed(r)
  PROVE  SearchInv'
<1> DEFINE read == reads[r]
           answer == Page(RecordsOf(read.q, r[1]), read.limit, read.from)
           held == RecordsOf(read.q, r[1])
           new == [read EXCEPT !.answer = answer]
<1>1. UNCHANGED <<logged, query, list, offset, load>> /\ reads' = [reads EXCEPT ![r] = new]
  BY DEF ReadServed, listed
<1>2. /\ \A o \in ReadKeys : reads[o] \in ReadRec /\ ReadFound(reads[o], query)
      /\ reads \in [ReadKeys -> ReadRec] /\ log \in [Tasks -> Seq(Statuses)] /\ r[1] \in Tasks
  BY DEF SearchInv, ReadsFound, ReadKeys
<1>3. read \in ReadRec
  BY <1>2
<1>4. read.limit \in Nat /\ read.from \in Nat
  BY <1>3 DEF ReadRec
<1> HIDE DEF read
<1>5. held \in Seq(RowRec) /\ RowsFound(read.q, held)
  BY <1>2, RecordsOfIs
<1>6. answer = Page(held, read.limit, read.from)
  OBVIOUS
<1> HIDE DEF answer, held
<1>7. /\ answer \in PageOf(RowRec) /\ Once(answer.items)
      /\ \A i \in DOMAIN answer.items : \E n \in DOMAIN held : answer.items[i] = held[n]
  BY <1>4, <1>5, <1>6, PageIs, PageOnce DEF RowsFound
<1>8. RowsFound(read.q, answer.items)
  BY <1>5, <1>7 DEF RowsFound
<1>9. new \in ReadRec /\ new.q = read.q /\ new.kept = read.kept /\ new.answer = answer
  BY <1>3, <1>7 DEF ReadRec
<1> HIDE DEF new
<1>10. ReadFound(new, query)
  BY <1>2, <1>8, <1>9 DEF ReadFound, read
<1>11. ReadsFound(reads', query)
  BY <1>1, <1>2, <1>9, <1>10 DEF ReadsFound
<1> QED
  BY <1>1, <1>11, PageKeeps DEF SearchInv

LEMMA ReadFailsKeeps ==
  ASSUME SearchInv, NEW r \in ReadKeys, ReadFails(r)
  PROVE  SearchInv'
<1>1. UNCHANGED <<logged, query, list, offset, load>> /\ reads' = [reads EXCEPT ![r] = NoRead]
  BY DEF ReadFails, listed
<1>2. ReadsFound(reads', query)
  BY <1>1, NewRead DEF SearchInv, ReadsFound
<1> QED
  BY <1>1, <1>2, PageKeeps DEF SearchInv

LEMMA ReadArrivesKeeps ==
  ASSUME SearchInv, NEW r \in ReadKeys, ReadArrives(r)
  PROVE  SearchInv'
<1> DEFINE read == reads[r]
           filled == [i \in DOMAIN list |->
                       IF list[i].id = r[1] THEN WithRows(list[i], r[2], read.answer) ELSE list[i]]
           swept == [load EXCEPT !.batch = {b \in @ : b[1] # r[1]}]
<1>1. /\ UNCHANGED <<logged, query, offset>> /\ reads' = [reads EXCEPT ![r] = NoRead]
      /\ read.answer # None
      /\ list' = IF ~read.kept THEN list ELSE filled
      /\ load' = IF read.kept /\ r[2] = "first" THEN swept ELSE load
  BY DEF ReadArrives
<1>2. read \in ReadRec /\ ReadFound(read, query)
  BY DEF SearchInv, ReadsFound
<1> HIDE DEF read
<1>3. ReadsFound(reads', query)
  BY <1>1, NewRead DEF SearchInv, ReadsFound
<1>4. LoadFound(load', log, gone)
  <2>0. LoadFound(load, log, gone) /\ DOMAIN load = LoadFields
    BY DEF SearchInv, LoadFound
  <2>1. /\ DOMAIN swept = LoadFields /\ swept.from = load.from /\ swept.limit = load.limit
        /\ swept.phase = load.phase /\ swept.q = load.q /\ swept.answer = load.answer
    BY <2>0 DEF LoadFields
  <2> HIDE DEF swept
  <2>2. LoadFound(swept, log, gone)
    BY <2>0, <2>1 DEF LoadFound
  <2> QED
    BY <2>0, <2>2, <1>1
<1>5. ListFound(query, list, log, gone) /\ query \in Queries
  BY DEF SearchInv
<1>6. CASE read.kept
  <2>1. read.answer \in PageOf(RowRec) /\ RowsFound(query, read.answer.items)
    BY <1>1, <1>2, <1>6 DEF ReadRec, ReadFound
  <2>2. \A i \in DOMAIN list : list[i] \in GroupRec /\ RowsFound(query, list[i].rows)
    BY <1>5 DEF ListFound
  <2>3. \A i \in DOMAIN list : /\ filled[i] \in GroupRec /\ filled[i].id = list[i].id
                               /\ RowsFound(query, filled[i].rows)
    BY <1>5, <2>1, <2>2, WithRowsFound
  <2>4. DOMAIN filled = DOMAIN list /\ filled = [i \in DOMAIN list |-> filled[i]]
    OBVIOUS
  <2> HIDE DEF filled
  <2>5. ListFound(query, filled, log, gone)
    BY <1>5, <2>3, <2>4, RowsChanged
  <2> QED
    BY <2>5, <1>1, <1>3, <1>4, <1>6, PageKeeps DEF SearchInv
<1>7. CASE ~read.kept
  BY <1>1, <1>3, <1>4, <1>5, <1>7, PageKeeps DEF SearchInv
<1> QED
  BY <1>6, <1>7

LEMMA ListTakenKeeps ==
  ASSUME SearchInv, load.phase = "answered", load.q = query, ListTaken
  PROVE  SearchInv'
<1> DEFINE page == load.answer
           append == load.how = "append"
           changed == lastQuery # query \/ ~SameGroups(list, page.items)
           keep == load.how = "quiet" /\ page.more
           groups == IF append THEN Appended(list, page.items)
                     ELSE IF changed THEN Merged(list, page.items, keep) ELSE list
           tasks == IF keep THEN Ids(page.items) ELSE Tasks
           fresh == IF append THEN Detached(Ids(list)) ELSE IF changed THEN Detached(tasks) ELSE reads
           wanted == {t \in expanded \cap Ids(groups) : ~Named(groups, t).loaded}
           batch == LET those == PendingRows(groups)
                        n == Len(those)
                        size == Low(Batch, n)
                        start == IF n = 0 THEN 0 ELSE cursor % n
                    IN {those[((start + k) % n) + 1].id : k \in 0 .. size - 1}
           ld == [load EXCEPT !.answer = None, !.batch = batch,
                              !.phase = IF batch = {} THEN "closing" ELSE "sweeping"]
<1>1. /\ list' = groups
      /\ offset' = IF ~append /\ changed /\ keep THEN Len(groups)
                   ELSE IF page.next # 0 THEN page.next ELSE Len(list)
      /\ reads' = IF ~append /\ changed THEN Asked(groups, wanted, fresh) ELSE fresh
      /\ load' = ld /\ UNCHANGED <<logged, query>>
  BY DEF ListTaken, SweepOf
<1>2. /\ page \in PageOf(GroupRec) /\ ListFound(query, page.items, log, gone)
      /\ ListFound(query, list, log, gone) /\ query \in Queries /\ DOMAIN load = LoadFields
      /\ ReadsFound(reads, query) /\ LoadFound(load, log, gone)
  BY DEF SearchInv, LoadFound
<1> HIDE DEF batch, keep, changed, wanted, tasks, page, append
<1>3. ListFound(query, groups, log, gone)
  BY <1>2, AppendedFound, MergedFound
<1>4. groups \in Seq(GroupRec) /\ list \in Seq(GroupRec)
  BY <1>2, <1>3 DEF ListFound
<1> HIDE DEF groups
<1>5. offset' \in Nat
  BY <1>1, <1>2, <1>4 DEF PageOf
<1>6. ReadsFound(fresh, query)
  BY <1>2, DetachedFound
<1> HIDE DEF fresh
<1>7. ReadsFound(reads', query)
  BY <1>1, <1>2, <1>6, AskedFound
<1>8. LoadFound(ld, log, gone)
  <2>1. /\ DOMAIN ld = LoadFields /\ ld.from = load.from /\ ld.limit = load.limit
        /\ ld.phase \in {"closing", "sweeping"}
    BY <1>2 DEF LoadFields
  <2> HIDE DEF ld
  <2> QED
    BY <2>1, <1>2, LoadGoesOn
<1> HIDE DEF ld
<1> QED
  BY <1>1, <1>3, <1>5, <1>7, <1>8, PageKeeps

LEMMA SettlesKeeps ==
  ASSUME SearchInv, LoadSettles(list, offset), UNCHANGED <<logged, query, list, offset, reads>>
  PROVE  SearchInv'
<1>1. list \in Seq(GroupRec) /\ offset \in Nat
  BY DEF SearchInv, ListFound
<1>2. LoadFound(load', log, gone)
  BY <1>1, SettledFound
<1> QED
  BY <1>2, PageKeeps DEF SearchInv

LEMMA ListServedKeeps ==
  ASSUME SearchInv, ListServed
  PROVE  SearchInv'
<1> DEFINE answer == GroupPage(load.q, load.limit, load.from)
           ld == [load EXCEPT !.phase = "answered", !.answer = answer]
<1>1. UNCHANGED <<logged, query, list, offset, reads>> /\ load' = ld /\ load.phase = "asked"
  BY DEF ListServed, listed
<1>2. DOMAIN load = LoadFields /\ load.from \in Nat /\ load.limit \in Nat /\ load.q \in Queries
  BY <1>1 DEF SearchInv, LoadFound
<1>3. answer \in PageOf(GroupRec) /\ ListFound(load.q, answer.items, log, gone)
  BY <1>2, GroupPageIs DEF SearchInv
<1> HIDE DEF answer
<1>4. /\ DOMAIN ld = LoadFields /\ ld.from = load.from /\ ld.limit = load.limit /\ ld.q = load.q
      /\ ld.answer = answer
  BY <1>2 DEF LoadFields
<1> HIDE DEF ld
<1>5. LoadFound(ld, log, gone)
  BY <1>2, <1>3, <1>4 DEF LoadFound
<1> QED
  BY <1>1, <1>5, PageKeeps DEF SearchInv

LEMMA SweepServedKeeps ==
  ASSUME SearchInv, SweepServed \/ SweepFails
  PROVE  SearchInv'
<1>1. UNCHANGED <<logged, query, list, offset, reads>>
  BY DEF SweepServed, SweepFails, listed
<1>2. DOMAIN load = LoadFields /\ LoadFound(load, log, gone)
  BY DEF SearchInv, LoadFound
<1>3. /\ DOMAIN load' = LoadFields /\ load'.from = load.from /\ load'.limit = load.limit
      /\ load'.phase \in {"swept", "closing"}
  <2>1. CASE SweepServed
    <3> DEFINE answer == {b \in load.batch : b[1] \notin gone /\ log[b[1]][b[2]] = "finished"}
    <3>1. load' = [load EXCEPT !.phase = "swept", !.answer = answer]
      BY <2>1 DEF SweepServed
    <3> HIDE DEF answer
    <3> QED
      BY <3>1, <1>2 DEF LoadFields
  <2>2. CASE SweepFails
    BY <2>2, <1>2 DEF SweepFails, LoadFields
  <2> QED
    BY <2>1, <2>2
<1>4. LoadFound(load', log, gone)
  BY <1>2, <1>3, LoadGoesOn
<1> QED
  BY <1>1, <1>4, PageKeeps DEF SearchInv

LEMMA SweepArrivesKeeps ==
  ASSUME SearchInv, SweepArrives
  PROVE  SearchInv'
<1> DEFINE done(r) == r.id \in load.answer \cap load.batch
           settled(those) ==
             [k \in DOMAIN those |-> IF done(those[k]) THEN [those[k] EXCEPT !.status = "finished"]
                                    ELSE those[k]]
           f == [i \in DOMAIN list |-> [list[i] EXCEPT !.rows = settled(@)]]
           ld == [load EXCEPT !.phase = "closing", !.answer = None, !.batch = {}]
<1>1. UNCHANGED <<logged, query, offset, reads>> /\ list' = f /\ load' = ld
  BY DEF SweepArrives
<1>2. /\ ListFound(query, list, log, gone) /\ LoadFound(load, log, gone)
      /\ DOMAIN load = LoadFields
  BY DEF SearchInv, LoadFound
<1>3. \A i \in DOMAIN list : list[i] \in GroupRec /\ RowsFound(query, list[i].rows)
  BY <1>2 DEF ListFound
<1>4. ASSUME NEW i \in DOMAIN list
      PROVE  f[i] \in GroupRec /\ f[i].id = list[i].id /\ RowsFound(query, f[i].rows)
  <2> DEFINE those == list[i].rows
             new == settled(those)
  <2>1. those \in Seq(RowRec) /\ RowsFound(query, those) /\ list[i] \in GroupRec
    BY <1>3 DEF GroupRec
  <2>2. f[i] = [list[i] EXCEPT !.rows = new]
    OBVIOUS
  <2> HIDE DEF those
  <2>3. \A k \in DOMAIN those : those[k] \in RowRec
    BY <2>1
  <2>4. \A k \in DOMAIN those : new[k] \in RowRec /\ new[k].id = those[k].id
    BY <2>3 DEF RowRec, Statuses
  <2>5. DOMAIN new = DOMAIN those /\ new = [k \in DOMAIN those |-> new[k]]
    OBVIOUS
  <2> HIDE DEF new, f
  <2>6. new \in Seq(RowRec)
    BY <2>1, <2>4, <2>5, MappedSeq
  <2>7. RowsFound(query, new)
    BY <2>1, <2>4, <2>5 DEF RowsFound, Once
  <2>8. f[i] \in GroupRec /\ f[i].id = list[i].id /\ f[i].rows = new
    BY <2>1, <2>2, <2>6 DEF GroupRec
  <2> QED
    BY <2>7, <2>8
<1>5. DOMAIN f = DOMAIN list /\ f = [i \in DOMAIN list |-> f[i]]
  OBVIOUS
<1> HIDE DEF f
<1>6. ListFound(query, f, log, gone)
  BY <1>2, <1>4, <1>5, RowsChanged
<1>7. LoadFound(ld, log, gone)
  <2>1. /\ DOMAIN ld = LoadFields /\ ld.from = load.from /\ ld.limit = load.limit
        /\ ld.phase = "closing"
    BY <1>2 DEF LoadFields
  <2> HIDE DEF ld
  <2> QED
    BY <2>1, <1>2, LoadGoesOn
<1> HIDE DEF ld
<1> QED
  BY <1>1, <1>6, <1>7, PageKeeps DEF SearchInv

LEMMA WishKeeps ==
  ASSUME SearchInv, NEW how, AskedToLoad(how, query, load, list, offset),
         UNCHANGED <<logged, query, list, offset, reads>>
  PROVE  SearchInv'
<1>1. list \in Seq(GroupRec) /\ offset \in Nat /\ query \in Queries /\ LoadFound(load, log, gone)
  BY DEF SearchInv, ListFound
<1>2. LoadFound(load', log, gone)
  BY <1>1, AskedToLoadFound
<1> QED
  BY <1>2, PageKeeps DEF SearchInv

LEMMA EmptyFound ==
  ASSUME NEW q, NEW held, NEW away
  PROVE  <<>> \in Seq(GroupRec) /\ ListFound(q, <<>>, held, away)
  BY DEF ListFound, Once

LEMMA SearchKeeps ==
  ASSUME SearchInv, NEW q \in Queries, Search(q)
  PROVE  SearchInv'
<1>1. /\ query' = q /\ list' = <<>> /\ offset' = 0 /\ reads' = Detached(Tasks) /\ UNCHANGED logged
      /\ AskedToLoad("search", q, Dropped, <<>>, 0)
  BY DEF Search
<1>2. LoadFound(Dropped, log, gone)
  BY DroppedFound DEF SearchInv
<1>3. LoadFound(load', log, gone)
  BY <1>1, <1>2, EmptyFound, AskedToLoadFound
<1>4. ReadsFound(reads', q)
  BY <1>1, AllDetached DEF SearchInv
<1> QED
  BY <1>1, <1>3, <1>4, EmptyFound DEF SearchInv, logged

LEMMA CleanArrivesKeeps ==
  ASSUME SearchInv, CleanArrives
  PROVE  SearchInv'
<1>1. /\ query' = query /\ list' = <<>> /\ offset' = 0 /\ reads' = Detached(Tasks) /\ UNCHANGED logged
      /\ AskedToLoad("plain", query, Dropped, <<>>, 0)
  BY DEF CleanArrives
<1>2. LoadFound(Dropped, log, gone)
  BY DroppedFound DEF SearchInv
<1>3. LoadFound(load', log, gone)
  BY <1>1, <1>2, EmptyFound, AskedToLoadFound DEF SearchInv
<1>4. ReadsFound(reads', query)
  BY <1>1, AllDetached DEF SearchInv
<1> QED
  BY <1>1, <1>3, <1>4, EmptyFound DEF SearchInv, logged

LEMMA RowsAskedKeeps ==
  ASSUME SearchInv, NEW t \in Tasks, Expand(t) \/ Collapse(t) \/ MoreRows(t)
  PROVE  SearchInv'
<1>1. UNCHANGED <<logged, query, list, offset, load>>
  BY DEF Expand, Collapse, MoreRows, listed
<1>2. CASE Expand(t)
  <2>1. ReadsFound(reads', query)
    BY <1>2, AskedFound DEF Expand, SearchInv
  <2> QED
    BY <1>1, <2>1, PageKeeps DEF SearchInv
<1>3. CASE Collapse(t)
  BY <1>1, <1>3, PageKeeps DEF Collapse, SearchInv
<1>4. CASE MoreRows(t)
  <2> DEFINE g == Named(list, t)
             ask == [q |-> query, from |-> g.next, limit |-> MorePage, answer |-> None, kept |-> TRUE]
  <2>1. t \in Ids(list) /\ reads' = [reads EXCEPT ![<<t, "more">>] = ask]
    BY <1>4 DEF MoreRows
  <2>2. g \in GroupRec
    BY <2>1, NamedIs DEF SearchInv, ListFound
  <2>3. g.next \in Nat /\ MorePage \in Nat
    BY <2>2, HistoryAssumption DEF GroupRec
  <2> HIDE DEF g
  <2>4. ask \in ReadRec /\ ReadFound(ask, query)
    BY <2>3 DEF ReadRec, ReadFound, SearchInv
  <2> HIDE DEF ask
  <2>5. ReadsFound(reads', query)
    BY <2>1, <2>4 DEF ReadsFound, SearchInv
  <2> QED
    BY <1>1, <2>5, PageKeeps DEF SearchInv
<1> QED
  BY <1>2, <1>3, <1>4

LEMMA OthersKeep ==
  ASSUME SearchInv, \/ SwitchRefresh \/ CleanSingles \/ ScanPage \/ UNCHANGED historyVars
                     \/ \E t \in Tasks : CleanChosen(t)
  PROVE  SearchInv'
<1>1. UNCHANGED <<logged, query, list, offset, load, reads>>
  BY DEF SwitchRefresh, CleanSingles, ScanPage, historyVars, CleanChosen, browser, listed
<1> QED
  BY <1>1, PageKeeps DEF SearchInv

LEMMA AnswersKeep == SearchInv /\ (Answered \/ ListFails \/ SweepFails) => SearchInv'
<1> SUFFICES ASSUME SearchInv, Answered \/ ListFails \/ SweepFails PROVE SearchInv'
  OBVIOUS
<1>1. CASE ListServed
  BY <1>1, ListServedKeeps
<1>2. CASE LateListArrives \/ LoadCloses \/ ListFails
  BY <1>2, SettlesKeeps DEF LateListArrives, LoadCloses, ListFails, listed
<1>3. CASE ListArrives
  BY <1>3, ListTakenKeeps DEF ListArrives
<1>4. CASE SweepServed \/ SweepFails
  BY <1>4, SweepServedKeeps
<1>5. CASE SweepArrives
  BY <1>5, SweepArrivesKeeps
<1>6. CASE TimerFires
  BY <1>6, WishKeeps DEF TimerFires, listed
<1>7. CASE ScanPage
  BY <1>7, OthersKeep
<1>8. CASE CleanServed
  BY <1>8, CleanServedKeeps
<1>9. CASE CleanArrives
  BY <1>9, CleanArrivesKeeps
<1> QED
  BY <1>1, <1>2, <1>3, <1>4, <1>5, <1>6, <1>7, <1>8, <1>9 DEF Answered

LEMMA UserKeeps == SearchInv /\ UserActs => SearchInv'
<1> SUFFICES ASSUME SearchInv, UserActs PROVE SearchInv'
  OBVIOUS
<1>1. CASE Refresh \/ LoadMore
  BY <1>1, WishKeeps DEF Refresh, LoadMore, listed
<1>2. CASE SwitchRefresh \/ CleanSingles \/ \E t \in Tasks : CleanChosen(t)
  BY <1>2, OthersKeep
<1>3. CASE \E q \in Queries : Search(q)
  BY <1>3, SearchKeeps
<1>4. CASE \E t \in Tasks : Expand(t) \/ Collapse(t) \/ MoreRows(t)
  BY <1>4, RowsAskedKeeps
<1> QED
  BY <1>1, <1>2, <1>3, <1>4 DEF UserActs, Queries

\* Requests come in, tasks move to the top and are cleaned up, answers are late, and the words
\* change: what is listed, once, was found by the words that are searched for now.
THEOREM ListIsOfTheSearch == HistorySpec => []ListAnswersTheSearch
<1>1. SearchInv /\ [HistoryNext]_historyVars => SearchInv'
  <2> SUFFICES ASSUME SearchInv, [HistoryNext]_historyVars PROVE SearchInv'
    OBVIOUS
  <2>1. CASE LogGoesOn
    BY <2>1, RequestBeginsKeeps, RequestEndsKeeps DEF LogGoesOn
  <2>2. CASE Answered \/ ListFails \/ SweepFails
    BY <2>2, AnswersKeep
  <2>3. CASE UserActs
    BY <2>3, UserKeeps
  <2>4. ASSUME NEW r \in ReadKeys, ReadServed(r) \/ ReadArrives(r) \/ ReadFails(r)
        PROVE  SearchInv'
    BY <2>4, ReadServedKeeps, ReadArrivesKeeps, ReadFailsKeeps
  <2>5. CASE UNCHANGED historyVars
    BY <2>5, OthersKeep
  <2> QED
    BY <2>1, <2>2, <2>3, <2>4, <2>5 DEF HistoryNext, ReadKeys
<1>2. SearchInv => ListAnswersTheSearch
  <2> SUFFICES ASSUME SearchInv PROVE ListAnswersTheSearch
    OBVIOUS
  <2>1. ListFound(query, list, log, gone)
    BY DEF SearchInv
  <2>2. NothingIsListedTwice
    BY <2>1 DEF NothingIsListedTwice, ListFound, Once, RowsFound
  <2> QED
    BY <2>1, <2>2 DEF ListAnswersTheSearch, ListFound, Live, RowsFound
<1> QED
  BY SearchInvInit, <1>1, <1>2, PTL DEF HistorySpec
=============================================================================
