------------------------- MODULE LoadBalancer_proofs -------------------------
(***************************************************************************)
(* For any number of concurrent requests, nodes, tasks and configurations: *)
(* both in-flight counts of the balancer equal the reservations that are   *)
(* out, through failover, abort, eviction, reload and stop.                *)
(***************************************************************************)
EXTENDS LoadBalancer, FiniteSetTheorems, TLAPS

Fields == {"up", "cfg", "rev", "retired", "b", "rv", "nextInc", "act", "resv",
           "cooling", "asleep", "ops"}

\* What every step of the balancer keeps about the balancer's own record.
BalancerShape(s) ==
  /\ Fields \subseteq DOMAIN s
  /\ s.cfg \in Configs
  /\ s.nextInc \in Nat \ {0}
  /\ DOMAIN s.b \subseteq Incs
  /\ \A i \in DOMAIN s.b : {"task", "target", "named"} \subseteq DOMAIN s.b[i] /\ s.b[i].target \in Targets
  /\ \A i \in DOMAIN s.act : s.act[i] \in Nat
  /\ s.resv \in [Targets -> Nat]

\* A reservation names a binding and a node, or there is none.
HoldShape(h) == h = NoHold \/ (h.inc \in Incs /\ h.target \in Targets)

\* LedgerCountsHolders of a balancer and of reservations passed around as values.
Ledger(s, hd) ==
  /\ \A i \in Incs : InFlight(s, i) =
       IF s.up THEN Cardinality({r \in Requests : hd[r].inc = i}) ELSE 0
  /\ \A n \in Targets : s.resv[n] =
       IF s.up THEN Cardinality({r \in Requests : hd[r].target = n}) ELSE 0

\* The counts are inductive once it is known which handlers hold a reservation.
LedgerInv ==
  /\ BalancerShape(lb)
  /\ DOMAIN hold = Requests /\ \A r \in Requests : HoldShape(hold[r])
  /\ DOMAIN req = Requests /\ \A r \in Requests : "pc" \in DOMAIN req[r]
  /\ \A r \in Requests : req[r].pc \in {"idle", "reading"} => hold[r] = NoHold
  /\ \A r \in Requests : req[r].pc = "opening" => hold[r] # NoHold
  /\ Ledger(lb, hold)

-----------------------------------------------------------------------------
(* Counting.                                                               *)

LEMMA NoHoldNamesNothing ==
  ASSUME BalancerAssumption
  PROVE  NoHold.inc \notin Incs /\ NoHold.target \notin Targets
  BY DEF BalancerAssumption, NoHold, Incs, None

\* One handler joining or leaving a set of handlers changes its size by one.
LEMMA CountOne ==
  ASSUME BalancerAssumption, NEW H \in SUBSET Requests, NEW H2 \in SUBSET Requests,
         NEW r \in Requests, H2 \ {r} = H \ {r}
  PROVE  /\ Cardinality(H) \in Nat /\ Cardinality(H2) \in Nat
         /\ r \in H /\ r \notin H2 => Cardinality(H2) = Cardinality(H) - 1
         /\ r \notin H /\ r \in H2 => Cardinality(H2) = Cardinality(H) + 1
         /\ (r \in H <=> r \in H2) => H2 = H
<1>1. IsFiniteSet(H) /\ IsFiniteSet(H2)
  BY FS_Subset DEF BalancerAssumption
<1>2. Cardinality(H) \in Nat /\ Cardinality(H2) \in Nat
  BY <1>1, FS_CardinalityType
<1>3. CASE r \in H /\ r \notin H2
  <2>1. H2 = H \ {r}
    BY <1>3
  <2> QED
    BY <1>1, <1>2, <1>3, <2>1, FS_RemoveElement
<1>4. CASE r \notin H /\ r \in H2
  <2>1. H2 = H \cup {r}
    BY <1>4
  <2>2. Cardinality(H2) = Cardinality(H) + 1
    BY <1>1, <1>4, <2>1, FS_AddElement
  <2> QED
    BY <1>2, <1>4, <2>2
<1>5. CASE r \in H <=> r \in H2
  <2>1. H2 = H
    BY <1>5
  <2> QED
    BY <1>2, <1>5, <2>1
<1> QED
  BY <1>3, <1>4, <1>5

\* A step that leaves both counts and the switch alone keeps the ledger.
SameLedger(s, u) == u.up = s.up /\ u.act = s.act /\ u.resv = s.resv

LEMMA SameLedgerKeeps ==
  ASSUME NEW s, NEW u, NEW hd, Ledger(s, hd), SameLedger(s, u)
  PROVE  Ledger(u, hd)
  BY DEF Ledger, SameLedger, InFlight

\* reserve() and begin() count one more where the new holder is.
LEMMA ReserveLedger ==
  ASSUME BalancerAssumption, NEW s, NEW hd, NEW r \in Requests, NEW h,
         BalancerShape(s), s.up, Ledger(s, hd), DOMAIN hd = Requests,
         hd[r] = NoHold, h.inc \in Incs, h.target \in Targets
  PROVE  /\ BalancerShape(Reserve(s, h))
         /\ Ledger(Reserve(s, h), [hd EXCEPT ![r] = h])
<1> DEFINE hd2 == [hd EXCEPT ![r] = h]
           u == Reserve(s, h)
<1>1. /\ u.up = s.up /\ u.b = s.b /\ u.cfg = s.cfg /\ u.nextInc = s.nextInc
      /\ Fields \subseteq DOMAIN u
      /\ u.resv = [s.resv EXCEPT ![h.target] = @ + 1]
      /\ u.act = Put(s.act, h.inc, InFlight(s, h.inc) + 1)
  BY DEF BalancerShape, Reserve, Fields
<1>2. \A i \in Incs : InFlight(s, i) \in Nat
  BY DEF BalancerShape, InFlight
<1>3. BalancerShape(u)
  BY <1>1, <1>2 DEF BalancerShape, Put
<1>4. \A i \in Incs : InFlight(u, i) = IF i = h.inc THEN InFlight(s, i) + 1 ELSE InFlight(s, i)
  BY <1>1 DEF InFlight, Put
<1>5. \A n \in Targets : u.resv[n] = IF n = h.target THEN s.resv[n] + 1 ELSE s.resv[n]
  BY <1>1 DEF BalancerShape
<1>6. \A q \in Requests : hd2[q] = IF q = r THEN h ELSE hd[q]
  OBVIOUS
<1> HIDE DEF hd2, u
<1>7. ASSUME NEW i \in Incs
      PROVE  InFlight(u, i) = Cardinality({q \in Requests : hd2[q].inc = i})
  <2> DEFINE H == {q \in Requests : hd[q].inc = i}
             H2 == {q \in Requests : hd2[q].inc = i}
  <2>1. H2 \ {r} = H \ {r} /\ r \notin H /\ (r \in H2 <=> i = h.inc)
    BY <1>6, NoHoldNamesNothing
  <2>2. InFlight(s, i) = Cardinality(H)
    BY DEF Ledger
  <2> HIDE DEF H, H2
  <2>3. Cardinality(H2) = IF i = h.inc THEN Cardinality(H) + 1 ELSE Cardinality(H)
    <3>1. H \in SUBSET Requests /\ H2 \in SUBSET Requests
      BY DEF H, H2
    <3> QED
      BY <2>1, <3>1, CountOne
  <2> QED
    BY <1>4, <2>2, <2>3 DEF H2
<1>8. ASSUME NEW n \in Targets
      PROVE  u.resv[n] = Cardinality({q \in Requests : hd2[q].target = n})
  <2> DEFINE H == {q \in Requests : hd[q].target = n}
             H2 == {q \in Requests : hd2[q].target = n}
  <2>1. H2 \ {r} = H \ {r} /\ r \notin H /\ (r \in H2 <=> n = h.target)
    BY <1>6, NoHoldNamesNothing
  <2>2. s.resv[n] = Cardinality(H)
    BY DEF Ledger
  <2> HIDE DEF H, H2
  <2>3. Cardinality(H2) = IF n = h.target THEN Cardinality(H) + 1 ELSE Cardinality(H)
    <3>1. H \in SUBSET Requests /\ H2 \in SUBSET Requests
      BY DEF H, H2
    <3> QED
      BY <2>1, <3>1, CountOne
  <2> QED
    BY <1>5, <2>2, <2>3 DEF H2
<1>9. Ledger(u, hd2)
  BY <1>1, <1>7, <1>8 DEF Ledger
<1> QED
  BY <1>3, <1>9 DEF u, hd2

\* A release counts one less, on a binding that left the table as on one that did not;
\* after a stop there is nothing left to count.
LEMMA GiveBackLedger ==
  ASSUME BalancerAssumption, NEW s, NEW hd, NEW r \in Requests,
         BalancerShape(s), Ledger(s, hd), DOMAIN hd = Requests,
         hd[r].inc \in Incs, hd[r].target \in Targets
  PROVE  /\ BalancerShape(GiveBack(s, hd[r]))
         /\ Ledger(GiveBack(s, hd[r]), [hd EXCEPT ![r] = NoHold])
<1> DEFINE h == hd[r]
           hd2 == [hd EXCEPT ![r] = NoHold]
           u == GiveBack(s, h)
           act2 == IF h.inc \notin DOMAIN s.act THEN s.act
                   ELSE IF s.act[h.inc] <= 1 /\ ~ HasBinding(s, h.inc) THEN Without(s.act, {h.inc})
                   ELSE Put(s.act, h.inc, IF s.act[h.inc] > 0 THEN s.act[h.inc] - 1 ELSE 0)
<1>1. /\ u.up = s.up /\ u.b = s.b /\ u.cfg = s.cfg /\ u.nextInc = s.nextInc
      /\ Fields \subseteq DOMAIN u
      /\ u.resv = [s.resv EXCEPT ![h.target] = IF @ <= 1 THEN 0 ELSE @ - 1]
      /\ u.act = act2
  BY DEF BalancerShape, GiveBack, Fields
<1>2. \A i \in Incs : InFlight(s, i) \in Nat
  BY DEF BalancerShape, InFlight
<1>3. \A i \in DOMAIN act2 : act2[i] \in Nat
  BY DEF BalancerShape, Put, Without
<1>4. BalancerShape(u)
  <2>1. u.resv \in [Targets -> Nat]
    BY <1>1 DEF BalancerShape
  <2> HIDE DEF act2, u, h
  <2> QED
    BY <1>1, <1>3, <2>1 DEF BalancerShape
<1>5. \A i \in Incs \ {h.inc} : InFlight(u, i) = InFlight(s, i)
  BY <1>1 DEF InFlight, Put, Without
<1>6. InFlight(u, h.inc) = IF InFlight(s, h.inc) > 0 THEN InFlight(s, h.inc) - 1 ELSE 0
  BY <1>1, <1>2 DEF InFlight, Put, Without, BalancerShape
<1>7. \A n \in Targets : u.resv[n] = IF n = h.target /\ s.resv[n] > 0 THEN s.resv[n] - 1 ELSE s.resv[n]
  BY <1>1 DEF BalancerShape
<1>8. \A q \in Requests : hd2[q] = IF q = r THEN NoHold ELSE hd[q]
  OBVIOUS
<1> HIDE DEF hd2, u
<1>9. ASSUME NEW i \in Incs
      PROVE  InFlight(u, i) = IF s.up THEN Cardinality({q \in Requests : hd2[q].inc = i}) ELSE 0
  <2> DEFINE H == {q \in Requests : hd[q].inc = i}
             H2 == {q \in Requests : hd2[q].inc = i}
  <2>1. H2 \ {r} = H \ {r} /\ r \notin H2 /\ (r \in H <=> i = h.inc)
    BY <1>8, NoHoldNamesNothing
  <2>2. InFlight(s, i) = IF s.up THEN Cardinality(H) ELSE 0
    BY DEF Ledger
  <2> HIDE DEF H, H2
  <2>3. /\ Cardinality(H) \in Nat /\ Cardinality(H2) \in Nat
        /\ Cardinality(H2) = IF i = h.inc THEN Cardinality(H) - 1 ELSE Cardinality(H)
    <3>1. H \in SUBSET Requests /\ H2 \in SUBSET Requests
      BY DEF H, H2
    <3> QED
      BY <2>1, <3>1, CountOne
  <2>4. InFlight(u, i) = IF s.up THEN Cardinality(H2) ELSE 0
    BY <1>5, <1>6, <2>2, <2>3
  <2> QED
    BY <2>4 DEF H2
<1>10. ASSUME NEW n \in Targets
       PROVE  u.resv[n] = IF s.up THEN Cardinality({q \in Requests : hd2[q].target = n}) ELSE 0
  <2> DEFINE H == {q \in Requests : hd[q].target = n}
             H2 == {q \in Requests : hd2[q].target = n}
  <2>1. H2 \ {r} = H \ {r} /\ r \notin H2 /\ (r \in H <=> n = h.target)
    BY <1>8, NoHoldNamesNothing
  <2>2. s.resv[n] = IF s.up THEN Cardinality(H) ELSE 0
    BY DEF Ledger
  <2> HIDE DEF H, H2
  <2>3. /\ Cardinality(H) \in Nat /\ Cardinality(H2) \in Nat
        /\ Cardinality(H2) = IF n = h.target THEN Cardinality(H) - 1 ELSE Cardinality(H)
    <3>1. H \in SUBSET Requests /\ H2 \in SUBSET Requests
      BY DEF H, H2
    <3> QED
      BY <2>1, <3>1, CountOne
  <2>4. u.resv[n] = IF s.up THEN Cardinality(H2) ELSE 0
    BY <1>7, <2>2, <2>3
  <2> QED
    BY <2>4 DEF H2
<1>11. Ledger(u, hd2)
  BY <1>1, <1>9, <1>10 DEF Ledger
<1> QED
  BY <1>4, <1>11 DEF u, hd2

-----------------------------------------------------------------------------
(* Steps that leave the counts alone.                                      *)

\* Shape kept and counts untouched.
Quiet(s, u) == BalancerShape(u) /\ SameLedger(s, u)

LEMMA ToStateQuiet ==
  ASSUME NEW s, BalancerShape(s), NEW O, NEW state
  PROVE  Quiet(s, ToState(s, O, state)) /\ ToState(s, O, state).b = s.b
  BY DEF BalancerShape, Quiet, SameLedger, ToState, Fields

LEMMA RebindQuiet ==
  ASSUME NEW s, BalancerShape(s), NEW i, NEW n \in Targets
  PROVE  Quiet(s, Rebind(s, i, n)) /\ DOMAIN Rebind(s, i, n).b = DOMAIN s.b
<1> DEFINE u == Rebind(s, i, n)
<1>1. /\ Fields \subseteq DOMAIN u
      /\ u.cfg = s.cfg /\ u.nextInc = s.nextInc /\ u.act = s.act /\ u.resv = s.resv /\ u.up = s.up
      /\ DOMAIN u.b = DOMAIN s.b
  BY DEF BalancerShape, Rebind, Fields
<1>2. \A j \in DOMAIN s.b :
        {"task", "target", "named"} \subseteq DOMAIN u.b[j] /\ u.b[j].target \in Targets
  BY DEF BalancerShape, Rebind, Fields
<1> HIDE DEF u
<1>3. Quiet(s, u)
  BY <1>1, <1>2 DEF Quiet, SameLedger, BalancerShape
<1> QED
  BY <1>1, <1>3 DEF u

\* The nodes a task may be kept on or moved to are nodes.
LEMMA NodesAreTargets ==
  ASSUME BalancerAssumption, NEW s, BalancerShape(s), NEW group, NEW excluded, NEW i
  PROVE  /\ Selectable(s, group, excluded) \subseteq Targets
         /\ Eligible(s, i) \subseteq Targets
<1>1. s.cfg.enabled \subseteq Targets
  BY DEF BalancerAssumption, BalancerShape, Config
<1> QED
  BY <1>1 DEF Selectable, Eligible, BoundNodes

LEMMA ApplyQuiet ==
  ASSUME NEW s, BalancerShape(s), NEW o, s.ops[o].dst \in Targets
  PROVE  Quiet(s, Apply(s, o))
<1> DEFINE moved == Rebind(s, s.ops[o].inc, s.ops[o].dst)
<1>1. Quiet(s, moved)
  BY RebindQuiet
<1> HIDE DEF moved
<1> QED
  BY <1>1 DEF Apply, Quiet, SameLedger, BalancerShape, Fields, moved

\* The boundary writes at most a route.
LEMMA BoundaryQuiet ==
  ASSUME BalancerAssumption, NEW s, BalancerShape(s), NEW i
  PROVE  Quiet(s, ApplyAtBoundary(s, i))
<1> DEFINE pending == InState(s, i, "pending_boundary")
           movable == {o \in pending : Movable(s, o)}
           first == FirstOf(movable)
           o1 == CHOOSE o \in first : TRUE
           u == ToState(s, pending \ first, "expired")
<1>1. ApplyAtBoundary(s, i) = IF first # {} /\ InFlight(s, i) = 0 THEN Apply(u, o1)
                              ELSE ToState(s, pending \ movable, "expired")
  BY DEF ApplyAtBoundary
<1>2. Quiet(s, u) /\ Quiet(s, ToState(s, pending \ movable, "expired"))
  BY ToStateQuiet
<1>3. ASSUME first # {}
      PROVE  Quiet(u, Apply(u, o1))
  <2>1. o1 \in first
    BY <1>3
  <2>2. o1 \in DOMAIN s.ops /\ s.ops[o1].dst \in Targets
    BY <2>1, NodesAreTargets DEF FirstOf, InState, Movable
  <2>3. u.ops[o1] = s.ops[o1]
    BY <2>1, <2>2 DEF ToState, BalancerShape, Fields
  <2>4. BalancerShape(u)
    BY <1>2 DEF Quiet
  <2> HIDE DEF o1, u
  <2> QED
    BY <2>2, <2>3, <2>4, ApplyQuiet
<1> HIDE DEF first, u, o1, movable, pending
<1> QED
  BY <1>1, <1>2, <1>3 DEF Quiet, SameLedger

LEMMA MarkFailureQuiet ==
  ASSUME NEW s, BalancerShape(s), NEW n
  PROVE  Quiet(s, MarkFailure(s, n))
  BY DEF BalancerShape, Quiet, SameLedger, MarkFailure, Fields

LEMMA NoteSuccessQuiet ==
  ASSUME NEW s, BalancerShape(s), NEW n
  PROVE  Quiet(s, NoteSuccess(s, n))
  BY DEF BalancerShape, Quiet, SameLedger, NoteSuccess, Fields

LEMMA InvalidateQuiet ==
  ASSUME NEW s, BalancerShape(s), NEW i
  PROVE  Quiet(s, Invalidate(s, i))
<1> DEFINE u == ToState(s, InState(s, i, "pending_boundary"), "expired")
<1>1. Quiet(s, u)
  BY ToStateQuiet
<1> HIDE DEF u
<1>2. Quiet(u, ToState(u, InState(s, i, "applied"), "expired_after_apply"))
  BY <1>1, ToStateQuiet DEF Quiet
<1> QED
  BY <1>1, <1>2 DEF Invalidate, Quiet, SameLedger, u

LEMMA RefreshQuiet ==
  ASSUME NEW s, BalancerShape(s)
  PROVE  Quiet(s, Refresh(s))
<1>1. \A O, P : Quiet(s, ToState(ToState(s, O, "expired_after_apply"), P, "expired"))
  <2> TAKE O, P
  <2> DEFINE u == ToState(s, O, "expired_after_apply")
  <2>1. Quiet(s, u)
    BY ToStateQuiet
  <2> HIDE DEF u
  <2>2. Quiet(u, ToState(u, P, "expired"))
    BY <2>1, ToStateQuiet DEF Quiet
  <2> QED
    BY <2>1, <2>2 DEF Quiet, SameLedger, u
<1> QED
  BY <1>1 DEF Refresh

LEMMA PruneQuiet ==
  ASSUME NEW s, BalancerShape(s), NEW c \in Configs
  PROVE  Quiet(s, Reconfigured(s, c))
<1> DEFINE u == SyncGroupVersions(s, c)
           v == Prune(u)
<1>1. Quiet(s, u)
  BY DEF BalancerShape, Quiet, SameLedger, SyncGroupVersions, Fields
<1> HIDE DEF u
<1>2. Quiet(u, v)
  <2>1. /\ Fields \subseteq DOMAIN v
        /\ v.cfg = u.cfg /\ v.nextInc = u.nextInc /\ v.act = u.act /\ v.resv = u.resv /\ v.up = u.up
    BY <1>1 DEF Quiet, BalancerShape, Prune, Fields
  <2>2. DOMAIN v.b \subseteq DOMAIN u.b /\ \A i \in DOMAIN v.b : v.b[i] = u.b[i]
    BY <1>1 DEF Quiet, BalancerShape, Prune, Without, Fields
  <2> HIDE DEF v
  <2> QED
    BY <1>1, <2>1, <2>2 DEF Quiet, SameLedger, BalancerShape
<1> HIDE DEF v
<1>3. Quiet(v, Refresh(v))
  BY <1>2, RefreshQuiet DEF Quiet
<1> QED
  BY <1>1, <1>2, <1>3 DEF Reconfigured, Quiet, SameLedger, u, v

\* Bindings leave the table; nothing that is in flight is forgotten.
LEMMA RemovedQuiet ==
  ASSUME NEW s, BalancerShape(s), NEW S
  PROVE  Quiet(s, Removed(s, S))
  BY DEF BalancerShape, Quiet, SameLedger, Removed, Without, Fields

\* A swept ledger counted nobody.
LEMMA DropIdleKeepsLedger ==
  ASSUME NEW s, NEW hd, BalancerShape(s), Ledger(s, hd)
  PROVE  BalancerShape(DropIdle(s)) /\ Ledger(DropIdle(s), hd)
<1> DEFINE u == DropIdle(s)
<1>1. /\ Fields \subseteq DOMAIN u
      /\ u.cfg = s.cfg /\ u.nextInc = s.nextInc /\ u.b = s.b /\ u.resv = s.resv /\ u.up = s.up
      /\ u.act = Without(s.act, {i \in DOMAIN s.act : s.act[i] = 0 /\ ~ HasBinding(s, i)})
  BY DEF BalancerShape, DropIdle, Fields
<1> HIDE DEF u
<1>2. \A i \in Incs : InFlight(u, i) = InFlight(s, i)
  BY <1>1 DEF InFlight, Without
<1>3. BalancerShape(u)
  BY <1>1 DEF BalancerShape, Without
<1> QED
  BY <1>1, <1>2, <1>3 DEF Ledger, u

-----------------------------------------------------------------------------
(* plan and release.                                                       *)

\* bind: a task is bound to the node it was given, under an incarnation in range.
LEMMA BindQuiet ==
  ASSUME BalancerAssumption, NEW s, BalancerShape(s), NEW task, NEW n \in Targets,
         NEW found \in SUBSET (DOMAIN s.b), NEW bound, NEW x \in BindResults(s, task, n, found, bound)
  PROVE  Quiet(s, x.s) /\ x.inc \in DOMAIN x.s.b
<1> DEFINE lost == {i \in found : s.b[i].target \notin bound}
           left == [s EXCEPT !.b = [i \in DOMAIN @ |-> IF i \in lost THEN [@[i] EXCEPT !.task = NoTask]
                                                       ELSE @[i]]]
           added == AddBinding(left, task, n)
<1>1. \/ \E i \in found : x = [s |-> Rebind(s, i, n), inc |-> i]
      \/ ~ (s.nextInc > MaxInc) /\ x = [s |-> added, inc |-> s.nextInc]
  <2>1. BindResults(s, task, n, found, bound) =
          {[s |-> Rebind(s, i, n), inc |-> i] : i \in {j \in found : s.rv[j] < MaxRev}}
          \cup (IF found = lost THEN IF s.nextInc > MaxInc THEN {}
                                   ELSE {[s |-> added, inc |-> s.nextInc]}
               ELSE {})
    BY DEF BindResults
  <2> HIDE DEF lost, added
  <2> QED
    BY <2>1
<1>2. CASE \E i \in found : x = [s |-> Rebind(s, i, n), inc |-> i]
  BY <1>2, RebindQuiet
<1>3. CASE ~ (s.nextInc > MaxInc) /\ x = [s |-> added, inc |-> s.nextInc]
  <2>1. /\ Fields \subseteq DOMAIN left
        /\ left.cfg = s.cfg /\ left.nextInc = s.nextInc /\ left.act = s.act
        /\ left.resv = s.resv /\ left.up = s.up /\ DOMAIN left.b = DOMAIN s.b
    BY DEF BalancerShape, Fields
  <2>2. \A i \in DOMAIN s.b :
          {"task", "target", "named"} \subseteq DOMAIN left.b[i] /\ left.b[i].target \in Targets
    BY DEF BalancerShape, Fields
  <2> HIDE DEF left
  <2>3. /\ Fields \subseteq DOMAIN added
        /\ added.cfg = s.cfg /\ added.nextInc = s.nextInc + 1 /\ added.act = s.act
        /\ added.resv = s.resv /\ added.up = s.up
        /\ added.b = Put(left.b, s.nextInc, [task |-> task, target |-> n, named |-> FALSE])
    BY <2>1 DEF AddBinding, Fields
  <2>4. /\ DOMAIN added.b = DOMAIN s.b \cup {s.nextInc}
        /\ \A i \in DOMAIN added.b :
             {"task", "target", "named"} \subseteq DOMAIN added.b[i] /\ added.b[i].target \in Targets
    BY <2>1, <2>2, <2>3 DEF Put
  <2>5. s.nextInc \in Incs
    BY <1>3 DEF BalancerShape, BalancerAssumption, Incs
  <2> HIDE DEF added
  <2>6. BalancerShape(added)
    <3>1. added.nextInc \in Nat \ {0} /\ DOMAIN added.b \subseteq Incs
      BY <2>3, <2>4, <2>5 DEF BalancerShape
    <3> QED
      BY <2>3, <2>4, <3>1 DEF BalancerShape
  <2>7. Quiet(s, added)
    BY <2>3, <2>6 DEF Quiet, SameLedger
  <2> QED
    BY <1>3, <2>4, <2>7
<1> QED
  BY <1>1, <1>2, <1>3

\* Whatever plan() comes to, it is a quiet change of the table and one reservation on a
\* binding and node that exist; a stopped balancer plans nothing.
LEMMA PlanReserves ==
  ASSUME BalancerAssumption, NEW s, BalancerShape(s), NEW task, NEW group, NEW excluded, NEW named,
         NEW p \in PlanResults(s, task, group, excluded, named)
  PROVE  /\ s.up
         /\ p.h.inc \in Incs /\ p.h.target \in Targets /\ p.h # NoHold
         /\ \E u : Quiet(s, u) /\ p.s = Reserve(u, p.h)
<1> DEFINE bound == BoundNodes(s, group)
           found == {i \in DOMAIN s.b : s.b[i].task = task}
           hits == {i \in found : s.b[i].target \in bound \ excluded}
           bindings == IF hits # {} THEN {[s |-> s, inc |-> i] : i \in hits}
                       ELSE UNION {BindResults(s, task, n, found, bound) :
                                    n \in Selectable(s, group, excluded)}
<1>1. ~ PlanUndefined(s, group, excluded)
  BY DEF PlanResults
<1>2. PlanResults(s, task, group, excluded, named) =
        {Reserved(NoteNamed(r.s, r.inc, named), r.inc) : r \in bindings}
  BY <1>1 DEF PlanResults
<1> HIDE DEF bindings
<1>3. PICK r \in bindings : p = Reserved(NoteNamed(r.s, r.inc, named), r.inc)
  BY <1>2
<1>4. Quiet(s, r.s) /\ r.inc \in DOMAIN r.s.b
  <2>1. CASE hits # {}
    BY <2>1 DEF bindings, Quiet, SameLedger
  <2>2. CASE hits = {}
    <3>1. PICK n \in Selectable(s, group, excluded) : r \in BindResults(s, task, n, found, bound)
      BY <2>2 DEF bindings
    <3>2. n \in Targets
      BY <3>1, NodesAreTargets
    <3>3. found \in SUBSET (DOMAIN s.b)
      OBVIOUS
    <3> HIDE DEF found, bound
    <3> QED
      BY <3>1, <3>2, <3>3, BindQuiet
  <2> QED
    BY <2>1, <2>2
<1> DEFINE u == NoteNamed(r.s, r.inc, named)
<1>5. Quiet(s, u) /\ r.inc \in DOMAIN u.b
  <2>1. /\ Fields \subseteq DOMAIN u
        /\ u.cfg = r.s.cfg /\ u.nextInc = r.s.nextInc /\ u.act = r.s.act
        /\ u.resv = r.s.resv /\ u.up = r.s.up /\ DOMAIN u.b = DOMAIN r.s.b
    BY <1>4 DEF Quiet, BalancerShape, NoteNamed, Fields
  <2>2. \A i \in DOMAIN r.s.b :
          {"task", "target", "named"} \subseteq DOMAIN u.b[i] /\ u.b[i].target \in Targets
    BY <1>4 DEF Quiet, BalancerShape, NoteNamed, Fields
  <2> HIDE DEF u
  <2> QED
    BY <1>4, <2>1, <2>2 DEF Quiet, SameLedger, BalancerShape
<1> HIDE DEF u
<1>6. /\ p.h = [inc |-> r.inc, target |-> u.b[r.inc].target, rev |-> u.rv[r.inc]]
      /\ p.s = Reserve(u, p.h)
  BY <1>3 DEF Reserved, u
<1>7. p.h.inc \in Incs /\ p.h.target \in Targets
  BY <1>5, <1>6 DEF Quiet, BalancerShape
<1>8. p.h # NoHold
  BY <1>7, NoHoldNamesNothing
<1>9. s.up
  BY <1>1 DEF PlanUndefined
<1> QED
  BY <1>5, <1>6, <1>7, <1>8, <1>9

\* The reservation of a plan is on the books the moment it is made.
LEMMA PlanLedger ==
  ASSUME BalancerAssumption, NEW s, BalancerShape(s), NEW task, NEW group, NEW excluded, NEW named,
         NEW p \in PlanResults(s, task, group, excluded, named),
         NEW hd, NEW r \in Requests, DOMAIN hd = Requests, hd[r] = NoHold, Ledger(s, hd)
  PROVE  BalancerShape(p.s) /\ Ledger(p.s, [hd EXCEPT ![r] = p.h])
<1>1. s.up /\ p.h.inc \in Incs /\ p.h.target \in Targets
  BY PlanReserves
<1>2. PICK u : Quiet(s, u) /\ p.s = Reserve(u, p.h)
  BY PlanReserves
<1>3. BalancerShape(u) /\ u.up /\ Ledger(u, hd)
  BY <1>1, <1>2, SameLedgerKeeps DEF Quiet, SameLedger
<1>4. BalancerShape(Reserve(u, p.h)) /\ Ledger(Reserve(u, p.h), [hd EXCEPT ![r] = p.h])
  <2> DEFINE h == p.h
  <2>1. h.inc \in Incs /\ h.target \in Targets
    BY <1>1
  <2> HIDE DEF h
  <2>2. BalancerShape(Reserve(u, h)) /\ Ledger(Reserve(u, h), [hd EXCEPT ![r] = h])
    BY <1>3, <2>1, ReserveLedger
  <2> QED
    BY <2>2 DEF h
<1> QED
  BY <1>2, <1>4

\* release() takes a reservation off the books, whatever the boundary then writes.
LEMMA ReleaseLedger ==
  ASSUME BalancerAssumption, NEW s, NEW hd, NEW r \in Requests,
         BalancerShape(s), Ledger(s, hd), DOMAIN hd = Requests,
         hd[r].inc \in Incs, hd[r].target \in Targets
  PROVE  /\ BalancerShape(Release(s, hd[r]))
         /\ Ledger(Release(s, hd[r]), [hd EXCEPT ![r] = NoHold])
<1> DEFINE u == GiveBack(s, hd[r])
<1>1. BalancerShape(u) /\ Ledger(u, [hd EXCEPT ![r] = NoHold])
  BY GiveBackLedger
<1> HIDE DEF u
<1>2. Quiet(u, ApplyAtBoundary(u, hd[r].inc))
  BY <1>1, BoundaryQuiet
<1>3. Release(s, hd[r]) = ApplyAtBoundary(u, hd[r].inc)
  BY DEF Release, u
<1> QED
  BY <1>1, <1>2, <1>3, SameLedgerKeeps DEF Quiet

-----------------------------------------------------------------------------
(* The invariant.                                                          *)

LEMMA LedgerInit ==
  ASSUME BalancerAssumption, Init
  PROVE  LedgerInv
<1>1. PICK c \in Configs :
        lb = [up |-> TRUE, cfg |-> c, rev |-> 1, retired |-> 0,
              b |-> EmptyMap, rv |-> EmptyMap, nextInc |-> 1,
              act |-> EmptyMap, resv |-> [n \in Targets |-> 0],
              cooling |-> {}, asleep |-> {}, ops |-> EmptyMap]
  BY DEF Init
<1>2. BalancerShape(lb)
  BY <1>1 DEF BalancerShape, Fields, EmptyMap
<1>3. \A x \in Incs : {r \in Requests : hold[r].inc = x} = {}
  BY NoHoldNamesNothing DEF Init
<1>4. \A x \in Targets : {r \in Requests : hold[r].target = x} = {}
  BY NoHoldNamesNothing DEF Init
<1>5. Ledger(lb, hold)
  BY <1>1, <1>3, <1>4, FS_EmptySet DEF Ledger, InFlight, EmptyMap
<1>6. /\ DOMAIN hold = Requests /\ \A r \in Requests : hold[r] = NoHold
      /\ DOMAIN req = Requests /\ \A r \in Requests : "pc" \in DOMAIN req[r] /\ req[r].pc = "idle"
  BY DEF Init, Idle
<1> QED
  BY <1>2, <1>5, <1>6 DEF LedgerInv, HoldShape

\* A step that only changes the balancer, and quietly.
LEMMA QuietStep ==
  ASSUME LedgerInv, Quiet(lb, lb'), UNCHANGED <<req, hold>>
  PROVE  LedgerInv'
<1>1. BalancerShape(lb') /\ Ledger(lb', hold)
  BY SameLedgerKeeps DEF LedgerInv, Quiet
<1> QED
  BY <1>1 DEF LedgerInv, BalancerShape, HoldShape, Ledger, InFlight

\* Only what each handler holds counts.
LEMMA LedgerPointwise ==
  ASSUME NEW s, NEW hd, NEW hd2, Ledger(s, hd), \A q \in Requests : hd2[q] = hd[q]
  PROVE  Ledger(s, hd2)
<1>1. \A x : /\ {q \in Requests : hd2[q].inc = x} = {q \in Requests : hd[q].inc = x}
             /\ {q \in Requests : hd2[q].target = x} = {q \in Requests : hd[q].target = x}
  OBVIOUS
<1> QED
  BY <1>1 DEF Ledger

\* A step of one handler.
LEMMA HandlerStep ==
  ASSUME LedgerInv, NEW r \in Requests,
         BalancerShape(lb'), Ledger(lb', hold'),
         DOMAIN hold' = Requests, \A q \in Requests \ {r} : hold'[q] = hold[q],
         DOMAIN req' = Requests, \A q \in Requests \ {r} : req'[q] = req[q],
         HoldShape(hold'[r]), "pc" \in DOMAIN req'[r],
         req'[r].pc \in {"idle", "reading"} => hold'[r] = NoHold,
         req'[r].pc = "opening" => hold'[r] # NoHold
  PROVE  LedgerInv'
<1>1. \A q \in Requests : HoldShape(hold'[q])
  BY DEF LedgerInv
<1>2. \A q \in Requests : "pc" \in DOMAIN req'[q]
  BY DEF LedgerInv
<1>3. \A q \in Requests : req'[q].pc \in {"idle", "reading"} => hold'[q] = NoHold
  BY DEF LedgerInv
<1>4. \A q \in Requests : req'[q].pc = "opening" => hold'[q] # NoHold
  BY DEF LedgerInv
<1>5. BalancerShape(lb)' /\ Ledger(lb, hold)'
  BY DEF BalancerShape, Ledger, InFlight
<1> QED
  BY <1>1, <1>2, <1>3, <1>4, <1>5 DEF LedgerInv, HoldShape

\* The same with the reservations left where they are.
LEMMA HandlerKeepsHold ==
  ASSUME LedgerInv, NEW r \in Requests, Quiet(lb, lb'), UNCHANGED hold, NEW v, "pc" \in DOMAIN v,
         req' = [req EXCEPT ![r] = v],
         v.pc \in {"idle", "reading"} => hold[r] = NoHold,
         v.pc = "opening" => hold[r] # NoHold
  PROVE  LedgerInv'
<1>1. BalancerShape(lb') /\ Ledger(lb', hold')
  BY SameLedgerKeeps DEF LedgerInv, Quiet
<1>2. DOMAIN req' = Requests /\ req'[r] = v /\ \A q \in Requests \ {r} : req'[q] = req[q]
  BY DEF LedgerInv
<1> QED
  BY <1>1, <1>2, HandlerStep DEF LedgerInv

LEMMA BeginStep ==
  ASSUME LedgerInv, NEW r \in Requests, Begin(r)
  PROVE  LedgerInv'
<1> DEFINE v == [Idle EXCEPT !.pc = "reading", !.known = lb.cfg.known]
<1>1. req' = [req EXCEPT ![r] = v] /\ UNCHANGED <<lb, hold>> /\ req[r].pc = "idle"
  BY DEF Begin
<1>2. "pc" \in DOMAIN v /\ v.pc = "reading"
  BY DEF Idle
<1> HIDE DEF v
<1>3. Quiet(lb, lb')
  BY <1>1 DEF LedgerInv, Quiet, SameLedger
<1> QED
  BY <1>1, <1>2, <1>3, HandlerKeepsHold DEF LedgerInv

LEMMA SelectStep ==
  ASSUME BalancerAssumption, LedgerInv, NEW r \in Requests, NEW task, NEW named, Select(r, task, named)
  PROVE  LedgerInv'
<1> DEFINE results == PlanResults(lb, task, lb.cfg, {}, named)
<1>1. req[r].pc = "reading" /\ hold[r] = NoHold /\ BalancerShape(lb) /\ Ledger(lb, hold)
      /\ DOMAIN hold = Requests /\ DOMAIN req = Requests
  BY DEF Select, LedgerInv
<1>2. CASE req' = [req EXCEPT ![r] = Idle] /\ UNCHANGED <<lb, hold>>
  <2>1. "pc" \in DOMAIN Idle /\ Idle.pc = "idle"
    BY DEF Idle
  <2>2. Quiet(lb, lb')
    BY <1>1, <1>2 DEF Quiet, SameLedger
  <2> QED
    BY <1>1, <1>2, <2>1, <2>2, HandlerKeepsHold
<1>3. ASSUME NEW p \in results, p.h.target \in req[r].known,
             lb' = p.s, hold' = [hold EXCEPT ![r] = p.h],
             req' = [req EXCEPT ![r].pc = "opening", ![r].group = lb.cfg, ![r].task = task,
                                ![r].named = named, ![r].orig = p.h.inc, ![r].node = p.h.target]
      PROVE  LedgerInv'
  <2>1. BalancerShape(p.s) /\ Ledger(p.s, [hold EXCEPT ![r] = p.h])
    BY <1>1, <1>3, PlanLedger
  <2>2. HoldShape(p.h) /\ p.h # NoHold
    BY <1>1, <1>3, PlanReserves DEF HoldShape
  <2>3. /\ DOMAIN req' = Requests /\ \A q \in Requests \ {r} : req'[q] = req[q]
        /\ "pc" \in DOMAIN req'[r] /\ req'[r].pc = "opening"
    BY <1>1, <1>3 DEF LedgerInv
  <2>4. DOMAIN hold' = Requests /\ hold'[r] = p.h /\ \A q \in Requests \ {r} : hold'[q] = hold[q]
    BY <1>1, <1>3
  <2> QED
    BY <1>3, <2>1, <2>2, <2>3, <2>4, HandlerStep
<1>4. ASSUME NEW p \in results, lb' = Release(p.s, p.h), req' = [req EXCEPT ![r] = Idle], UNCHANGED hold
      PROVE  LedgerInv'
  <2> DEFINE taken == [hold EXCEPT ![r] = p.h]
  <2>1. BalancerShape(p.s) /\ Ledger(p.s, taken)
    BY <1>1, <1>4, PlanLedger
  <2>2. p.h.inc \in Incs /\ p.h.target \in Targets
    BY <1>1, <1>4, PlanReserves
  <2>3. DOMAIN taken = Requests /\ taken[r] = p.h /\ \A q \in Requests \ {r} : taken[q] = hold[q]
    BY <1>1
  <2> HIDE DEF taken
  <2>4. BalancerShape(Release(p.s, p.h)) /\ Ledger(Release(p.s, p.h), [taken EXCEPT ![r] = NoHold])
    BY <2>1, <2>2, <2>3, ReleaseLedger
  <2>5. \A q \in Requests : hold[q] = [taken EXCEPT ![r] = NoHold][q]
    BY <1>1, <2>3
  <2>6. Ledger(Release(p.s, p.h), hold)
    BY <2>4, <2>5, LedgerPointwise
  <2>7. /\ DOMAIN req' = Requests /\ \A q \in Requests \ {r} : req'[q] = req[q]
        /\ req'[r] = Idle /\ "pc" \in DOMAIN Idle /\ Idle.pc = "idle"
    BY <1>1, <1>4 DEF Idle
  <2> QED
    BY <1>1, <1>4, <2>4, <2>6, <2>7, HandlerStep DEF HoldShape
<1> QED
  BY <1>2, <1>3, <1>4 DEF Select

\* The failed attempt is off the books before the retry is planned.
LEMMA FailedOverLedger ==
  ASSUME BalancerAssumption, LedgerInv, NEW r \in Requests, req[r].pc = "opening"
  PROVE  /\ BalancerShape(FailedOver(r))
         /\ Ledger(FailedOver(r), [hold EXCEPT ![r] = NoHold])
<1> DEFINE u == MarkFailure(lb, req[r].node)
           v == Invalidate(u, hold[r].inc)
<1>1. hold[r].inc \in Incs /\ hold[r].target \in Targets
  BY DEF LedgerInv, HoldShape
<1>2. Quiet(lb, u)
  BY MarkFailureQuiet DEF LedgerInv
<1> HIDE DEF u
<1>3. Quiet(u, v)
  BY <1>2, InvalidateQuiet DEF Quiet
<1>4. BalancerShape(v) /\ Ledger(v, hold)
  BY <1>2, <1>3, SameLedgerKeeps DEF LedgerInv, Quiet
<1> HIDE DEF v
<1>5. BalancerShape(Release(v, hold[r])) /\ Ledger(Release(v, hold[r]), [hold EXCEPT ![r] = NoHold])
  BY <1>1, <1>4, ReleaseLedger DEF LedgerInv
<1> QED
  BY <1>5 DEF FailedOver, u, v

LEMMA FailoverStep ==
  ASSUME BalancerAssumption, LedgerInv, NEW r \in Requests, Failover(r)
  PROVE  LedgerInv'
<1> DEFINE hd == [hold EXCEPT ![r] = NoHold]
           s == FailedOver(r)
<1>1. req[r].pc = "opening" /\ DOMAIN hold = Requests /\ DOMAIN req = Requests
  BY DEF Failover, LedgerInv
<1>2. BalancerShape(s) /\ Ledger(s, hd)
  BY <1>1, FailedOverLedger
<1>3. DOMAIN hd = Requests /\ hd[r] = NoHold /\ \A q \in Requests \ {r} : hd[q] = hold[q]
  BY <1>1
<1> HIDE DEF hd, s
<1>4. PICK p \in FailoverPlans(r) :
        IF p.h.target \in req[r].known
        THEN /\ lb' = p.s
             /\ hold' = [hold EXCEPT ![r] = p.h]
             /\ req' = [req EXCEPT ![r].pc = "retrying", ![r].node = p.h.target]
        ELSE /\ lb' = MarkFailure(Release(p.s, p.h), req[r].node)
             /\ hold' = [hold EXCEPT ![r] = NoHold]
             /\ req' = [req EXCEPT ![r].pc = "closing"]
  BY DEF Failover
<1>5. p \in PlanResults(s, req[r].task, req[r].group, {req[r].node}, req[r].named)
  BY DEF FailoverPlans, s
<1> DEFINE taken == [hd EXCEPT ![r] = p.h]
<1>6. BalancerShape(p.s) /\ Ledger(p.s, taken)
  BY <1>2, <1>3, <1>5, PlanLedger
<1>7. p.h.inc \in Incs /\ p.h.target \in Targets /\ HoldShape(p.h) /\ p.h # NoHold
  BY <1>2, <1>5, PlanReserves DEF HoldShape
<1>8. DOMAIN taken = Requests /\ taken[r] = p.h /\ \A q \in Requests \ {r} : taken[q] = hold[q]
  BY <1>3
<1> HIDE DEF taken
<1>9. CASE p.h.target \in req[r].known
  <2>1. DOMAIN hold' = Requests /\ hold'[r] = p.h /\ \A q \in Requests \ {r} : hold'[q] = hold[q]
    BY <1>1, <1>4, <1>9
  <2>2. BalancerShape(lb') /\ Ledger(lb', hold')
    <3>1. \A q \in Requests : hold'[q] = taken[q]
      BY <1>8, <2>1
    <3> QED
      BY <1>4, <1>6, <1>9, <3>1, LedgerPointwise
  <2>3. /\ DOMAIN req' = Requests /\ \A q \in Requests \ {r} : req'[q] = req[q]
        /\ "pc" \in DOMAIN req'[r] /\ req'[r].pc = "retrying"
    BY <1>1, <1>4, <1>9 DEF LedgerInv
  <2> QED
    BY <1>7, <2>1, <2>2, <2>3, HandlerStep
<1>10. CASE p.h.target \notin req[r].known
  <2> DEFINE u == Release(p.s, p.h)
  <2>1. BalancerShape(u) /\ Ledger(u, [taken EXCEPT ![r] = NoHold])
    BY <1>6, <1>7, <1>8, ReleaseLedger
  <2> HIDE DEF u
  <2>2. Quiet(u, MarkFailure(u, req[r].node))
    BY <2>1, MarkFailureQuiet
  <2>3. lb' = MarkFailure(u, req[r].node) /\ hold' = [hold EXCEPT ![r] = NoHold]
    BY <1>4, <1>10 DEF u
  <2>4. BalancerShape(lb') /\ Ledger(lb', [taken EXCEPT ![r] = NoHold])
    BY <2>1, <2>2, <2>3, SameLedgerKeeps DEF Quiet
  <2>5. DOMAIN hold' = Requests /\ hold'[r] = NoHold /\ \A q \in Requests \ {r} : hold'[q] = hold[q]
    BY <1>1, <2>3
  <2>6. Ledger(lb', hold')
    <3>1. \A q \in Requests : hold'[q] = [taken EXCEPT ![r] = NoHold][q]
      BY <1>8, <2>5
    <3> QED
      BY <2>4, <3>1, LedgerPointwise
  <2>7. /\ DOMAIN req' = Requests /\ \A q \in Requests \ {r} : req'[q] = req[q]
        /\ "pc" \in DOMAIN req'[r] /\ req'[r].pc = "closing"
    BY <1>1, <1>4, <1>10 DEF LedgerInv
  <2> QED
    BY <2>4, <2>5, <2>6, <2>7, HandlerStep DEF HoldShape
<1> QED
  BY <1>9, <1>10

LEMMA FailoverFindsNothingStep ==
  ASSUME BalancerAssumption, LedgerInv, NEW r \in Requests, FailoverFindsNothing(r)
  PROVE  LedgerInv'
<1> DEFINE s == FailedOver(r)
<1>1. /\ req[r].pc = "opening" /\ DOMAIN hold = Requests /\ DOMAIN req = Requests
      /\ "pc" \in DOMAIN req[r]
  BY DEF FailoverFindsNothing, LedgerInv
<1>2. BalancerShape(s) /\ Ledger(s, [hold EXCEPT ![r] = NoHold])
  BY <1>1, FailedOverLedger
<1> HIDE DEF s
<1>3. /\ lb' = MarkFailure(s, req[r].node) /\ hold' = [hold EXCEPT ![r] = NoHold]
      /\ req' = [req EXCEPT ![r].pc = "closing"]
  BY DEF FailoverFindsNothing, s
<1>4. Quiet(s, MarkFailure(s, req[r].node))
  BY <1>2, MarkFailureQuiet
<1>5. BalancerShape(lb') /\ Ledger(lb', hold')
  BY <1>2, <1>3, <1>4, SameLedgerKeeps DEF Quiet
<1>6. DOMAIN hold' = Requests /\ hold'[r] = NoHold /\ \A q \in Requests \ {r} : hold'[q] = hold[q]
  BY <1>1, <1>3
<1>7. /\ DOMAIN req' = Requests /\ \A q \in Requests \ {r} : req'[q] = req[q]
      /\ "pc" \in DOMAIN req'[r] /\ req'[r].pc = "closing"
  BY <1>1, <1>3
<1> QED
  BY <1>5, <1>6, <1>7, HandlerStep DEF HoldShape

LEMMA CloseStep ==
  ASSUME BalancerAssumption, LedgerInv, NEW r \in Requests, Close(r)
  PROVE  LedgerInv'
<1>1. /\ DOMAIN hold = Requests /\ DOMAIN req = Requests /\ HoldShape(hold[r])
      /\ BalancerShape(lb) /\ Ledger(lb, hold)
  BY DEF LedgerInv
<1>2. /\ lb' = IF hold[r] = NoHold THEN lb ELSE Release(lb, hold[r])
      /\ hold' = [hold EXCEPT ![r] = NoHold] /\ req' = [req EXCEPT ![r] = Idle]
  BY DEF Close
<1>3. DOMAIN hold' = Requests /\ hold'[r] = NoHold /\ \A q \in Requests \ {r} : hold'[q] = hold[q]
  BY <1>1, <1>2
<1>4. BalancerShape(lb') /\ Ledger(lb', hold')
  <2>1. CASE hold[r] = NoHold
    <3>1. \A q \in Requests : hold'[q] = hold[q]
      BY <1>3, <2>1
    <3> QED
      BY <1>1, <1>2, <2>1, <3>1, LedgerPointwise
  <2>2. CASE hold[r] # NoHold
    <3>1. hold[r].inc \in Incs /\ hold[r].target \in Targets
      BY <1>1, <2>2 DEF HoldShape
    <3> QED
      BY <1>1, <1>2, <2>2, <3>1, ReleaseLedger
  <2> QED
    BY <2>1, <2>2
<1>5. /\ DOMAIN req' = Requests /\ \A q \in Requests \ {r} : req'[q] = req[q]
      /\ req'[r] = Idle /\ "pc" \in DOMAIN Idle /\ Idle.pc = "idle"
  BY <1>1, <1>2 DEF Idle
<1> QED
  BY <1>3, <1>4, <1>5, HandlerStep DEF HoldShape

\* The steps of a handler that is past its selection and keeps its reservation.
LEMMA UnderwayStep ==
  ASSUME LedgerInv, NEW r \in Requests,
         ConnectionFails(r) \/ Answered(r) \/ BodyEnds(r) \/ Aborted(r)
  PROVE  LedgerInv'
<1>1. BalancerShape(lb) /\ Quiet(lb, lb) /\ DOMAIN req = Requests /\ "pc" \in DOMAIN req[r]
  BY DEF LedgerInv, Quiet, SameLedger
<1>2. Quiet(lb, MarkFailure(lb, req[r].node))
  BY <1>1, MarkFailureQuiet
<1>3. Quiet(lb, NoteSuccess(ConfirmRouted(lb, hold[r]), req[r].node))
  <2> DEFINE u == ConfirmRouted(lb, hold[r])
  <2>1. Quiet(lb, u)
    BY <1>1, ToStateQuiet DEF ConfirmRouted
  <2> HIDE DEF u
  <2>2. Quiet(u, NoteSuccess(u, req[r].node))
    BY <2>1, NoteSuccessQuiet DEF Quiet
  <2> QED
    BY <2>1, <2>2 DEF u, Quiet, SameLedger
<1>4. Quiet(lb, lb') /\ UNCHANGED hold
  BY <1>1, <1>2, <1>3 DEF ConnectionFails, Answered, BodyEnds, Aborted
<1>5. /\ DOMAIN req' = Requests /\ \A q \in Requests \ {r} : req'[q] = req[q]
      /\ "pc" \in DOMAIN req'[r] /\ req'[r].pc \in {"closing", "streaming", "learning"}
  BY <1>1 DEF ConnectionFails, Answered, BodyEnds, Aborted
<1>6. BalancerShape(lb') /\ Ledger(lb', hold')
  BY <1>4, SameLedgerKeeps DEF LedgerInv, Quiet
<1> QED
  BY <1>4, <1>5, <1>6, HandlerStep DEF LedgerInv

\* moveBinding writes a route at most.
LEMMA SubmitStep ==
  ASSUME BalancerAssumption, LedgerInv, NEW i \in Incs, NEW n \in Targets, Submit(i, n)
  PROVE  LedgerInv'
<1> DEFINE o == Cardinality(DOMAIN lb.ops) + 1
           rec == [inc |-> i, src |-> lb.b[i].target, dst |-> n, srcRev |-> lb.rv[i],
                   gRev |-> lb.rev, appliedRev |-> -1, aged |-> FALSE,
                   state |-> "pending_boundary"]
           opened == [lb EXCEPT !.ops = Put(@, o, rec)]
<1>1. BalancerShape(lb)
  BY DEF LedgerInv
<1>2. lb' = IF InFlight(lb, i) = 0 THEN Apply(opened, o) ELSE opened
  BY DEF Submit
<1>3. rec.dst = n
  OBVIOUS
<1> HIDE DEF o, rec
<1>4. Quiet(lb, opened)
  BY <1>1 DEF BalancerShape, Quiet, SameLedger, Fields
<1>5. opened.ops[o] = rec
  BY <1>1 DEF BalancerShape, Put, Fields
<1> HIDE DEF opened
<1>6. Quiet(opened, Apply(opened, o))
  BY <1>3, <1>4, <1>5, ApplyQuiet DEF Quiet
<1>7. Quiet(lb, lb') /\ UNCHANGED <<req, hold>>
  BY <1>2, <1>4, <1>6 DEF Submit, Quiet, SameLedger
<1> QED
  BY <1>7, QuietStep

LEMMA SweepStep ==
  ASSUME BalancerAssumption, LedgerInv, NEW S, Sweep(S)
  PROVE  LedgerInv'
<1> DEFINE u == Removed(lb, S)
           v == DropIdle(u)
<1>1. BalancerShape(u) /\ Ledger(u, hold)
  BY RemovedQuiet, SameLedgerKeeps DEF LedgerInv, Quiet
<1> HIDE DEF u
<1>2. BalancerShape(v) /\ Ledger(v, hold)
  BY <1>1, DropIdleKeepsLedger
<1> HIDE DEF v
<1>3. Quiet(v, Refresh(v))
  BY <1>2, RefreshQuiet
<1>4. lb' = Refresh(v) /\ UNCHANGED <<req, hold>>
  BY DEF Sweep, u, v
<1>5. BalancerShape(lb') /\ Ledger(lb', hold)
  BY <1>2, <1>3, <1>4, SameLedgerKeeps DEF Quiet
<1> QED
  BY <1>4, <1>5 DEF LedgerInv, BalancerShape, HoldShape, Ledger, InFlight

\* Nothing is counted after a stop.
LEMMA StopStep ==
  ASSUME LedgerInv, Stop
  PROVE  LedgerInv'
<1>1. lb' = Cleared(lb) /\ UNCHANGED <<req, hold>>
  BY DEF Stop
<1>2. /\ Fields \subseteq DOMAIN lb' /\ lb'.cfg = lb.cfg /\ lb'.nextInc = lb.nextInc
      /\ lb'.up = FALSE /\ lb'.b = EmptyMap /\ lb'.act = EmptyMap /\ lb'.resv = [n \in Targets |-> 0]
  BY <1>1 DEF LedgerInv, BalancerShape, Cleared, Fields
<1>3. BalancerShape(lb')
  BY <1>2 DEF LedgerInv, BalancerShape, EmptyMap
<1>4. Ledger(lb', hold)
  BY <1>2 DEF Ledger, InFlight, EmptyMap
<1> QED
  BY <1>1, <1>3, <1>4 DEF LedgerInv, BalancerShape, HoldShape, Ledger, InFlight

\* The steps of nobody's handler that leave the counts alone.
LEMMA BackgroundStep ==
  ASSUME BalancerAssumption, LedgerInv,
         \/ \E o \in OpIds : Cancel(o) \/ Age(o)
         \/ \E i \in Incs : Evict(i)
         \/ \E c \in Configs : Reconfigure(c)
         \/ \E n \in Targets : CooldownEnds(n) \/ Sample(n)
  PROVE  LedgerInv'
<1>1. BalancerShape(lb)
  BY DEF LedgerInv
<1>2. ASSUME NEW o \in OpIds, Cancel(o)
      PROVE  Quiet(lb, lb') /\ UNCHANGED <<req, hold>>
  BY <1>1, <1>2, ToStateQuiet DEF Cancel
<1>3. ASSUME NEW o \in OpIds, Age(o)
      PROVE  Quiet(lb, lb') /\ UNCHANGED <<req, hold>>
  BY <1>1, <1>3 DEF Age, BalancerShape, Quiet, SameLedger, Fields
<1>4. ASSUME NEW i \in Incs, Evict(i)
      PROVE  Quiet(lb, lb') /\ UNCHANGED <<req, hold>>
  BY <1>1, <1>4, RemovedQuiet DEF Evict
<1>5. ASSUME NEW c \in Configs, Reconfigure(c)
      PROVE  Quiet(lb, lb') /\ UNCHANGED <<req, hold>>
  BY <1>1, <1>5, PruneQuiet DEF Reconfigure
<1>6. ASSUME NEW n \in Targets, CooldownEnds(n) \/ Sample(n)
      PROVE  Quiet(lb, lb') /\ UNCHANGED <<req, hold>>
  BY <1>1, <1>6 DEF CooldownEnds, Sample, BalancerShape, Quiet, SameLedger, Fields
<1> QED
  BY <1>2, <1>3, <1>4, <1>5, <1>6, QuietStep

LEMMA LedgerNext ==
  ASSUME BalancerAssumption, LedgerInv, [Next]_vars
  PROVE  LedgerInv'
<1>1. ASSUME UNCHANGED vars
      PROVE  LedgerInv'
  <2>1. lb' = lb /\ UNCHANGED <<req, hold>>
    BY <1>1 DEF vars
  <2>2. Quiet(lb, lb')
    BY <2>1 DEF LedgerInv, Quiet, SameLedger
  <2> QED
    BY <2>1, <2>2, QuietStep
<1> QED
  BY <1>1, BeginStep, SelectStep, FailoverStep, FailoverFindsNothingStep, CloseStep, UnderwayStep,
     SubmitStep, SweepStep, StopStep, BackgroundStep DEF Next

\* Both in-flight counts always equal the reservations that are out (load-balancer.ts
\* 1416-1434, 1511-1534), for any number of requests, nodes and configurations.
THEOREM LedgerAlwaysCounts == Spec => []LedgerCountsHolders
<1>1. LedgerInv => LedgerCountsHolders
  BY DEF LedgerInv, Ledger, LedgerCountsHolders, Holders, HoldersOn
<1> QED
  BY <1>1, LedgerInit, LedgerNext, BalancerAssumption, PTL DEF Spec

-----------------------------------------------------------------------------
(***************************************************************************)
(* Operator moves among any number of requests, nodes, bindings and saves: *)
(* no move is written under a request, none is reported observed that was  *)
(* not, a failover outranks every move, and what a waiting move was        *)
(* allowed by stays in force.  The argument is one relation, Tame, that    *)
(* every step of the balancer but three satisfies: a boundary that writes  *)
(* a move, a request that lands one, and a saved configuration.            *)
(***************************************************************************)

\* Each operation is one the model opens, under a binding the runtime has known.
OpsTyped(s) ==
  /\ \E k \in 0 .. MaxOps : DOMAIN s.ops = 1 .. k
  /\ \A o \in DOMAIN s.ops : /\ s.ops[o] \in Operation
                             /\ s.ops[o].inc \in DOMAIN s.rv
                             /\ s.ops[o].state # "requested"

\* The rest of the balancer is well typed.
TableTyped(s) ==
  /\ Fields \subseteq DOMAIN s
  /\ s.cfg \in Configs /\ s.rev \in Nat /\ s.retired \in Nat
  /\ s.nextInc \in 1 .. MaxInc + 1
  /\ DOMAIN s.rv = 1 .. s.nextInc - 1 /\ \A i \in DOMAIN s.rv : s.rv[i] \in Nat
  /\ DOMAIN s.b \subseteq DOMAIN s.rv /\ \A i \in DOMAIN s.b : s.b[i] \in Binding
  /\ DOMAIN s.act \subseteq Incs /\ \A i \in DOMAIN s.act : s.act[i] \in Nat
  /\ s.resv \in [Targets -> Nat]
  /\ s.cooling \subseteq s.cfg.known /\ s.asleep \subseteq s.cfg.known

Typed(s) == TableTyped(s) /\ OpsTyped(s)

\* A step that only withdraws an operation, or leaves it.
WithdrawnTo(p, q) ==
  \/ q = p
  \/ p = "pending_boundary" /\ q \in {"cancelled", "expired"}
  \/ p = "applied" /\ q = "expired_after_apply"

SameTerms(p, q) ==
  q.inc = p.inc /\ q.dst = p.dst /\ q.gRev = p.gRev /\ q.appliedRev = p.appliedRev

Withdraws(s, u) ==
  /\ DOMAIN u.ops = DOMAIN s.ops
  /\ \A o \in DOMAIN s.ops : /\ SameTerms(s.ops[o], u.ops[o])
                             /\ WithdrawnTo(s.ops[o].state, u.ops[o].state)

\* The group stands, a stopped balancer gets no binding, and no revision runs backwards.
SameGroup(s, u) ==
  /\ u.cfg = s.cfg /\ u.rev = s.rev /\ u.retired = s.retired /\ u.up = s.up
  /\ s.up \/ DOMAIN u.b \subseteq DOMAIN s.b

Grows(s, u) == \A i \in DOMAIN s.rv : i \in DOMAIN u.rv /\ u.rv[i] >= s.rv[i]

Tame(s, u) == Typed(u) /\ SameGroup(s, u) /\ Withdraws(s, u) /\ Grows(s, u)

\* A step that writes one waiting move of binding i, and withdraws at most.
Writes(s, u, i) ==
  /\ Typed(u) /\ SameGroup(s, u) /\ Grows(s, u)
  /\ DOMAIN u.ops = DOMAIN s.ops
  /\ \E o \in DOMAIN s.ops :
       /\ s.ops[o].inc = i /\ s.ops[o].state = "pending_boundary"
       /\ u.ops[o].inc = i /\ u.ops[o].dst = s.ops[o].dst /\ u.ops[o].gRev = s.ops[o].gRev
       /\ u.ops[o].state = "applied" /\ u.ops[o].appliedRev = u.rv[i]
       /\ \A p \in DOMAIN s.ops \ {o} : /\ SameTerms(s.ops[p], u.ops[p])
                                        /\ WithdrawnTo(s.ops[p].state, u.ops[p].state)

-----------------------------------------------------------------------------
(* Steps of the balancer that are tame.                                    *)

LEMMA TameTrans ==
  ASSUME NEW s, NEW u, NEW v, Typed(s), Tame(s, u), Tame(u, v)
  PROVE  Tame(s, v)
<1>1. Withdraws(s, v)
  BY DEF Tame, Withdraws, SameTerms, WithdrawnTo
<1>2. Grows(s, v)
  <2> SUFFICES ASSUME NEW i \in DOMAIN s.rv
               PROVE  i \in DOMAIN v.rv /\ v.rv[i] >= s.rv[i]
    BY DEF Grows
  <2>1. i \in DOMAIN u.rv /\ u.rv[i] >= s.rv[i] /\ i \in DOMAIN v.rv /\ v.rv[i] >= u.rv[i]
    BY DEF Tame, Grows
  <2>2. s.rv[i] \in Nat /\ u.rv[i] \in Nat /\ v.rv[i] \in Nat
    BY <2>1 DEF Tame, Typed, TableTyped
  <2> QED
    BY <2>1, <2>2
<1>3. SameGroup(s, v)
  BY DEF Tame, SameGroup
<1> QED
  BY <1>1, <1>2, <1>3 DEF Tame

LEMMA TameSelf ==
  ASSUME NEW s, Typed(s)
  PROVE  Tame(s, s)
<1>1. Grows(s, s)
  BY DEF Grows, Typed, TableTyped
<1> QED
  BY <1>1 DEF Tame, SameGroup, Withdraws, SameTerms, WithdrawnTo

\* A change of anything but the group, the revisions and the operations.
LEMMA TameBeside ==
  ASSUME NEW s, NEW u, Typed(s), TableTyped(u), SameGroup(s, u), u.ops = s.ops, u.rv = s.rv
  PROVE  Tame(s, u)
<1>1. Grows(s, u)
  BY DEF Grows, Typed, TableTyped
<1>2. OpsTyped(u)
  BY DEF Typed, OpsTyped
<1> QED
  BY <1>1, <1>2 DEF Tame, Typed, Withdraws, SameTerms, WithdrawnTo

\* What ToState does to each operation and to nothing else.
LEMMA ToStateShape ==
  ASSUME NEW s, Fields \subseteq DOMAIN s, NEW O, NEW state
  PROVE  /\ Fields \subseteq DOMAIN ToState(s, O, state)
         /\ \A f \in Fields \ {"ops"} : ToState(s, O, state)[f] = s[f]
         /\ DOMAIN ToState(s, O, state).ops = DOMAIN s.ops
         /\ \A o \in DOMAIN s.ops : ToState(s, O, state).ops[o] =
              IF o \in O THEN [s.ops[o] EXCEPT !.state = state] ELSE s.ops[o]
  BY DEF ToState, Fields

LEMMA SameFields ==
  ASSUME NEW s, NEW u, \A f \in Fields \ {"ops"} : u[f] = s[f]
  PROVE  /\ u.up = s.up /\ u.cfg = s.cfg /\ u.rev = s.rev /\ u.retired = s.retired
         /\ u.b = s.b /\ u.rv = s.rv /\ u.nextInc = s.nextInc /\ u.act = s.act /\ u.resv = s.resv
         /\ u.cooling = s.cooling /\ u.asleep = s.asleep
  BY DEF Fields

\* Operations may be taken to any state they may be withdrawn to, or be observed in.
LEMMA ToStateTyped ==
  ASSUME NEW s, Typed(s), NEW O, NEW state \in Terminal
  PROVE  Typed(ToState(s, O, state))
<1> DEFINE u == ToState(s, O, state)
<1>1. /\ Fields \subseteq DOMAIN u /\ \A f \in Fields \ {"ops"} : u[f] = s[f]
      /\ DOMAIN u.ops = DOMAIN s.ops
      /\ \A o \in DOMAIN s.ops : u.ops[o] = IF o \in O THEN [s.ops[o] EXCEPT !.state = state] ELSE s.ops[o]
  BY ToStateShape DEF Typed, TableTyped
<1> HIDE DEF u
<1>2. TableTyped(u)
  BY <1>1, SameFields DEF Typed, TableTyped
<1>3. \A o \in DOMAIN s.ops : /\ u.ops[o] \in Operation /\ u.ops[o].inc = s.ops[o].inc
                              /\ u.ops[o].state # "requested"
  <2> SUFFICES ASSUME NEW o \in DOMAIN s.ops
               PROVE  u.ops[o] \in Operation /\ u.ops[o].inc = s.ops[o].inc /\ u.ops[o].state # "requested"
    OBVIOUS
  <2>1. s.ops[o] \in Operation /\ s.ops[o].state # "requested"
    BY DEF Typed, OpsTyped
  <2>2. u.ops[o] = IF o \in O THEN [s.ops[o] EXCEPT !.state = state] ELSE s.ops[o]
    BY <1>1
  <2>3. state \in MigrationState /\ state # "requested"
    BY DEF MigrationState, Terminal
  <2> QED
    BY <2>1, <2>2, <2>3 DEF Operation
<1>4. u.rv = s.rv
  BY <1>1, SameFields
<1>5. OpsTyped(u)
  BY <1>1, <1>3, <1>4 DEF Typed, OpsTyped
<1> QED
  BY <1>2, <1>5 DEF Typed, u

LEMMA ToStateTame ==
  ASSUME NEW s, Typed(s), NEW O, NEW state \in Terminal,
         \A o \in DOMAIN s.ops \cap O : WithdrawnTo(s.ops[o].state, state)
  PROVE  /\ Tame(s, ToState(s, O, state))
         /\ \A f \in Fields \ {"ops"} : ToState(s, O, state)[f] = s[f]
<1> DEFINE u == ToState(s, O, state)
<1>1. /\ Fields \subseteq DOMAIN u /\ \A f \in Fields \ {"ops"} : u[f] = s[f]
      /\ DOMAIN u.ops = DOMAIN s.ops
      /\ \A o \in DOMAIN s.ops : u.ops[o] = IF o \in O THEN [s.ops[o] EXCEPT !.state = state] ELSE s.ops[o]
  BY ToStateShape DEF Typed, TableTyped
<1>2. Typed(u)
  BY ToStateTyped
<1> HIDE DEF u
<1>3. ASSUME NEW o \in DOMAIN s.ops
      PROVE  SameTerms(s.ops[o], u.ops[o]) /\ WithdrawnTo(s.ops[o].state, u.ops[o].state)
  <2>1. s.ops[o] \in Operation
    BY DEF Typed, OpsTyped
  <2>2. CASE o \in O
    <3>1. u.ops[o] = [s.ops[o] EXCEPT !.state = state]
      BY <1>1, <2>2
    <3>2. u.ops[o].state = state
      BY <2>1, <3>1 DEF Operation
    <3>3. SameTerms(s.ops[o], u.ops[o])
      BY <2>1, <3>1 DEF Operation, SameTerms
    <3> QED
      BY <2>2, <3>2, <3>3
  <2>3. CASE o \notin O
    BY <1>1, <2>3 DEF SameTerms, WithdrawnTo
  <2> QED
    BY <2>2, <2>3
<1>4. SameGroup(s, u) /\ u.rv = s.rv
  BY <1>1, SameFields DEF SameGroup
<1>5. Grows(s, u)
  BY <1>4 DEF Grows, Typed, TableTyped
<1> QED
  BY <1>1, <1>2, <1>3, <1>4, <1>5 DEF Tame, Withdraws, u

-----------------------------------------------------------------------------
(* The balancer's own operations are tame.                                 *)

LEMMA RebindFields ==
  ASSUME NEW s, Fields \subseteq DOMAIN s, NEW i \in DOMAIN s.b, NEW n,
         i \in DOMAIN s.rv, s.b[i] \in Binding, s.rv[i] \in Nat
  PROVE  /\ Fields \subseteq DOMAIN Rebind(s, i, n)
         /\ \A f \in Fields \ {"b", "rv"} : Rebind(s, i, n)[f] = s[f]
         /\ DOMAIN Rebind(s, i, n).b = DOMAIN s.b
         /\ \A j \in DOMAIN s.b : Rebind(s, i, n).b[j] =
              IF j = i THEN [s.b[i] EXCEPT !.target = n] ELSE s.b[j]
         /\ DOMAIN Rebind(s, i, n).rv = DOMAIN s.rv
         /\ \A j \in DOMAIN s.rv : Rebind(s, i, n).rv[j] =
              IF j = i /\ s.b[i].target # n THEN s.rv[i] + 1 ELSE s.rv[j]
  BY DEF Rebind, Fields

\* A rebind moves a route; the operations do not know of it.
LEMMA RebindTame ==
  ASSUME NEW s, Typed(s), NEW i \in DOMAIN s.b, NEW n \in Targets
  PROVE  /\ Tame(s, Rebind(s, i, n))
         /\ DOMAIN Rebind(s, i, n).b = DOMAIN s.b
<1> DEFINE u == Rebind(s, i, n)
<1>0. Fields \subseteq DOMAIN s /\ i \in DOMAIN s.rv /\ s.b[i] \in Binding /\ s.rv[i] \in Nat
  BY DEF Typed, TableTyped
<1>1. /\ Fields \subseteq DOMAIN u /\ \A f \in Fields \ {"b", "rv"} : u[f] = s[f]
      /\ DOMAIN u.b = DOMAIN s.b
      /\ \A j \in DOMAIN s.b : u.b[j] = IF j = i THEN [s.b[i] EXCEPT !.target = n] ELSE s.b[j]
      /\ DOMAIN u.rv = DOMAIN s.rv
      /\ \A j \in DOMAIN s.rv : u.rv[j] = IF j = i /\ s.b[i].target # n THEN s.rv[i] + 1 ELSE s.rv[j]
  BY <1>0, RebindFields
<1> HIDE DEF u
<1>2. /\ u.up = s.up /\ u.cfg = s.cfg /\ u.rev = s.rev /\ u.retired = s.retired
      /\ u.nextInc = s.nextInc /\ u.act = s.act /\ u.resv = s.resv
      /\ u.cooling = s.cooling /\ u.asleep = s.asleep /\ u.ops = s.ops
  BY <1>1 DEF Fields
<1>3. \A j \in DOMAIN u.b : u.b[j] \in Binding
  <2>1. \A j \in DOMAIN s.b : s.b[j] \in Binding
    BY DEF Typed, TableTyped
  <2>2. [s.b[i] EXCEPT !.target = n] \in Binding
    BY <1>0 DEF Binding
  <2> QED
    BY <1>1, <2>1, <2>2
<1>4. \A j \in DOMAIN s.rv : s.rv[j] \in Nat /\ u.rv[j] \in Nat /\ u.rv[j] >= s.rv[j]
  <2>1. \A j \in DOMAIN s.rv : s.rv[j] \in Nat
    BY DEF Typed, TableTyped
  <2> TAKE j \in DOMAIN s.rv
  <2>2. u.rv[j] = s.rv[j] \/ u.rv[j] = s.rv[j] + 1
    BY <1>1
  <2> QED
    BY <2>1, <2>2
<1>5. TableTyped(u)
  BY <1>1, <1>2, <1>3, <1>4 DEF Typed, TableTyped
<1>6. OpsTyped(u)
  BY <1>1, <1>2 DEF Typed, OpsTyped
<1>7. SameGroup(s, u)
  BY <1>1, <1>2 DEF SameGroup
<1>8. Withdraws(s, u)
  BY <1>2 DEF Withdraws, SameTerms, WithdrawnTo
<1>9. Grows(s, u)
  BY <1>1, <1>4 DEF Grows
<1> QED
  BY <1>1, <1>5, <1>6, <1>7, <1>8, <1>9 DEF Tame, Typed, u

\* reserve() counts.
LEMMA ReserveTame ==
  ASSUME BalancerAssumption, NEW s, Typed(s), NEW h, h.inc \in DOMAIN s.rv, h.target \in Targets
  PROVE  Tame(s, Reserve(s, h))
<1> DEFINE u == Reserve(s, h)
<1>1. /\ Fields \subseteq DOMAIN u
      /\ u.up = s.up /\ u.cfg = s.cfg /\ u.rev = s.rev /\ u.retired = s.retired
      /\ u.b = s.b /\ u.rv = s.rv /\ u.nextInc = s.nextInc /\ u.ops = s.ops
      /\ u.cooling = s.cooling /\ u.asleep = s.asleep
      /\ u.resv = [s.resv EXCEPT ![h.target] = @ + 1]
      /\ u.act = Put(s.act, h.inc, InFlight(s, h.inc) + 1)
  BY DEF Typed, TableTyped, Reserve, Fields
<1> HIDE DEF u
<1>2. h.inc \in Incs
  BY DEF Typed, TableTyped, Incs, BalancerAssumption
<1>3. DOMAIN u.act \subseteq Incs /\ \A i \in DOMAIN u.act : u.act[i] \in Nat
  BY <1>1, <1>2 DEF Typed, TableTyped, InFlight, Put
<1>4. u.resv \in [Targets -> Nat]
  BY <1>1 DEF Typed, TableTyped
<1>5. TableTyped(u)
  BY <1>1, <1>3, <1>4 DEF Typed, TableTyped
<1>6. SameGroup(s, u)
  BY <1>1 DEF SameGroup
<1> QED
  BY <1>1, <1>5, <1>6, TameBeside DEF u

\* Both counts come back.
LEMMA GiveBackTame ==
  ASSUME BalancerAssumption, NEW s, Typed(s), NEW h, h.inc \in Incs, h.target \in Targets
  PROVE  Tame(s, GiveBack(s, h)) /\ GiveBack(s, h).ops = s.ops
<1> DEFINE act2 == IF h.inc \notin DOMAIN s.act THEN s.act
                   ELSE IF s.act[h.inc] <= 1 /\ ~ HasBinding(s, h.inc) THEN Without(s.act, {h.inc})
                   ELSE Put(s.act, h.inc, IF s.act[h.inc] > 0 THEN s.act[h.inc] - 1 ELSE 0)
           u == GiveBack(s, h)
<1>1. /\ Fields \subseteq DOMAIN u
      /\ u.up = s.up /\ u.cfg = s.cfg /\ u.rev = s.rev /\ u.retired = s.retired
      /\ u.b = s.b /\ u.rv = s.rv /\ u.nextInc = s.nextInc /\ u.ops = s.ops
      /\ u.cooling = s.cooling /\ u.asleep = s.asleep
      /\ u.resv = [s.resv EXCEPT ![h.target] = IF @ <= 1 THEN 0 ELSE @ - 1]
      /\ u.act = act2
  BY DEF Typed, TableTyped, GiveBack, Fields
<1> HIDE DEF u
<1>3. DOMAIN act2 \subseteq Incs /\ \A i \in DOMAIN act2 : act2[i] \in Nat
  BY DEF Typed, TableTyped, Put, Without
<1> HIDE DEF act2
<1>4. u.resv \in [Targets -> Nat]
  BY <1>1 DEF Typed, TableTyped
<1>5. TableTyped(u)
  BY <1>1, <1>3, <1>4 DEF Typed, TableTyped
<1>6. SameGroup(s, u)
  BY <1>1 DEF SameGroup
<1> QED
  BY <1>1, <1>5, <1>6, TameBeside DEF u

LEMMA CoolingTame ==
  ASSUME NEW s, Typed(s), NEW n
  PROVE  /\ Tame(s, MarkFailure(s, n)) /\ MarkFailure(s, n).ops = s.ops
         /\ Tame(s, NoteSuccess(s, n))
<1>1. ASSUME NEW cooling \in SUBSET s.cfg.known
      PROVE  Tame(s, [s EXCEPT !.cooling = cooling]) /\ [s EXCEPT !.cooling = cooling].ops = s.ops
  <2> DEFINE u == [s EXCEPT !.cooling = cooling]
  <2>1. /\ Fields \subseteq DOMAIN u
        /\ u.up = s.up /\ u.cfg = s.cfg /\ u.rev = s.rev /\ u.retired = s.retired
        /\ u.b = s.b /\ u.rv = s.rv /\ u.nextInc = s.nextInc /\ u.ops = s.ops
        /\ u.cooling = cooling /\ u.asleep = s.asleep /\ u.resv = s.resv /\ u.act = s.act
    BY DEF Typed, TableTyped, Fields
  <2> HIDE DEF u
  <2>2. TableTyped(u)
    BY <2>1 DEF Typed, TableTyped
  <2>3. SameGroup(s, u)
    BY <2>1 DEF SameGroup
  <2> QED
    BY <2>1, <2>2, <2>3, TameBeside DEF u
<1>2. MarkFailure(s, n) = IF n \in s.cfg.known THEN [s EXCEPT !.cooling = s.cooling \cup {n}] ELSE s
  BY DEF MarkFailure
<1>3. NoteSuccess(s, n) = [s EXCEPT !.cooling = s.cooling \ {n}]
  BY DEF NoteSuccess
<1>4. s.cooling \subseteq s.cfg.known
  BY DEF Typed, TableTyped
<1> QED
  BY <1>1, <1>2, <1>3, <1>4, TameSelf

\* Bindings leave the table.
LEMMA RemovedTame ==
  ASSUME NEW s, Typed(s), NEW S
  PROVE  Tame(s, Removed(s, S))
<1> DEFINE u == Removed(s, S)
<1>1. /\ Fields \subseteq DOMAIN u
      /\ u.up = s.up /\ u.cfg = s.cfg /\ u.rev = s.rev /\ u.retired = s.retired
      /\ u.b = Without(s.b, S) /\ u.rv = s.rv /\ u.nextInc = s.nextInc /\ u.ops = s.ops
      /\ u.cooling = s.cooling /\ u.asleep = s.asleep /\ u.resv = s.resv /\ u.act = s.act
  BY DEF Typed, TableTyped, Removed, Fields
<1> HIDE DEF u
<1>2. DOMAIN u.b \subseteq DOMAIN s.b /\ \A i \in DOMAIN u.b : u.b[i] = s.b[i]
  BY <1>1 DEF Without
<1>3. TableTyped(u)
  BY <1>1, <1>2 DEF Typed, TableTyped
<1>4. SameGroup(s, u)
  BY <1>1, <1>2 DEF SameGroup
<1> QED
  BY <1>1, <1>3, <1>4, TameBeside DEF u

LEMMA DropIdleTame ==
  ASSUME NEW s, Typed(s)
  PROVE  Tame(s, DropIdle(s))
<1> DEFINE u == DropIdle(s)
<1>1. /\ Fields \subseteq DOMAIN u
      /\ u.up = s.up /\ u.cfg = s.cfg /\ u.rev = s.rev /\ u.retired = s.retired
      /\ u.b = s.b /\ u.rv = s.rv /\ u.nextInc = s.nextInc /\ u.ops = s.ops
      /\ u.cooling = s.cooling /\ u.asleep = s.asleep /\ u.resv = s.resv
      /\ u.act = Without(s.act, {i \in DOMAIN s.act : s.act[i] = 0 /\ ~ HasBinding(s, i)})
  BY DEF Typed, TableTyped, DropIdle, Fields
<1> HIDE DEF u
<1>2. DOMAIN u.act \subseteq DOMAIN s.act /\ \A i \in DOMAIN u.act : u.act[i] = s.act[i]
  BY <1>1 DEF Without
<1>3. TableTyped(u)
  BY <1>1, <1>2 DEF Typed, TableTyped
<1>4. SameGroup(s, u)
  BY <1>1 DEF SameGroup
<1> QED
  BY <1>1, <1>3, <1>4, TameBeside DEF u

\* A failover withdraws every move of its binding that is still under way.
LEMMA InvalidateTame ==
  ASSUME NEW s, Typed(s), NEW i
  PROVE  /\ Tame(s, Invalidate(s, i))
         /\ \A o \in DOMAIN s.ops : s.ops[o].inc = i => Invalidate(s, i).ops[o].state \in Terminal
<1> DEFINE O == InState(s, i, "pending_boundary")
           u == ToState(s, O, "expired")
           P == InState(s, i, "applied")
           v == ToState(u, P, "expired_after_apply")
<1>1. \A o \in DOMAIN s.ops : /\ o \in O <=> s.ops[o].inc = i /\ s.ops[o].state = "pending_boundary"
                              /\ o \in P <=> s.ops[o].inc = i /\ s.ops[o].state = "applied"
  BY DEF InState
<1>2. O \subseteq DOMAIN s.ops /\ P \subseteq DOMAIN s.ops
  BY DEF InState
<1> HIDE DEF O, P
<1>3. "expired" \in Terminal /\ "expired_after_apply" \in Terminal
  BY DEF Terminal
<1>4. Tame(s, u)
  BY <1>1, <1>3, ToStateTame DEF WithdrawnTo
<1>5. /\ DOMAIN u.ops = DOMAIN s.ops
      /\ \A o \in DOMAIN s.ops : u.ops[o] = IF o \in O THEN [s.ops[o] EXCEPT !.state = "expired"] ELSE s.ops[o]
  BY ToStateShape DEF Typed, TableTyped
<1>6. Fields \subseteq DOMAIN u /\ Typed(u)
  BY <1>4 DEF Tame, Typed, TableTyped
<1> HIDE DEF u
<1>7. \A o \in P : u.ops[o].state = "applied"
  BY <1>1, <1>2, <1>5
<1>8. Tame(u, v)
  BY <1>3, <1>6, <1>7, ToStateTame DEF WithdrawnTo
<1>9. \A o \in DOMAIN s.ops : v.ops[o] = IF o \in P THEN [u.ops[o] EXCEPT !.state = "expired_after_apply"] ELSE u.ops[o]
  BY <1>5, <1>6, ToStateShape
<1> HIDE DEF v
<1>10. Tame(s, v)
  BY <1>4, <1>8, TameTrans
<1>11. ASSUME NEW o \in DOMAIN s.ops, s.ops[o].inc = i
       PROVE  v.ops[o].state \in Terminal
  <2>1. s.ops[o] \in Operation /\ s.ops[o].state # "requested"
    BY DEF Typed, OpsTyped
  <2>2. s.ops[o].state \in Terminal \cup {"pending_boundary", "applied"}
    BY <2>1 DEF Operation, MigrationState
  <2>3. u.ops[o] \in Operation
    BY <1>5, <1>6 DEF Typed, OpsTyped
  <2>4. CASE o \in P
    BY <1>3, <1>9, <2>3, <2>4 DEF Operation
  <2>5. CASE o \notin P /\ o \in O
    BY <1>3, <1>5, <1>9, <2>1, <2>5 DEF Operation
  <2>6. CASE o \notin P /\ o \notin O
    BY <1>1, <1>5, <1>9, <1>11, <2>2, <2>6
  <2> QED
    BY <2>4, <2>5, <2>6
<1> QED
  BY <1>10, <1>11 DEF Invalidate, u, v, O, P

\* The sweep withdraws, and what it leaves waiting passes every gate.
LEMMA RefreshTame ==
  ASSUME NEW s, Typed(s)
  PROVE  /\ Tame(s, Refresh(s))
         /\ \A o \in DOMAIN s.ops : Refresh(s).ops[o].state = "pending_boundary" => s.ops[o].gRev = s.rev
<1> DEFINE applied == {o \in DOMAIN s.ops : s.ops[o].state = "applied"}
           pending == {o \in DOMAIN s.ops : s.ops[o].state = "pending_boundary"}
           followed == {o \in applied : /\ ~ s.ops[o].aged
                                        /\ HasBinding(s, s.ops[o].inc)
                                        /\ s.ops[o].appliedRev = s.rv[s.ops[o].inc]}
           waiting == {o \in pending : ~ s.ops[o].aged /\ Movable(s, o)}
           O == applied \ followed
           P == pending \ waiting
           u == ToState(s, O, "expired_after_apply")
           v == ToState(u, P, "expired")
<1>1. \A o \in O : o \in DOMAIN s.ops /\ s.ops[o].state = "applied"
  OBVIOUS
<1>2. \A o \in P : o \in DOMAIN s.ops /\ s.ops[o].state = "pending_boundary"
  OBVIOUS
<1>3. \A o \in DOMAIN s.ops : s.ops[o].state = "pending_boundary" /\ o \notin P => s.ops[o].gRev = s.rev
  BY DEF Movable
<1>4. "expired" \in Terminal /\ "expired_after_apply" \in Terminal
  BY DEF Terminal
<1>5. Refresh(s) = v
  BY DEF Refresh
<1> HIDE DEF O, P, v
<1>6. Tame(s, u)
  BY <1>1, <1>4, ToStateTame DEF WithdrawnTo
<1>7. /\ DOMAIN u.ops = DOMAIN s.ops
      /\ \A o \in DOMAIN s.ops : u.ops[o] = IF o \in O THEN [s.ops[o] EXCEPT !.state = "expired_after_apply"] ELSE s.ops[o]
  BY ToStateShape DEF Typed, TableTyped
<1>8. Fields \subseteq DOMAIN u /\ Typed(u)
  BY <1>6 DEF Tame, Typed, TableTyped
<1> HIDE DEF u
<1>9. \A o \in P : o \notin O /\ u.ops[o].state = "pending_boundary"
  BY <1>1, <1>2, <1>7
<1>10. Tame(u, v) /\ \A o \in DOMAIN s.ops :
         v.ops[o] = IF o \in P THEN [u.ops[o] EXCEPT !.state = "expired"] ELSE u.ops[o]
  BY <1>4, <1>7, <1>8, <1>9, ToStateTame, ToStateShape DEF WithdrawnTo, v
<1>11. ASSUME NEW o \in DOMAIN s.ops, v.ops[o].state = "pending_boundary"
       PROVE  s.ops[o].gRev = s.rev
  <2>1. s.ops[o] \in Operation
    BY DEF Typed, OpsTyped
  <2>2. u.ops[o] \in Operation
    BY <1>7, <1>8 DEF Typed, OpsTyped
  <2>3. o \notin P
    <3>1. CASE o \in P
      <4>1. v.ops[o].state = "expired"
        BY <1>10, <2>2, <3>1 DEF Operation
      <4> QED
        BY <1>11, <4>1
    <3> QED
      BY <3>1
  <2>4. o \notin O
    <3>1. CASE o \in O
      <4>1. v.ops[o].state = "expired_after_apply"
        BY <1>7, <1>10, <2>1, <2>3, <3>1 DEF Operation
      <4> QED
        BY <1>11, <4>1
    <3> QED
      BY <3>1
  <2>5. s.ops[o].state = "pending_boundary"
    BY <1>7, <1>10, <1>11, <2>3, <2>4
  <2> QED
    BY <1>3, <2>3, <2>5
<1>12. Tame(s, v)
  BY <1>6, <1>10, TameTrans
<1> QED
  BY <1>5, <1>11, <1>12

\* Writing a waiting move: its route, then its record.
LEMMA ApplyWrites ==
  ASSUME NEW s, Typed(s), NEW o \in DOMAIN s.ops, NEW i \in DOMAIN s.b,
         s.ops[o].inc = i, s.ops[o].state = "pending_boundary"
  PROVE  Writes(s, Apply(s, o), i)
<1> DEFINE q == s.ops[o]
           m == Rebind(s, i, q.dst)
           w == [m EXCEPT !.ops[o].state = "applied", !.ops[o].appliedRev = m.rv[i]]
<1>1. q \in Operation /\ q.inc = i /\ q.dst \in Targets
  BY DEF Typed, OpsTyped, Operation
<1>2. Apply(s, o) = w
  BY DEF Apply
<1>3. m.ops = s.ops
  BY DEF Rebind, Typed, TableTyped, Fields
<1> HIDE DEF q
<1>4. Tame(s, m)
  BY <1>1, RebindTame
<1>5. Fields \subseteq DOMAIN m /\ i \in DOMAIN m.rv /\ m.rv[i] \in Nat
  BY <1>4 DEF Tame, Typed, TableTyped, Grows
<1> HIDE DEF m
<1>6. /\ \A f \in Fields \ {"ops"} : w[f] = m[f]
      /\ Fields \subseteq DOMAIN w /\ DOMAIN w.ops = DOMAIN s.ops
      /\ \A p \in DOMAIN s.ops \ {o} : w.ops[p] = m.ops[p]
      /\ w.ops[o] = [m.ops[o] EXCEPT !.state = "applied", !.appliedRev = m.rv[i]]
  BY <1>3, <1>5 DEF Fields
<1> HIDE DEF w
<1>7. w.ops[o] = [q EXCEPT !.state = "applied", !.appliedRev = m.rv[i]]
  BY <1>3, <1>6 DEF q
<1>8. m.rv[i] \in Nat /\ "applied" \in MigrationState
  BY <1>5 DEF MigrationState
<1>9. w.ops[o] \in Operation
  BY <1>1, <1>7, <1>8 DEF Operation
<1>10. /\ w.ops[o].inc = i /\ w.ops[o].dst = q.dst /\ w.ops[o].gRev = q.gRev
       /\ w.ops[o].state = "applied" /\ w.ops[o].appliedRev = m.rv[i]
  BY <1>1, <1>7 DEF Operation
<1>11. /\ w.up = m.up /\ w.cfg = m.cfg /\ w.rev = m.rev /\ w.retired = m.retired
       /\ w.b = m.b /\ w.rv = m.rv /\ w.nextInc = m.nextInc /\ w.act = m.act /\ w.resv = m.resv
       /\ w.cooling = m.cooling /\ w.asleep = m.asleep
  BY <1>6, SameFields
<1>12. TableTyped(w)
  BY <1>4, <1>6, <1>11 DEF Tame, Typed, TableTyped
<1>13. OpsTyped(w)
  <2>1. \A p \in DOMAIN s.ops \ {o} :
          w.ops[p] \in Operation /\ w.ops[p].inc \in DOMAIN w.rv /\ w.ops[p].state # "requested"
    BY <1>3, <1>4, <1>6, <1>11 DEF Tame, Typed, OpsTyped
  <2>2. \E k \in 0 .. MaxOps : DOMAIN w.ops = 1 .. k
    BY <1>6 DEF Typed, OpsTyped
  <2> QED
    BY <1>5, <1>6, <1>9, <1>10, <1>11, <2>1, <2>2 DEF OpsTyped
<1>14. SameGroup(s, w) /\ Grows(s, w)
  BY <1>4, <1>11 DEF Tame, SameGroup, Grows
<1>15. \A p \in DOMAIN s.ops \ {o} : SameTerms(s.ops[p], w.ops[p]) /\ WithdrawnTo(s.ops[p].state, w.ops[p].state)
  BY <1>3, <1>6 DEF SameTerms, WithdrawnTo
<1>16. Writes(s, w, i)
  <2>1. Typed(w)
    BY <1>6, <1>12, <1>13 DEF Typed
  <2>2. /\ o \in DOMAIN s.ops /\ s.ops[o].inc = i /\ s.ops[o].state = "pending_boundary"
        /\ w.ops[o].inc = i /\ w.ops[o].dst = s.ops[o].dst /\ w.ops[o].gRev = s.ops[o].gRev
        /\ w.ops[o].state = "applied" /\ w.ops[o].appliedRev = w.rv[i]
    BY <1>10, <1>11 DEF q
  <2> QED
    BY <1>6, <1>14, <1>15, <2>1, <2>2 DEF Writes
<1> QED
  BY <1>2, <1>16

LEMMA TameThenWrites ==
  ASSUME NEW s, NEW u, NEW v, NEW i, Typed(s), Tame(s, u), Writes(u, v, i)
  PROVE  Writes(s, v, i)
<1>1. PICK o \in DOMAIN u.ops :
        /\ u.ops[o].inc = i /\ u.ops[o].state = "pending_boundary"
        /\ v.ops[o].inc = i /\ v.ops[o].dst = u.ops[o].dst /\ v.ops[o].gRev = u.ops[o].gRev
        /\ v.ops[o].state = "applied" /\ v.ops[o].appliedRev = v.rv[i]
        /\ \A p \in DOMAIN u.ops \ {o} : /\ SameTerms(u.ops[p], v.ops[p])
                                         /\ WithdrawnTo(u.ops[p].state, v.ops[p].state)
  BY DEF Writes
<1>2. /\ o \in DOMAIN s.ops /\ s.ops[o].inc = i /\ s.ops[o].state = "pending_boundary"
      /\ v.ops[o].dst = s.ops[o].dst /\ v.ops[o].gRev = s.ops[o].gRev
  BY <1>1 DEF Tame, Withdraws, SameTerms, WithdrawnTo
<1>3. \A p \in DOMAIN s.ops \ {o} : SameTerms(s.ops[p], v.ops[p]) /\ WithdrawnTo(s.ops[p].state, v.ops[p].state)
  BY <1>1 DEF Tame, Withdraws, SameTerms, WithdrawnTo
<1>4. Grows(s, v)
  <2> SUFFICES ASSUME NEW j \in DOMAIN s.rv
               PROVE  j \in DOMAIN v.rv /\ v.rv[j] >= s.rv[j]
    BY DEF Grows
  <2>1. j \in DOMAIN u.rv /\ u.rv[j] >= s.rv[j] /\ j \in DOMAIN v.rv /\ v.rv[j] >= u.rv[j]
    BY DEF Tame, Writes, Grows
  <2>2. s.rv[j] \in Nat /\ u.rv[j] \in Nat /\ v.rv[j] \in Nat
    BY <2>1 DEF Tame, Writes, Typed, TableTyped
  <2> QED
    BY <2>1, <2>2
<1>5. SameGroup(s, v) /\ DOMAIN v.ops = DOMAIN s.ops /\ Typed(v)
  BY DEF Tame, Writes, SameGroup, Withdraws
<1> QED
  BY <1>1, <1>2, <1>3, <1>4, <1>5 DEF Writes

\* A boundary withdraws at most, or writes one move of a binding nobody uses.
LEMMA BoundaryWrites ==
  ASSUME BalancerAssumption, NEW s, Typed(s), NEW i
  PROVE  \/ Tame(s, ApplyAtBoundary(s, i))
         \/ InFlight(s, i) = 0 /\ Writes(s, ApplyAtBoundary(s, i), i)
<1> DEFINE pending == InState(s, i, "pending_boundary")
           movable == {o \in pending : Movable(s, o)}
           first == FirstOf(movable)
           o1 == CHOOSE o \in first : TRUE
           O == pending \ first
           P == pending \ movable
           u == ToState(s, O, "expired")
<1>1. ApplyAtBoundary(s, i) = IF first # {} /\ InFlight(s, i) = 0 THEN Apply(u, o1)
                              ELSE ToState(s, P, "expired")
  BY DEF ApplyAtBoundary
<1>2. \A o \in pending : o \in DOMAIN s.ops /\ s.ops[o].inc = i /\ s.ops[o].state = "pending_boundary"
  BY DEF InState
<1>3. /\ first \subseteq movable
      /\ \A o \in movable : o \in pending /\ Movable(s, o)
      /\ O \subseteq pending /\ P \subseteq pending
      /\ first # {} => o1 \in first /\ o1 \notin O
  BY DEF FirstOf
<1>4. "expired" \in Terminal
  BY DEF Terminal
<1> HIDE DEF pending, movable, first, o1, O, P
<1>5. Tame(s, u) /\ (\A f \in Fields \ {"ops"} : u[f] = s[f]) /\ Tame(s, ToState(s, P, "expired"))
  <2>1. \A o \in DOMAIN s.ops : o \in O \/ o \in P => WithdrawnTo(s.ops[o].state, "expired")
    BY <1>2, <1>3 DEF WithdrawnTo
  <2> QED
    BY <1>4, <2>1, ToStateTame
<1>6. ASSUME first # {}
      PROVE  Writes(s, Apply(u, o1), i)
  <2>1. /\ o1 \in DOMAIN s.ops /\ s.ops[o1].inc = i /\ s.ops[o1].state = "pending_boundary"
        /\ i \in DOMAIN s.b /\ o1 \notin O
    BY <1>2, <1>3, <1>6 DEF Movable, HasBinding
  <2>2. Fields \subseteq DOMAIN s
    BY DEF Typed, TableTyped
  <2>3. /\ DOMAIN u.ops = DOMAIN s.ops
        /\ \A o \in DOMAIN s.ops : u.ops[o] = IF o \in O THEN [s.ops[o] EXCEPT !.state = "expired"] ELSE s.ops[o]
    BY <2>2, ToStateShape
  <2>4. u.b = s.b /\ Typed(u)
    BY <1>5 DEF Fields, Tame
  <2> HIDE DEF u
  <2>5. u.ops[o1] = s.ops[o1]
    BY <2>1, <2>3
  <2>6. Writes(u, Apply(u, o1), i)
    BY <2>1, <2>3, <2>4, <2>5, ApplyWrites
  <2> QED
    BY <1>5, <2>6, TameThenWrites
<1> HIDE DEF u
<1> QED
  BY <1>1, <1>5, <1>6

-----------------------------------------------------------------------------
(* plan                                                                    *)

LEMMA ShapeOfTyped ==
  ASSUME BalancerAssumption, NEW s, Typed(s)
  PROVE  BalancerShape(s)
<1>1. s.nextInc \in Nat \ {0}
  BY DEF Typed, TableTyped, BalancerAssumption
<1>2. DOMAIN s.b \subseteq Incs
  BY DEF Typed, TableTyped, BalancerAssumption, Incs
<1>3. \A j \in DOMAIN s.b : {"task", "target", "named"} \subseteq DOMAIN s.b[j] /\ s.b[j].target \in Targets
  BY DEF Typed, TableTyped, Binding
<1> QED
  BY <1>1, <1>2, <1>3 DEF Typed, TableTyped, BalancerShape

LEMMA NoteNamedTame ==
  ASSUME NEW s, Typed(s), NEW i \in DOMAIN s.b, NEW named \in BOOLEAN
  PROVE  Tame(s, NoteNamed(s, i, named)) /\ DOMAIN NoteNamed(s, i, named).b = DOMAIN s.b
<1> DEFINE u == NoteNamed(s, i, named)
<1>1. /\ Fields \subseteq DOMAIN u
      /\ u.up = s.up /\ u.cfg = s.cfg /\ u.rev = s.rev /\ u.retired = s.retired
      /\ u.rv = s.rv /\ u.nextInc = s.nextInc /\ u.ops = s.ops
      /\ u.cooling = s.cooling /\ u.asleep = s.asleep /\ u.resv = s.resv /\ u.act = s.act
      /\ DOMAIN u.b = DOMAIN s.b
      /\ u.b[i] = [s.b[i] EXCEPT !.named = @ \/ named]
      /\ \A j \in DOMAIN s.b \ {i} : u.b[j] = s.b[j]
  BY DEF Typed, TableTyped, NoteNamed, Fields
<1> HIDE DEF u
<1>2. \A j \in DOMAIN s.b : s.b[j] \in Binding
  BY DEF Typed, TableTyped
<1>3. u.b[i] \in Binding
  BY <1>1, <1>2 DEF Binding
<1>4. \A j \in DOMAIN u.b : u.b[j] \in Binding
  BY <1>1, <1>2, <1>3
<1>5. TableTyped(u)
  BY <1>1, <1>4 DEF Typed, TableTyped
<1>6. SameGroup(s, u)
  BY <1>1 DEF SameGroup
<1> QED
  BY <1>1, <1>5, <1>6, TameBeside DEF u

\* A new binding starts at revision zero, under an incarnation no operation names.
LEMMA AddBindingTame ==
  ASSUME BalancerAssumption, NEW s, Typed(s), s.up, ~ (s.nextInc > MaxInc),
         NEW task \in Tasks \cup {NoTask}, NEW n \in Targets
  PROVE  Tame(s, AddBinding(s, task, n)) /\ s.nextInc \in DOMAIN AddBinding(s, task, n).b
<1> DEFINE rec == [task |-> task, target |-> n, named |-> FALSE]
           u == AddBinding(s, task, n)
<1>1. /\ Fields \subseteq DOMAIN u
      /\ u.up = s.up /\ u.cfg = s.cfg /\ u.rev = s.rev /\ u.retired = s.retired
      /\ u.nextInc = s.nextInc + 1 /\ u.ops = s.ops
      /\ u.cooling = s.cooling /\ u.asleep = s.asleep /\ u.resv = s.resv /\ u.act = s.act
      /\ u.b = Put(s.b, s.nextInc, rec) /\ u.rv = Put(s.rv, s.nextInc, 0)
  BY DEF Typed, TableTyped, AddBinding, Fields
<1>2. rec \in Binding
  BY DEF Binding
<1> HIDE DEF u, rec
<1>3. s.nextInc \in Nat /\ s.nextInc + 1 \in 1 .. MaxInc + 1
  BY DEF Typed, TableTyped, BalancerAssumption
<1>4. /\ DOMAIN u.rv = DOMAIN s.rv \cup {s.nextInc} /\ s.nextInc \notin DOMAIN s.rv
      /\ u.rv[s.nextInc] = 0
      /\ \A i \in DOMAIN s.rv : u.rv[i] = s.rv[i]
  BY <1>1, <1>3 DEF Put, Typed, TableTyped
<1>5. DOMAIN u.rv = 1 .. u.nextInc - 1 /\ \A i \in DOMAIN u.rv : u.rv[i] \in Nat
  <2>1. DOMAIN s.rv = 1 .. s.nextInc - 1 /\ s.nextInc >= 1 /\ \A i \in DOMAIN s.rv : s.rv[i] \in Nat
    BY <1>3 DEF Typed, TableTyped
  <2>2. \A d \in Nat : d >= 1 => 1 .. (d + 1) - 1 = (1 .. d - 1) \cup {d}
    OBVIOUS
  <2>3. DOMAIN u.rv = 1 .. u.nextInc - 1
    <3>1. 1 .. (s.nextInc + 1) - 1 = (1 .. s.nextInc - 1) \cup {s.nextInc}
      BY <1>3, <2>1, <2>2
    <3>2. DOMAIN u.rv = (1 .. s.nextInc - 1) \cup {s.nextInc}
      BY <1>4, <2>1
    <3> QED
      BY <1>1, <3>1, <3>2
  <2>4. \A i \in DOMAIN u.rv : u.rv[i] \in Nat
    <3> TAKE i \in DOMAIN u.rv
    <3>1. CASE i \in DOMAIN s.rv
      BY <1>4, <2>1, <3>1
    <3>2. CASE i = s.nextInc
      BY <1>4, <3>2
    <3> QED
      BY <1>4, <3>1, <3>2
  <2> QED
    BY <2>3, <2>4
<1>6. /\ DOMAIN u.b = DOMAIN s.b \cup {s.nextInc}
      /\ \A i \in DOMAIN u.b : u.b[i] \in Binding
  BY <1>1, <1>2 DEF Put, Typed, TableTyped
<1>7. TableTyped(u)
  <2>1. DOMAIN u.b \subseteq DOMAIN u.rv
    BY <1>4, <1>6 DEF Typed, TableTyped
  <2>2. u.nextInc \in 1 .. MaxInc + 1
    BY <1>1, <1>3
  <2> QED
    BY <1>1, <1>5, <1>6, <2>1, <2>2 DEF Typed, TableTyped
<1>8. OpsTyped(u)
  BY <1>1, <1>4 DEF Typed, OpsTyped
<1>9. SameGroup(s, u)
  BY <1>1 DEF SameGroup
<1>10. Withdraws(s, u)
  BY <1>1 DEF Withdraws, SameTerms, WithdrawnTo
<1>11. Grows(s, u)
  <2>1. \A i \in DOMAIN s.rv : s.rv[i] \in Nat
    BY DEF Typed, TableTyped
  <2> QED
    BY <1>4, <2>1 DEF Grows
<1> QED
  BY <1>6, <1>7, <1>8, <1>9, <1>10, <1>11 DEF Tame, Typed, u

LEMMA BindTame ==
  ASSUME BalancerAssumption, NEW s, Typed(s), s.up, NEW task \in Tasks \cup {NoTask}, NEW n \in Targets,
         NEW found \in SUBSET (DOMAIN s.b), NEW bound, NEW x \in BindResults(s, task, n, found, bound)
  PROVE  Tame(s, x.s) /\ x.inc \in DOMAIN x.s.b
<1> DEFINE lost == {i \in found : s.b[i].target \notin bound}
           left == [s EXCEPT !.b = [i \in DOMAIN @ |-> IF i \in lost THEN [@[i] EXCEPT !.task = NoTask]
                                                       ELSE @[i]]]
           added == AddBinding(left, task, n)
<1>1. \/ \E i \in found : x = [s |-> Rebind(s, i, n), inc |-> i]
      \/ ~ (s.nextInc > MaxInc) /\ x = [s |-> added, inc |-> s.nextInc]
  <2>1. BindResults(s, task, n, found, bound) =
          {[s |-> Rebind(s, i, n), inc |-> i] : i \in {j \in found : s.rv[j] < MaxRev}}
          \cup (IF found = lost THEN IF s.nextInc > MaxInc THEN {}
                                   ELSE {[s |-> added, inc |-> s.nextInc]}
               ELSE {})
    BY DEF BindResults
  <2> HIDE DEF lost, added
  <2> QED
    BY <2>1
<1>2. CASE \E i \in found : x = [s |-> Rebind(s, i, n), inc |-> i]
  BY <1>2, RebindTame
<1>3. CASE ~ (s.nextInc > MaxInc) /\ x = [s |-> added, inc |-> s.nextInc]
  <2>1. /\ Fields \subseteq DOMAIN left
        /\ left.up = s.up /\ left.cfg = s.cfg /\ left.rev = s.rev /\ left.retired = s.retired
        /\ left.rv = s.rv /\ left.nextInc = s.nextInc /\ left.ops = s.ops
        /\ left.cooling = s.cooling /\ left.asleep = s.asleep
        /\ left.resv = s.resv /\ left.act = s.act
        /\ DOMAIN left.b = DOMAIN s.b
        /\ \A i \in DOMAIN s.b : left.b[i] = IF i \in lost THEN [s.b[i] EXCEPT !.task = NoTask] ELSE s.b[i]
    BY DEF Typed, TableTyped, Fields
  <2> HIDE DEF left, lost
  <2>2. \A i \in DOMAIN s.b : left.b[i] \in Binding
    <3> SUFFICES ASSUME NEW i \in DOMAIN s.b
                 PROVE  left.b[i] \in Binding
      OBVIOUS
    <3>1. s.b[i] \in Binding
      BY DEF Typed, TableTyped
    <3>2. [s.b[i] EXCEPT !.task = NoTask] \in Binding
      BY <3>1 DEF Binding
    <3> QED
      BY <2>1, <3>1, <3>2
  <2>3. TableTyped(left)
    BY <2>1, <2>2 DEF Typed, TableTyped
  <2>4. SameGroup(s, left)
    BY <2>1 DEF SameGroup
  <2>5. Tame(s, left)
    BY <2>1, <2>3, <2>4, TameBeside
  <2>6. Tame(left, added) /\ s.nextInc \in DOMAIN added.b
    BY <1>3, <2>1, <2>5, AddBindingTame DEF Tame
  <2> HIDE DEF added
  <2>7. Tame(s, added)
    BY <2>5, <2>6, TameTrans
  <2> QED
    BY <1>3, <2>6, <2>7
<1> QED
  BY <1>1, <1>2, <1>3

\* A reservation names the binding as the plan left it.
Current(s, h) ==
  h \in Hold /\ h.inc \in DOMAIN s.rv /\ h.rev = s.rv[h.inc]

\* Planning withdraws nothing and writes no move; its reservation is of now.
LEMMA PlanTame ==
  ASSUME BalancerAssumption, NEW s, Typed(s), NEW task \in Tasks \cup {NoTask}, NEW group, NEW excluded,
         NEW named \in BOOLEAN, NEW p \in PlanResults(s, task, group, excluded, named)
  PROVE  Tame(s, p.s) /\ Current(p.s, p.h)
<1> DEFINE bound == BoundNodes(s, group)
           found == {i \in DOMAIN s.b : s.b[i].task = task}
           hits == {i \in found : s.b[i].target \in bound \ excluded}
           bindings == IF hits # {} THEN {[s |-> s, inc |-> i] : i \in hits}
                       ELSE UNION {BindResults(s, task, n, found, bound) :
                                    n \in Selectable(s, group, excluded)}
<1>1. ~ PlanUndefined(s, group, excluded)
  BY DEF PlanResults
<1>2. PlanResults(s, task, group, excluded, named) =
        {Reserved(NoteNamed(r.s, r.inc, named), r.inc) : r \in bindings}
  BY <1>1 DEF PlanResults
<1>3. s.up /\ BalancerShape(s)
  BY <1>1, ShapeOfTyped DEF PlanUndefined
<1> HIDE DEF bindings
<1>4. PICK r \in bindings : p = Reserved(NoteNamed(r.s, r.inc, named), r.inc)
  BY <1>2
<1>5. Tame(s, r.s) /\ r.inc \in DOMAIN r.s.b
  <2>1. CASE hits # {}
    BY <2>1, TameSelf DEF bindings
  <2>2. CASE hits = {}
    <3>1. PICK n \in Selectable(s, group, excluded) : r \in BindResults(s, task, n, found, bound)
      BY <2>2 DEF bindings
    <3>2. n \in Targets
      BY <1>3, <3>1, NodesAreTargets
    <3>3. found \in SUBSET (DOMAIN s.b)
      OBVIOUS
    <3> HIDE DEF found, bound
    <3> QED
      BY <1>3, <3>1, <3>2, <3>3, BindTame
  <2> QED
    BY <2>1, <2>2
<1> DEFINE u == NoteNamed(r.s, r.inc, named)
<1>6. Tame(r.s, u) /\ r.inc \in DOMAIN u.b
  BY <1>5, NoteNamedTame DEF Tame
<1> HIDE DEF u
<1>7. Tame(s, u)
  BY <1>5, <1>6, TameTrans
<1> DEFINE h == [inc |-> r.inc, target |-> u.b[r.inc].target, rev |-> u.rv[r.inc]]
<1>8. p.h = h /\ p.s = Reserve(u, h)
  BY <1>4 DEF Reserved, u
<1>9. r.inc \in DOMAIN u.rv /\ r.inc \in Incs /\ u.rv[r.inc] \in Nat /\ u.b[r.inc].target \in Targets
  BY <1>6, <1>7 DEF Tame, Typed, TableTyped, Binding, Incs, BalancerAssumption
<1>10. h \in Hold /\ h.inc = r.inc /\ h.target \in Targets /\ h.rev = u.rv[r.inc]
  BY <1>9 DEF Hold
<1> HIDE DEF h
<1>11. Tame(u, Reserve(u, h)) /\ Reserve(u, h).rv = u.rv
  BY <1>7, <1>9, <1>10, ReserveTame DEF Tame, Typed, TableTyped, Reserve, Fields
<1> QED
  BY <1>7, <1>8, <1>9, <1>10, <1>11, TameTrans DEF Current

-----------------------------------------------------------------------------
(* The invariant of the operations and the reservations.                   *)

\* What is waiting was checked under the revision in force.
Waiting(s) == \A o \in DOMAIN s.ops : s.ops[o].state = "pending_boundary" => s.ops[o].gRev = s.rev

\* A reservation on a binding was planned after every move of it that is written, and not
\* before the binding was where it is.  A stopped balancer has nothing.
Follows(s, hd) ==
  /\ s.up \/ (DOMAIN s.b = {} /\ DOMAIN s.ops = {})
  /\ \A o \in DOMAIN s.ops : s.ops[o].state = "applied" => s.ops[o].appliedRev <= s.rv[s.ops[o].inc]
  /\ \A r \in Requests : \/ hd[r] = NoHold
                         \/ hd[r] \in Hold /\ hd[r].inc \in DOMAIN s.rv /\ hd[r].rev <= s.rv[hd[r].inc]
  /\ \A r \in Requests, o \in DOMAIN s.ops :
       s.ops[o].state = "applied" /\ hd[r].inc = s.ops[o].inc => s.ops[o].appliedRev <= hd[r].rev

OpsInv(s, hd) == Typed(s) /\ Follows(s, hd)

\* Between s and u no move was written that a reservation of hd is on.
NoWriteUnder(s, u, hd) ==
  \A o \in DOMAIN u.ops :
    u.ops[o].state = "applied" /\ (o \in DOMAIN s.ops => s.ops[o].state # "applied") =>
      \A r \in Requests : hd[r].inc # u.ops[o].inc

NoneObserved(s, u) ==
  \A o \in DOMAIN s.ops \cap DOMAIN u.ops : u.ops[o].state = "observed" => s.ops[o].state = "observed"

\* Nobody of hd is on binding i.
Free(hd, i) == \A r \in Requests : hd[r].inc # i

GroupStands(s, u) == u.cfg = s.cfg /\ u.rev = s.rev /\ u.retired = s.retired

Lawful(s, u, hd) == NoWriteUnder(s, u, hd) /\ NoneObserved(s, u) /\ GroupStands(s, u)

\* A tame step, or one that writes a move of a binding nobody is on.
Orderly(s, u, hd) == Tame(s, u) \/ \E i \in Incs : Writes(s, u, i) /\ Free(hd, i)

\* A revision that a reservation bore is still below the binding's.
LEMMA GrowthKeepsBounds ==
  ASSUME NEW s, NEW u, Typed(s), Typed(u), Grows(s, u), NEW i \in DOMAIN s.rv, NEW n \in Int, n <= s.rv[i]
  PROVE  i \in DOMAIN u.rv /\ n <= u.rv[i]
<1>1. i \in DOMAIN u.rv /\ u.rv[i] >= s.rv[i]
  BY DEF Grows
<1>2. s.rv[i] \in Nat /\ u.rv[i] \in Nat
  BY <1>1 DEF Typed, TableTyped
<1> QED
  BY <1>1, <1>2

LEMMA OrderlyKeeps ==
  ASSUME NEW s, NEW u, NEW hd, OpsInv(s, hd), Orderly(s, u, hd)
  PROVE  OpsInv(u, hd) /\ Lawful(s, u, hd) /\ (Waiting(s) => Waiting(u))
<1>1. Typed(s) /\ Typed(u) /\ Grows(s, u) /\ SameGroup(s, u) /\ DOMAIN u.ops = DOMAIN s.ops
  BY DEF OpsInv, Orderly, Tame, Writes, Withdraws
<1>2. \A o \in DOMAIN s.ops : /\ s.ops[o] \in Operation /\ u.ops[o] \in Operation
                              /\ s.ops[o].inc \in DOMAIN s.rv /\ u.ops[o].inc \in DOMAIN u.rv
                              /\ s.ops[o].appliedRev \in Int /\ u.ops[o].appliedRev \in Int
  BY <1>1 DEF Typed, OpsTyped, Operation
\* Each operation was withdrawn or left, or it is the one that was written.
<1>3. \A o \in DOMAIN s.ops :
        \/ SameTerms(s.ops[o], u.ops[o]) /\ WithdrawnTo(s.ops[o].state, u.ops[o].state)
        \/ /\ u.ops[o].inc = s.ops[o].inc /\ u.ops[o].gRev = s.ops[o].gRev
           /\ u.ops[o].state = "applied" /\ u.ops[o].appliedRev = u.rv[u.ops[o].inc]
           /\ Free(hd, u.ops[o].inc)
  BY DEF Orderly, Tame, Writes, Withdraws
<1>4. s.up \/ (DOMAIN s.b = {} /\ DOMAIN s.ops = {})
  BY DEF OpsInv, Follows
<1>5. u.up \/ (DOMAIN u.b = {} /\ DOMAIN u.ops = {})
  BY <1>1, <1>4 DEF SameGroup
<1>6. ASSUME NEW o \in DOMAIN u.ops, u.ops[o].state = "applied"
      PROVE  u.ops[o].appliedRev <= u.rv[u.ops[o].inc]
  <2>1. CASE SameTerms(s.ops[o], u.ops[o]) /\ WithdrawnTo(s.ops[o].state, u.ops[o].state)
    <3>1. /\ u.ops[o].inc = s.ops[o].inc /\ u.ops[o].appliedRev = s.ops[o].appliedRev
          /\ s.ops[o].state = "applied" /\ o \in DOMAIN s.ops
      BY <1>1, <1>6, <2>1 DEF SameTerms, WithdrawnTo
    <3>2. s.ops[o].appliedRev <= s.rv[s.ops[o].inc]
      BY <3>1 DEF OpsInv, Follows
    <3> QED
      BY <1>1, <1>2, <3>1, <3>2, GrowthKeepsBounds
  <2>2. CASE u.ops[o].appliedRev = u.rv[u.ops[o].inc]
    BY <1>1, <1>2, <2>2
  <2> QED
    BY <1>1, <1>3, <2>1, <2>2
<1>7. ASSUME NEW r \in Requests, hd[r] # NoHold
      PROVE  hd[r] \in Hold /\ hd[r].inc \in DOMAIN u.rv /\ hd[r].rev <= u.rv[hd[r].inc]
  <2>1. hd[r] \in Hold /\ hd[r].inc \in DOMAIN s.rv /\ hd[r].rev <= s.rv[hd[r].inc]
    BY <1>7 DEF OpsInv, Follows
  <2>2. hd[r].rev \in Int
    BY <2>1 DEF Hold
  <2> QED
    BY <1>1, <2>1, <2>2, GrowthKeepsBounds
<1>8. ASSUME NEW r \in Requests, NEW o \in DOMAIN u.ops,
             u.ops[o].state = "applied", hd[r].inc = u.ops[o].inc
      PROVE  u.ops[o].appliedRev <= hd[r].rev
  <2>1. /\ u.ops[o].inc = s.ops[o].inc /\ u.ops[o].appliedRev = s.ops[o].appliedRev
        /\ s.ops[o].state = "applied" /\ o \in DOMAIN s.ops
    BY <1>1, <1>3, <1>8 DEF SameTerms, WithdrawnTo, Free
  <2> QED
    BY <1>8, <2>1 DEF OpsInv, Follows
<1>9. OpsInv(u, hd)
  BY <1>1, <1>5, <1>6, <1>7, <1>8 DEF OpsInv, Follows
<1>10. Lawful(s, u, hd)
  <2>1. NoWriteUnder(s, u, hd) /\ NoneObserved(s, u)
    BY <1>1, <1>3 DEF NoWriteUnder, NoneObserved, SameTerms, WithdrawnTo, Free
  <2> QED
    BY <1>1, <2>1 DEF Lawful, GroupStands, SameGroup
<1>11. ASSUME Waiting(s)
       PROVE  Waiting(u)
  BY <1>1, <1>3, <1>11 DEF Waiting, SameTerms, WithdrawnTo, SameGroup
<1> QED
  BY <1>9, <1>10, <1>11

\* A handler takes a reservation of now, or gives one back.
LEMMA HoldChanges ==
  ASSUME BalancerAssumption, NEW s, NEW hd, NEW hd2, NEW r \in Requests, OpsInv(s, hd),
         \A q \in Requests \ {r} : hd2[q] = hd[q],
         hd2[r] = NoHold \/ Current(s, hd2[r])
  PROVE  OpsInv(s, hd2)
<1>1. Typed(s) /\ Follows(s, hd)
  BY DEF OpsInv
<1>2. \A o \in DOMAIN s.ops : s.ops[o].inc \in Incs /\ s.ops[o].inc \in DOMAIN s.rv
  BY <1>1 DEF Typed, OpsTyped, Operation
<1>3. \A i \in DOMAIN s.rv : s.rv[i] \in Nat
  BY <1>1 DEF Typed, TableTyped
<1>4. CASE hd2[r] = NoHold
  BY <1>1, <1>2, <1>4, NoHoldNamesNothing DEF OpsInv, Follows
<1>5. CASE Current(s, hd2[r])
  BY <1>1, <1>2, <1>3, <1>5 DEF OpsInv, Follows, Current
<1> QED
  BY <1>4, <1>5

LEMMA TameLawful ==
  ASSUME NEW s, NEW u, NEW hd, Tame(s, u)
  PROVE  Lawful(s, u, hd) /\ Orderly(s, u, hd)
  BY DEF Lawful, NoWriteUnder, NoneObserved, GroupStands, SameGroup, Orderly, Tame, Withdraws, WithdrawnTo

LEMMA TameThenOrderly ==
  ASSUME NEW s, NEW u, NEW v, NEW hd, Typed(s), Tame(s, u), Orderly(u, v, hd)
  PROVE  Orderly(s, v, hd)
  BY TameTrans, TameThenWrites DEF Orderly

\* A release whose boundary writes a move finds nobody left on the binding.
LEMMA ReleaseOrderly ==
  ASSUME BalancerAssumption, NEW s, NEW hd, NEW hd2, NEW r \in Requests,
         OpsInv(s, hd), Ledger(s, hd), DOMAIN hd = Requests,
         hd[r].inc \in Incs, hd[r].target \in Targets,
         hd2[r] = NoHold, \A q \in Requests \ {r} : hd2[q] = hd[q]
  PROVE  Orderly(s, Release(s, hd[r]), hd2)
<1> DEFINE i == hd[r].inc
           u == GiveBack(s, hd[r])
           v == ApplyAtBoundary(u, i)
           gone == [hd EXCEPT ![r] = NoHold]
<1>1. Typed(s) /\ BalancerShape(s)
  BY ShapeOfTyped DEF OpsInv
<1>2. Tame(s, u) /\ u.ops = s.ops
  BY <1>1, GiveBackTame
<1>3. Ledger(u, gone)
  BY <1>1, GiveBackLedger
<1>4. \A q \in Requests : gone[q] = hd2[q]
  OBVIOUS
<1>5. Release(s, hd[r]) = v
  BY DEF Release
<1> HIDE DEF u, v, gone, i
<1>6. Ledger(u, hd2)
  BY <1>3, <1>4, LedgerPointwise
<1>7. Tame(u, v) \/ (InFlight(u, i) = 0 /\ Writes(u, v, i))
  BY <1>2, BoundaryWrites DEF Tame, v
<1>8. ASSUME InFlight(u, i) = 0, Writes(u, v, i)
      PROVE  Orderly(s, v, hd2)
  <2>1. u.up
    BY <1>2, <1>8 DEF Writes, OpsInv, Follows, Tame, SameGroup
  <2> DEFINE H == {q \in Requests : hd2[q].inc = i}
  <2>2. Cardinality(H) = 0
    BY <1>6, <1>8, <2>1 DEF Ledger, i
  <2>3. IsFiniteSet(H)
    <3>1. H \in SUBSET Requests
      OBVIOUS
    <3> HIDE DEF H
    <3> QED
      BY <3>1, FS_Subset DEF BalancerAssumption
  <2>4. H = {}
    <3> HIDE DEF H
    <3> QED
      BY <2>2, <2>3, FS_EmptySet
  <2>5. Free(hd2, i)
    BY <2>4 DEF Free
  <2>6. Writes(s, v, i)
    BY <1>1, <1>2, <1>8, TameThenWrites
  <2> QED
    BY <2>5, <2>6 DEF Orderly, i
<1>9. ASSUME Tame(u, v)
      PROVE  Orderly(s, v, hd2)
  BY <1>1, <1>2, <1>9, TameTrans DEF Orderly
<1> QED
  BY <1>5, <1>7, <1>8, <1>9

-----------------------------------------------------------------------------
(* Each action.                                                            *)

\* What a handler remembers of its request.
ReqTyped ==
  \A r \in Requests : /\ {"pc", "task", "named"} \subseteq DOMAIN req[r]
                      /\ req[r].task \in Tasks \cup {NoTask} /\ req[r].named \in BOOLEAN

MovesInv == LedgerInv /\ ReqTyped /\ OpsInv(lb, hold) /\ Waiting(lb)

\* What an action does to the operations.
StepLawful == OpsInv(lb', hold') /\ Waiting(lb') /\ Lawful(lb, lb', hold')

LEMMA OrderlyStep ==
  ASSUME MovesInv, OpsInv(lb, hold'), Orderly(lb, lb', hold')
  PROVE  StepLawful
  BY OrderlyKeeps DEF MovesInv, StepLawful

\* A step that reserves nothing and gives nothing back.
LEMMA TameStep ==
  ASSUME MovesInv, Tame(lb, lb'), UNCHANGED hold
  PROVE  StepLawful
<1>1. OpsInv(lb, hold')
  BY DEF MovesInv
<1> QED
  BY <1>1, TameLawful, OrderlyStep

LEMMA CloseMoves ==
  ASSUME BalancerAssumption, MovesInv, NEW r \in Requests, Close(r)
  PROVE  StepLawful
<1>1. /\ DOMAIN hold = Requests /\ HoldShape(hold[r]) /\ Ledger(lb, hold) /\ OpsInv(lb, hold) /\ Typed(lb)
  BY DEF MovesInv, LedgerInv, OpsInv
<1>2. /\ lb' = IF hold[r] = NoHold THEN lb ELSE Release(lb, hold[r])
      /\ hold' = [hold EXCEPT ![r] = NoHold]
  BY DEF Close
<1>3. hold'[r] = NoHold /\ \A q \in Requests \ {r} : hold'[q] = hold[q]
  BY <1>1, <1>2
<1>4. OpsInv(lb, hold')
  BY <1>1, <1>3, HoldChanges
<1>5. Orderly(lb, lb', hold')
  <2>1. CASE hold[r] = NoHold
    BY <1>1, <1>2, <2>1, TameSelf, TameLawful
  <2>2. CASE hold[r] # NoHold
    <3>1. hold[r].inc \in Incs /\ hold[r].target \in Targets
      BY <1>1, <2>2 DEF HoldShape
    <3>2. Orderly(lb, Release(lb, hold[r]), hold')
      BY <1>1, <1>3, <3>1, ReleaseOrderly
    <3> QED
      BY <1>2, <2>2, <3>2
  <2> QED
    BY <2>1, <2>2
<1> QED
  BY <1>4, <1>5, OrderlyStep

\* A plan that stands, or whose node this pipeline does not know.
LEMMA PlanOrderly ==
  ASSUME BalancerAssumption, NEW s, NEW hd, NEW r \in Requests,
         OpsInv(s, hd), DOMAIN hd = Requests, hd[r] = NoHold, Ledger(s, hd),
         NEW task \in Tasks \cup {NoTask}, NEW group, NEW excluded, NEW named \in BOOLEAN,
         NEW p \in PlanResults(s, task, group, excluded, named)
  PROVE  /\ Tame(s, p.s) /\ OpsInv(p.s, [hd EXCEPT ![r] = p.h])
         /\ OpsInv(p.s, hd) /\ Orderly(s, Release(p.s, p.h), hd)
<1> DEFINE taken == [hd EXCEPT ![r] = p.h]
<1>1. Typed(s) /\ BalancerShape(s)
  BY ShapeOfTyped DEF OpsInv
<1>2. Tame(s, p.s) /\ Current(p.s, p.h)
  BY <1>1, PlanTame
<1>3. OpsInv(p.s, hd)
  BY <1>2, TameLawful, OrderlyKeeps
<1>4. taken[r] = p.h /\ DOMAIN taken = Requests /\ \A q \in Requests \ {r} : taken[q] = hd[q]
  OBVIOUS
<1>5. Ledger(p.s, taken)
  BY <1>1, PlanLedger
<1> HIDE DEF taken
<1>6. OpsInv(p.s, taken)
  BY <1>2, <1>3, <1>4, HoldChanges
<1>7. p.h.inc \in Incs /\ p.h.target \in Targets
  BY <1>2 DEF Current, Hold
<1>8. Orderly(p.s, Release(p.s, p.h), hd)
  BY <1>4, <1>5, <1>6, <1>7, ReleaseOrderly
<1>9. Orderly(s, Release(p.s, p.h), hd)
  BY <1>1, <1>2, <1>8, TameThenOrderly
<1> QED
  BY <1>2, <1>3, <1>6, <1>9 DEF taken

LEMMA SelectMoves ==
  ASSUME BalancerAssumption, MovesInv, NEW r \in Requests, NEW task \in Tasks, NEW named \in BOOLEAN,
         Select(r, task, named)
  PROVE  StepLawful
<1> DEFINE results == PlanResults(lb, task, lb.cfg, {}, named)
<1>1. /\ hold[r] = NoHold /\ Ledger(lb, hold) /\ DOMAIN hold = Requests
      /\ OpsInv(lb, hold) /\ Typed(lb) /\ Waiting(lb)
  BY DEF Select, MovesInv, LedgerInv, OpsInv
<1>2. CASE UNCHANGED <<lb, hold>>
  BY <1>1, <1>2, TameSelf, TameStep
<1>3. ASSUME NEW p \in results, lb' = p.s, hold' = [hold EXCEPT ![r] = p.h]
      PROVE  StepLawful
  <2>1. Tame(lb, p.s) /\ OpsInv(p.s, [hold EXCEPT ![r] = p.h])
    BY <1>1, PlanOrderly
  <2>2. Waiting(p.s) /\ Lawful(lb, p.s, hold')
    BY <1>1, <2>1, TameLawful, OrderlyKeeps
  <2> QED
    BY <1>3, <2>1, <2>2 DEF StepLawful
<1>4. ASSUME NEW p \in results, lb' = Release(p.s, p.h), UNCHANGED hold
      PROVE  StepLawful
  <2>1. Orderly(lb, Release(p.s, p.h), hold)
    BY <1>1, PlanOrderly
  <2> QED
    BY <1>1, <1>4, <2>1, OrderlyStep
<1> QED
  BY <1>2, <1>3, <1>4 DEF Select

\* A failover withdraws the binding's moves before its release is a boundary for them.
LEMMA FailedOverTame ==
  ASSUME BalancerAssumption, MovesInv, NEW r \in Requests, req[r].pc = "opening"
  PROVE  /\ Tame(lb, FailedOver(r))
         /\ \A o \in DOMAIN lb.ops : lb.ops[o].inc = hold[r].inc => FailedOver(r).ops[o].state \in Terminal
<1> DEFINE i == hold[r].inc
           u == MarkFailure(lb, req[r].node)
           w == Invalidate(u, i)
           g == GiveBack(w, hold[r])
           v == ApplyAtBoundary(g, i)
<1>1. Typed(lb) /\ i \in Incs /\ hold[r].target \in Targets
  BY DEF MovesInv, OpsInv, LedgerInv, HoldShape
<1>2. FailedOver(r) = v
  BY DEF FailedOver, Release
<1>3. Tame(lb, u) /\ u.ops = lb.ops /\ Typed(u)
  BY <1>1, CoolingTame DEF Tame
<1> HIDE DEF u
<1>4. Tame(u, w) /\ \A o \in DOMAIN u.ops : u.ops[o].inc = i => w.ops[o].state \in Terminal
  BY <1>3, InvalidateTame
<1>5. Tame(lb, w) /\ Typed(w)
  BY <1>1, <1>3, <1>4, TameTrans DEF Tame
<1> HIDE DEF w
<1>6. Tame(w, g) /\ g.ops = w.ops
  BY <1>1, <1>5, GiveBackTame
<1>7. Tame(lb, g) /\ Typed(g)
  BY <1>1, <1>5, <1>6, TameTrans DEF Tame
<1> HIDE DEF g
<1>8. \A o \in DOMAIN lb.ops : lb.ops[o].inc = i => g.ops[o].state \in Terminal
  BY <1>3, <1>4, <1>6
<1>9. \A o \in DOMAIN g.ops : o \in DOMAIN lb.ops /\ g.ops[o].inc = lb.ops[o].inc
  BY <1>7 DEF Tame, Withdraws, SameTerms
<1>10. ~ Writes(g, v, i)
  BY <1>8, <1>9 DEF Writes, Terminal
<1>11. Tame(g, v)
  BY <1>7, <1>10, BoundaryWrites DEF v
<1> HIDE DEF v
<1>12. Tame(lb, v)
  BY <1>1, <1>7, <1>11, TameTrans
<1>13. \A o \in DOMAIN lb.ops : lb.ops[o].inc = i => v.ops[o].state \in Terminal
  BY <1>7, <1>8, <1>11 DEF Tame, Withdraws, WithdrawnTo, Terminal
<1> QED
  BY <1>2, <1>12, <1>13 DEF i

LEMMA FailoverMoves ==
  ASSUME BalancerAssumption, MovesInv, NEW r \in Requests, Failover(r)
  PROVE  /\ StepLawful
         /\ req'[r].pc = "retrying" =>
              \A o \in DOMAIN lb'.ops : lb'.ops[o].inc = hold[r].inc => lb'.ops[o].state \in Terminal
<1> DEFINE hd == [hold EXCEPT ![r] = NoHold]
           s == FailedOver(r)
<1>1. /\ req[r].pc = "opening" /\ DOMAIN hold = Requests /\ DOMAIN req = Requests
      /\ "pc" \in DOMAIN req[r] /\ Typed(lb) /\ OpsInv(lb, hold) /\ Waiting(lb)
      /\ req[r].task \in Tasks \cup {NoTask} /\ req[r].named \in BOOLEAN
  BY DEF Failover, MovesInv, LedgerInv, ReqTyped, OpsInv
<1>2. Ledger(s, hd)
  BY <1>1, FailedOverLedger DEF MovesInv
<1>3. /\ Tame(lb, s)
      /\ \A o \in DOMAIN lb.ops : lb.ops[o].inc = hold[r].inc => s.ops[o].state \in Terminal
  BY <1>1, FailedOverTame
<1>4. DOMAIN hd = Requests /\ hd[r] = NoHold /\ \A q \in Requests \ {r} : hd[q] = hold[q]
  BY <1>1
<1>5. PICK p \in FailoverPlans(r) :
        IF p.h.target \in req[r].known
        THEN /\ lb' = p.s
             /\ hold' = [hold EXCEPT ![r] = p.h]
             /\ req' = [req EXCEPT ![r].pc = "retrying", ![r].node = p.h.target]
        ELSE /\ lb' = MarkFailure(Release(p.s, p.h), req[r].node)
             /\ hold' = [hold EXCEPT ![r] = NoHold]
             /\ req' = [req EXCEPT ![r].pc = "closing"]
  BY DEF Failover
<1>6. p \in PlanResults(s, req[r].task, req[r].group, {req[r].node}, req[r].named)
  BY <1>5 DEF FailoverPlans
<1>7. [hold EXCEPT ![r] = p.h] = [hd EXCEPT ![r] = p.h]
  BY <1>1
<1> HIDE DEF hd, s
<1>8. OpsInv(lb, hd)
  BY <1>1, <1>4, HoldChanges
<1>9. OpsInv(s, hd) /\ Waiting(s) /\ Typed(s)
  BY <1>1, <1>3, <1>8, TameLawful, OrderlyKeeps DEF OpsInv
<1>10. /\ Tame(s, p.s) /\ OpsInv(p.s, [hd EXCEPT ![r] = p.h])
       /\ Orderly(s, Release(p.s, p.h), hd)
  <2>1. /\ OpsInv(s, hd) /\ DOMAIN hd = Requests /\ hd[r] = NoHold /\ Ledger(s, hd)
        /\ req[r].task \in Tasks \cup {NoTask} /\ req[r].named \in BOOLEAN
    BY <1>1, <1>2, <1>4, <1>9
  <2> QED
    BY <1>6, <2>1, PlanOrderly
<1>11. CASE p.h.target \in req[r].known
  <2>1. lb' = p.s /\ hold' = [hd EXCEPT ![r] = p.h]
    BY <1>5, <1>7, <1>11
  <2>2. Tame(lb, p.s)
    BY <1>1, <1>3, <1>10, TameTrans
  <2>3. Waiting(p.s) /\ Lawful(lb, p.s, hold')
    BY <1>1, <2>2, TameLawful, OrderlyKeeps
  <2>4. \A o \in DOMAIN p.s.ops : /\ o \in DOMAIN lb.ops /\ p.s.ops[o].inc = lb.ops[o].inc
                                  /\ s.ops[o].state \in Terminal => p.s.ops[o].state \in Terminal
    BY <1>3, <1>10 DEF Tame, Withdraws, SameTerms, WithdrawnTo, Terminal
  <2>5. \A o \in DOMAIN p.s.ops : p.s.ops[o].inc = hold[r].inc => p.s.ops[o].state \in Terminal
    BY <1>3, <2>4
  <2> QED
    BY <1>10, <2>1, <2>3, <2>5 DEF StepLawful
<1>12. CASE p.h.target \notin req[r].known
  <2> DEFINE v == Release(p.s, p.h)
  <2>1. lb' = MarkFailure(v, req[r].node) /\ hold' = hd /\ req'[r].pc = "closing"
    BY <1>1, <1>5, <1>12 DEF hd
  <2> HIDE DEF v
  <2>2. Orderly(lb, v, hd)
    BY <1>1, <1>3, <1>10, TameThenOrderly DEF v
  <2>3. OpsInv(v, hd) /\ Lawful(lb, v, hd) /\ Waiting(v)
    BY <1>1, <1>8, <2>2, OrderlyKeeps
  <2>4. Tame(v, lb') /\ lb'.ops = v.ops
    BY <2>1, <2>3, CoolingTame DEF OpsInv
  <2>5. OpsInv(lb', hd) /\ Waiting(lb')
    BY <2>3, <2>4, TameLawful, OrderlyKeeps
  <2>6. Lawful(lb, lb', hd)
    BY <2>3, <2>4 DEF Lawful, NoWriteUnder, NoneObserved, GroupStands, Tame, SameGroup
  <2> QED
    BY <2>1, <2>5, <2>6 DEF StepLawful
<1> QED
  BY <1>11, <1>12

LEMMA FailoverFindsNothingMoves ==
  ASSUME BalancerAssumption, MovesInv, NEW r \in Requests, FailoverFindsNothing(r)
  PROVE  StepLawful
<1> DEFINE s == FailedOver(r)
<1>1. /\ req[r].pc = "opening" /\ DOMAIN hold = Requests /\ Typed(lb) /\ OpsInv(lb, hold)
      /\ lb' = MarkFailure(s, req[r].node) /\ hold' = [hold EXCEPT ![r] = NoHold]
  BY DEF FailoverFindsNothing, MovesInv, LedgerInv, OpsInv
<1>2. Tame(lb, s) /\ Typed(s)
  BY <1>1, FailedOverTame DEF Tame
<1> HIDE DEF s
<1>3. Tame(lb, lb')
  BY <1>1, <1>2, CoolingTame, TameTrans
<1>4. hold'[r] = NoHold /\ \A q \in Requests \ {r} : hold'[q] = hold[q]
  BY <1>1
<1>5. OpsInv(lb, hold')
  BY <1>1, <1>4, HoldChanges
<1> QED
  BY <1>3, <1>5, TameLawful, OrderlyStep

\* A landing is proven by a request that was planned onto the move's own route.
LEMMA AnsweredMoves ==
  ASSUME BalancerAssumption, MovesInv, NEW r \in Requests, Answered(r)
  PROVE  /\ OpsInv(lb', hold') /\ Waiting(lb') /\ NoWriteUnder(lb, lb', hold') /\ GroupStands(lb, lb')
         /\ \A o \in DOMAIN lb.ops \cap DOMAIN lb'.ops :
              lb.ops[o].state # "observed" /\ lb'.ops[o].state = "observed" =>
                hold[r] = [inc |-> lb.ops[o].inc, target |-> lb.ops[o].dst, rev |-> lb.ops[o].appliedRev]
<1> DEFINE O == {o \in InState(lb, hold[r].inc, "applied") :
                   lb.ops[o].dst = hold[r].target /\ lb.ops[o].appliedRev = lb.rv[hold[r].inc]}
           u == ToState(lb, O, "observed")
<1>1. /\ lb' = NoteSuccess(u, req[r].node) /\ hold' = hold
      /\ Typed(lb) /\ Follows(lb, hold) /\ Waiting(lb)
  BY DEF Answered, ConfirmRouted, MovesInv, OpsInv
<1>2. \A o \in O : /\ o \in DOMAIN lb.ops /\ lb.ops[o].inc = hold[r].inc /\ lb.ops[o].state = "applied"
                   /\ lb.ops[o].dst = hold[r].target /\ lb.ops[o].appliedRev = lb.rv[hold[r].inc]
  BY DEF InState
<1> HIDE DEF O
<1>3. /\ Fields \subseteq DOMAIN u /\ \A f \in Fields \ {"ops"} : u[f] = lb[f]
      /\ DOMAIN u.ops = DOMAIN lb.ops
      /\ \A o \in DOMAIN lb.ops : u.ops[o] = IF o \in O THEN [lb.ops[o] EXCEPT !.state = "observed"] ELSE lb.ops[o]
  BY <1>1, ToStateShape DEF Typed, TableTyped
<1>4. Typed(u)
  <2>1. "observed" \in Terminal
    BY DEF Terminal
  <2> QED
    BY <1>1, <2>1, ToStateTyped
<1> HIDE DEF u
<1>5. \A o \in DOMAIN lb.ops :
        /\ lb.ops[o] \in Operation /\ SameTerms(lb.ops[o], u.ops[o])
        /\ u.ops[o].state = IF o \in O THEN "observed" ELSE lb.ops[o].state
  <2> SUFFICES ASSUME NEW o \in DOMAIN lb.ops
               PROVE  /\ lb.ops[o] \in Operation /\ SameTerms(lb.ops[o], u.ops[o])
                      /\ u.ops[o].state = IF o \in O THEN "observed" ELSE lb.ops[o].state
    OBVIOUS
  <2>1. lb.ops[o] \in Operation
    BY <1>1 DEF Typed, OpsTyped
  <2>2. CASE o \in O
    BY <1>3, <2>1, <2>2 DEF Operation, SameTerms
  <2>3. CASE o \notin O
    BY <1>3, <2>1, <2>3 DEF SameTerms
  <2> QED
    BY <2>2, <2>3
<1>6. /\ u.up = lb.up /\ u.b = lb.b /\ u.rv = lb.rv
      /\ u.cfg = lb.cfg /\ u.rev = lb.rev /\ u.retired = lb.retired
  BY <1>3, SameFields
<1>7. OpsInv(u, hold) /\ Waiting(u)
  BY <1>1, <1>3, <1>4, <1>5, <1>6 DEF OpsInv, Follows, Waiting, SameTerms
<1>8. Tame(u, lb') /\ lb'.ops = u.ops
  BY <1>1, <1>4, CoolingTame DEF NoteSuccess, Typed, TableTyped, Fields
<1>9. OpsInv(lb', hold) /\ Waiting(lb')
  BY <1>7, <1>8, TameLawful, OrderlyKeeps
<1>10. NoWriteUnder(lb, lb', hold) /\ GroupStands(lb, lb')
  <2>1. NoWriteUnder(lb, lb', hold)
    BY <1>3, <1>5, <1>8 DEF NoWriteUnder
  <2> QED
    BY <1>6, <1>8, <2>1 DEF GroupStands, Tame, SameGroup
<1>11. ASSUME NEW o \in DOMAIN lb.ops, lb.ops[o].state # "observed", lb'.ops[o].state = "observed"
       PROVE  hold[r] = [inc |-> lb.ops[o].inc, target |-> lb.ops[o].dst, rev |-> lb.ops[o].appliedRev]
  <2>1. o \in O
    BY <1>5, <1>8, <1>11
  <2>2. /\ lb.ops[o].inc = hold[r].inc /\ lb.ops[o].state = "applied"
        /\ lb.ops[o].dst = hold[r].target /\ lb.ops[o].appliedRev = lb.rv[hold[r].inc]
    BY <1>2, <2>1
  <2>3. hold[r] # NoHold
    BY <1>5, <2>2, NoHoldNamesNothing DEF Operation
  <2>4. hold[r] \in Hold /\ hold[r].inc \in DOMAIN lb.rv /\ hold[r].rev <= lb.rv[hold[r].inc]
    BY <1>1, <2>3 DEF Follows
  <2>5. lb.ops[o].appliedRev <= hold[r].rev
    BY <1>1, <2>2 DEF Follows
  <2>6. lb.rv[hold[r].inc] \in Nat /\ hold[r].rev \in Nat
    BY <1>1, <2>4 DEF Typed, TableTyped, Hold
  <2>7. hold[r].rev = lb.ops[o].appliedRev
    BY <2>2, <2>4, <2>5, <2>6
  <2> QED
    BY <2>2, <2>4, <2>7 DEF Hold
<1> QED
  BY <1>1, <1>9, <1>10, <1>11

\* moveBinding: the record opens under the versions in force, and is written at once only
\* when nobody is on the binding.
LEMMA SubmitMoves ==
  ASSUME BalancerAssumption, MovesInv, NEW i \in Incs, NEW n \in Targets, Submit(i, n)
  PROVE  StepLawful
<1> DEFINE o == Cardinality(DOMAIN lb.ops) + 1
           rec == [inc |-> i, src |-> lb.b[i].target, dst |-> n, srcRev |-> lb.rv[i],
                   gRev |-> lb.rev, appliedRev |-> -1, aged |-> FALSE,
                   state |-> "pending_boundary"]
           u == [lb EXCEPT !.ops = Put(@, o, rec)]
<1>1. /\ i \in DOMAIN lb.b /\ Cardinality(DOMAIN lb.ops) < MaxOps /\ hold' = hold
      /\ lb' = IF InFlight(lb, i) = 0 THEN Apply(u, o) ELSE u
      /\ Typed(lb) /\ Follows(lb, hold) /\ Waiting(lb) /\ Ledger(lb, hold)
  BY DEF Submit, HasBinding, MovesInv, LedgerInv, OpsInv
<1>2. PICK k \in 0 .. MaxOps : DOMAIN lb.ops = 1 .. k
  BY <1>1 DEF Typed, OpsTyped
<1>3. k \in Nat /\ k >= 0 /\ Cardinality(1 .. k) = k
  BY FS_Interval DEF BalancerAssumption
<1>4. o = k + 1 /\ k + 1 \in 0 .. MaxOps /\ DOMAIN lb.ops \cup {o} = 1 .. k + 1 /\ o \notin DOMAIN lb.ops
  BY <1>1, <1>2, <1>3 DEF BalancerAssumption
<1>5. rec \in Operation
  <2>1. lb.b[i].target \in Targets /\ lb.rv[i] \in Nat /\ lb.rev \in Nat
    BY <1>1 DEF Typed, TableTyped, Binding
  <2>2. "pending_boundary" \in MigrationState
    BY DEF MigrationState
  <2> QED
    BY <2>1, <2>2 DEF Operation
<1>6. rec.inc = i /\ rec.gRev = lb.rev /\ rec.state = "pending_boundary"
  OBVIOUS
<1>7. /\ Fields \subseteq DOMAIN u /\ \A f \in Fields \ {"ops"} : u[f] = lb[f]
      /\ u.ops = Put(lb.ops, o, rec)
  BY <1>1 DEF Typed, TableTyped, Fields
<1> HIDE DEF u, o, rec
<1>8. /\ DOMAIN u.ops = DOMAIN lb.ops \cup {o} /\ u.ops[o] = rec
      /\ \A p \in DOMAIN lb.ops : u.ops[p] = lb.ops[p]
  BY <1>4, <1>7 DEF Put
<1>9. /\ u.up = lb.up /\ u.cfg = lb.cfg /\ u.rev = lb.rev /\ u.retired = lb.retired
      /\ u.b = lb.b /\ u.rv = lb.rv /\ u.nextInc = lb.nextInc /\ u.act = lb.act /\ u.resv = lb.resv
      /\ u.cooling = lb.cooling /\ u.asleep = lb.asleep
  BY <1>7, SameFields
<1>10. TableTyped(u)
  BY <1>1, <1>7, <1>9 DEF Typed, TableTyped
<1>11. OpsTyped(u)
  <2>1. \E m \in 0 .. MaxOps : DOMAIN u.ops = 1 .. m
    BY <1>4, <1>8
  <2>2. i \in DOMAIN u.rv
    BY <1>1, <1>9 DEF Typed, TableTyped
  <2> QED
    BY <1>1, <1>5, <1>6, <1>8, <1>9, <2>1, <2>2 DEF Typed, OpsTyped
<1>12. lb.up
  BY <1>1 DEF Follows
<1>13. OpsInv(u, hold) /\ Waiting(u)
  BY <1>1, <1>6, <1>8, <1>9, <1>10, <1>11, <1>12 DEF OpsInv, Typed, Follows, Waiting
<1>14. CASE InFlight(lb, i) # 0
  <2>1. Lawful(lb, u, hold)
    BY <1>6, <1>8, <1>9 DEF Lawful, NoWriteUnder, NoneObserved, GroupStands
  <2> QED
    BY <1>1, <1>13, <1>14, <2>1 DEF StepLawful
<1>15. CASE InFlight(lb, i) = 0
  <2>1. Writes(u, Apply(u, o), i)
    BY <1>1, <1>6, <1>8, <1>9, <1>10, <1>11, ApplyWrites DEF Typed
  <2>2. Free(hold, i)
    <3> DEFINE H == {q \in Requests : hold[q].inc = i}
    <3>1. Cardinality(H) = 0
      BY <1>1, <1>12, <1>15 DEF Ledger
    <3>2. H \in SUBSET Requests
      OBVIOUS
    <3> HIDE DEF H
    <3>3. H = {}
      BY <3>1, <3>2, FS_Subset, FS_EmptySet DEF BalancerAssumption
    <3> QED
      BY <3>3 DEF H, Free
  <2>3. Orderly(u, lb', hold)
    BY <1>1, <1>15, <2>1, <2>2 DEF Orderly
  <2>4. OpsInv(lb', hold) /\ Lawful(u, lb', hold) /\ Waiting(lb')
    BY <1>13, <2>3, OrderlyKeeps
  <2>5. Lawful(lb, lb', hold)
    BY <1>6, <1>8, <1>9, <2>4 DEF Lawful, NoWriteUnder, NoneObserved, GroupStands
  <2> QED
    BY <1>1, <2>4, <2>5 DEF StepLawful
<1> QED
  BY <1>14, <1>15

LEMMA SweepMoves ==
  ASSUME MovesInv, NEW S, Sweep(S)
  PROVE  StepLawful
<1> DEFINE u == Removed(lb, S)
           v == DropIdle(u)
<1>1. Typed(lb) /\ lb' = Refresh(v) /\ UNCHANGED hold
  BY DEF MovesInv, OpsInv, Sweep
<1>2. Tame(lb, u) /\ Typed(u)
  BY <1>1, RemovedTame DEF Tame
<1> HIDE DEF u
<1>3. Tame(u, v) /\ Typed(v)
  BY <1>2, DropIdleTame DEF Tame
<1> HIDE DEF v
<1>4. Tame(v, lb')
  BY <1>1, <1>3, RefreshTame
<1>5. Tame(lb, lb')
  BY <1>1, <1>2, <1>3, <1>4, TameTrans
<1> QED
  BY <1>1, <1>5, TameStep

\* A saved configuration: the group's revision may move on, and what was checked under the
\* one before does not wait any longer.
LEMMA ReconfigureMoves ==
  ASSUME BalancerAssumption, MovesInv, NEW c \in Configs, Reconfigure(c)
  PROVE  /\ OpsInv(lb', hold') /\ Waiting(lb')
         /\ NoWriteUnder(lb, lb', hold') /\ NoneObserved(lb, lb')
<1> DEFINE u == SyncGroupVersions(lb, c)
           v == Prune(u)
<1>1. Typed(lb) /\ Follows(lb, hold) /\ lb' = Refresh(v) /\ UNCHANGED hold
  BY DEF MovesInv, OpsInv, Reconfigure, Reconfigured
<1>2. /\ Fields \subseteq DOMAIN u /\ u.cfg = c /\ u.rev \in Nat /\ u.retired \in Nat
      /\ u.up = lb.up /\ u.b = lb.b /\ u.rv = lb.rv /\ u.nextInc = lb.nextInc /\ u.ops = lb.ops
      /\ u.act = lb.act /\ u.resv = lb.resv /\ u.cooling = lb.cooling /\ u.asleep = lb.asleep
  BY <1>1 DEF SyncGroupVersions, Typed, TableTyped, Fields
<1> HIDE DEF u
<1>3. /\ Fields \subseteq DOMAIN v /\ v.cfg = c /\ v.rev = u.rev /\ v.retired = u.retired
      /\ v.up = lb.up /\ v.rv = lb.rv /\ v.nextInc = lb.nextInc /\ v.ops = lb.ops
      /\ v.act = lb.act /\ v.resv = lb.resv
      /\ v.cooling \subseteq c.known /\ v.asleep \subseteq c.known
      /\ DOMAIN v.b \subseteq DOMAIN lb.b /\ \A i \in DOMAIN v.b : v.b[i] = lb.b[i]
  BY <1>2 DEF Prune, Without, Fields
<1> HIDE DEF v
<1>4. TableTyped(v)
  BY <1>1, <1>2, <1>3 DEF Typed, TableTyped
<1>5. OpsTyped(v)
  BY <1>1, <1>3 DEF Typed, OpsTyped
<1>6. OpsInv(v, hold)
  BY <1>1, <1>3, <1>4, <1>5 DEF OpsInv, Typed, Follows
<1>7. Tame(v, lb') /\ \A o \in DOMAIN v.ops : lb'.ops[o].state = "pending_boundary" => v.ops[o].gRev = v.rev
  BY <1>1, <1>4, <1>5, RefreshTame DEF Typed
<1>8. OpsInv(lb', hold) /\ NoWriteUnder(v, lb', hold) /\ NoneObserved(v, lb')
  BY <1>6, <1>7, TameLawful, OrderlyKeeps DEF Lawful
<1>9. NoWriteUnder(lb, lb', hold) /\ NoneObserved(lb, lb')
  BY <1>3, <1>8 DEF NoWriteUnder, NoneObserved
<1>10. Waiting(lb')
  BY <1>7 DEF Tame, Withdraws, SameTerms, SameGroup, Waiting
<1> QED
  BY <1>1, <1>8, <1>9, <1>10

\* A stopped balancer has no operations left.
LEMMA StopMoves ==
  ASSUME BalancerAssumption, MovesInv, Stop
  PROVE  StepLawful
<1>1. Typed(lb) /\ Follows(lb, hold) /\ lb' = Cleared(lb) /\ UNCHANGED hold
  BY DEF MovesInv, OpsInv, Stop
<1>2. /\ Fields \subseteq DOMAIN lb' /\ lb'.cfg = lb.cfg /\ lb'.rev = lb.rev /\ lb'.retired = lb.retired
      /\ lb'.rv = lb.rv /\ lb'.nextInc = lb.nextInc
      /\ lb'.cooling = lb.cooling /\ lb'.asleep = lb.asleep
      /\ lb'.up = FALSE /\ lb'.b = EmptyMap /\ lb'.act = EmptyMap /\ lb'.ops = EmptyMap
      /\ lb'.resv = [n \in Targets |-> 0]
  BY <1>1 DEF Typed, TableTyped, Cleared, Fields
<1>3. DOMAIN EmptyMap = {} /\ 1 .. 0 = {} /\ 0 \in 0 .. MaxOps
  BY DEF EmptyMap, BalancerAssumption
<1>4. TableTyped(lb')
  BY <1>1, <1>2, <1>3 DEF Typed, TableTyped
<1>5. OpsTyped(lb')
  BY <1>2, <1>3 DEF OpsTyped
<1>6. OpsInv(lb', hold) /\ Waiting(lb') /\ Lawful(lb, lb', hold)
  BY <1>1, <1>2, <1>3, <1>4, <1>5
  DEF OpsInv, Typed, Follows, Waiting, Lawful, NoWriteUnder, NoneObserved, GroupStands
<1> QED
  BY <1>1, <1>6 DEF StepLawful

\* The steps that reserve nothing, give nothing back and write nothing.
LEMMA BesideMoves ==
  ASSUME BalancerAssumption, MovesInv,
         \/ \E r \in Requests : Begin(r) \/ ConnectionFails(r) \/ BodyEnds(r) \/ Aborted(r)
         \/ \E i \in Incs : Evict(i)
         \/ \E o \in OpIds : Cancel(o) \/ Age(o)
         \/ \E n \in Targets : CooldownEnds(n) \/ Sample(n)
         \/ UNCHANGED vars
  PROVE  StepLawful
<1>1. Typed(lb)
  BY DEF MovesInv, OpsInv
<1>2. ASSUME NEW r \in Requests, Begin(r) \/ ConnectionFails(r) \/ BodyEnds(r) \/ Aborted(r)
      PROVE  StepLawful
  <2>1. UNCHANGED hold /\ (lb' = lb \/ lb' = MarkFailure(lb, req[r].node))
    BY <1>2 DEF Begin, ConnectionFails, BodyEnds, Aborted
  <2> QED
    BY <1>1, <2>1, TameSelf, CoolingTame, TameStep
<1>3. ASSUME NEW i \in Incs, Evict(i)
      PROVE  StepLawful
  BY <1>1, <1>3, RemovedTame, TameStep DEF Evict
<1>4. ASSUME NEW o \in OpIds, Cancel(o)
      PROVE  StepLawful
  <2>1. "cancelled" \in Terminal
    BY DEF Terminal
  <2>2. Tame(lb, ToState(lb, {o}, "cancelled"))
    BY <1>1, <1>4, <2>1, ToStateTame DEF Cancel, WithdrawnTo
  <2> QED
    BY <1>4, <2>2, TameStep DEF Cancel
<1>5. ASSUME NEW o \in OpIds, Age(o)
      PROVE  StepLawful
  <2>1. /\ o \in DOMAIN lb.ops /\ UNCHANGED hold
        /\ Fields \subseteq DOMAIN lb' /\ \A f \in Fields \ {"ops"} : lb'[f] = lb[f]
        /\ DOMAIN lb'.ops = DOMAIN lb.ops
        /\ lb'.ops[o] = [lb.ops[o] EXCEPT !.aged = TRUE]
        /\ \A p \in DOMAIN lb.ops \ {o} : lb'.ops[p] = lb.ops[p]
    BY <1>1, <1>5 DEF Age, Typed, TableTyped, Fields
  <2>2. lb.ops[o] \in Operation
    BY <1>1, <2>1 DEF Typed, OpsTyped
  <2>3. /\ lb'.ops[o] \in Operation /\ SameTerms(lb.ops[o], lb'.ops[o])
        /\ lb'.ops[o].state = lb.ops[o].state
    BY <2>1, <2>2 DEF Operation, SameTerms
  <2>4. /\ lb'.up = lb.up /\ lb'.cfg = lb.cfg /\ lb'.rev = lb.rev /\ lb'.retired = lb.retired
        /\ lb'.b = lb.b /\ lb'.rv = lb.rv /\ lb'.nextInc = lb.nextInc /\ lb'.act = lb.act
        /\ lb'.resv = lb.resv /\ lb'.cooling = lb.cooling /\ lb'.asleep = lb.asleep
    <3> DEFINE u == lb'
    <3>1. \A f \in Fields \ {"ops"} : u[f] = lb[f]
      BY <2>1
    <3> HIDE DEF u
    <3>2. /\ u.up = lb.up /\ u.cfg = lb.cfg /\ u.rev = lb.rev /\ u.retired = lb.retired
          /\ u.b = lb.b /\ u.rv = lb.rv /\ u.nextInc = lb.nextInc /\ u.act = lb.act
          /\ u.resv = lb.resv /\ u.cooling = lb.cooling /\ u.asleep = lb.asleep
      BY <3>1, SameFields
    <3> QED
      BY <3>2 DEF u
  <2>5. TableTyped(lb')
    BY <1>1, <2>1, <2>4 DEF Typed, TableTyped
  <2>6. OpsTyped(lb')
    <3>1. \E k \in 0 .. MaxOps : DOMAIN lb'.ops = 1 .. k
      BY <1>1, <2>1 DEF Typed, OpsTyped
    <3> QED
      BY <1>1, <2>1, <2>3, <2>4, <3>1 DEF Typed, OpsTyped, SameTerms
  <2>7. Withdraws(lb, lb')
    BY <2>1, <2>3 DEF Withdraws, SameTerms, WithdrawnTo
  <2>8. SameGroup(lb, lb') /\ Grows(lb, lb')
    BY <1>1, <2>4 DEF SameGroup, Grows, Typed, TableTyped
  <2> QED
    BY <2>1, <2>5, <2>6, <2>7, <2>8, TameStep DEF Tame, Typed
<1>6. ASSUME NEW n \in Targets, CooldownEnds(n)
      PROVE  StepLawful
  <2>1. lb' = NoteSuccess(lb, n) /\ UNCHANGED hold
    BY <1>6 DEF CooldownEnds, NoteSuccess
  <2> QED
    BY <1>1, <2>1, CoolingTame, TameStep
<1>7. ASSUME NEW n \in Targets, Sample(n)
      PROVE  StepLawful
  <2>1. /\ Fields \subseteq DOMAIN lb' /\ lb'.asleep \subseteq lb.cfg.known /\ UNCHANGED hold
        /\ lb'.up = lb.up /\ lb'.cfg = lb.cfg /\ lb'.rev = lb.rev /\ lb'.retired = lb.retired
        /\ lb'.b = lb.b /\ lb'.rv = lb.rv /\ lb'.nextInc = lb.nextInc /\ lb'.ops = lb.ops
        /\ lb'.cooling = lb.cooling /\ lb'.resv = lb.resv /\ lb'.act = lb.act
    BY <1>1, <1>7 DEF Sample, Typed, TableTyped, Fields
  <2>2. TableTyped(lb')
    BY <1>1, <2>1 DEF Typed, TableTyped
  <2>3. SameGroup(lb, lb')
    BY <2>1 DEF SameGroup
  <2> QED
    BY <1>1, <2>1, <2>2, <2>3, TameBeside, TameStep
<1>8. ASSUME UNCHANGED vars
      PROVE  StepLawful
  BY <1>1, <1>8, TameSelf, TameStep DEF vars
<1> QED
  BY <1>2, <1>3, <1>4, <1>5, <1>6, <1>7, <1>8

-----------------------------------------------------------------------------
(* The handlers.                                                           *)

\* What handler r is left with: nothing, a fresh request, or its own with these changes.
LEMMA HandlerTyped ==
  ASSUME ReqTyped, DOMAIN req = Requests, NEW r \in Requests, DOMAIN req' = Requests,
         \A q \in Requests \ {r} : req'[q] = req[q],
         {"pc", "task", "named"} \subseteq DOMAIN req'[r],
         req'[r].task \in Tasks \cup {NoTask}, req'[r].named \in BOOLEAN
  PROVE  ReqTyped'
  BY DEF ReqTyped

\* Only a failover takes a handler from its first attempt to its second.
LEMMA HandlersStep ==
  ASSUME MovesInv, [Next]_vars
  PROVE  /\ ReqTyped'
         /\ \A q \in Requests : req[q].pc = "opening" /\ req'[q].pc = "retrying" => Failover(q)
<1>1. ReqTyped /\ DOMAIN req = Requests
  BY DEF MovesInv, LedgerInv
<1> DEFINE Goal == /\ ReqTyped'
                   /\ \A q \in Requests : req[q].pc = "opening" /\ req'[q].pc = "retrying" => Failover(q)
<1>2. ASSUME UNCHANGED req
      PROVE  Goal
  BY <1>1, <1>2 DEF ReqTyped
<1>3. ASSUME NEW r \in Requests, req' = [req EXCEPT ![r] = Idle]
      PROVE  Goal
  <2>1. /\ {"pc", "task", "named"} \subseteq DOMAIN Idle /\ Idle.pc = "idle"
        /\ Idle.task \in Tasks \cup {NoTask} /\ Idle.named \in BOOLEAN
    BY DEF Idle
  <2>2. DOMAIN req' = Requests /\ req'[r] = Idle /\ \A q \in Requests \ {r} : req'[q] = req[q]
    BY <1>1, <1>3
  <2>3. ReqTyped'
    BY <1>1, <2>1, <2>2, HandlerTyped
  <2>4. \A q \in Requests : ~ (req[q].pc = "opening" /\ req'[q].pc = "retrying")
    BY <2>1, <2>2
  <2> QED
    BY <2>3, <2>4
<1>4. ASSUME NEW r \in Requests, NEW pc \in {"opening", "closing", "streaming", "learning", "retrying"},
             DOMAIN req' = Requests, \A q \in Requests \ {r} : req'[q] = req[q],
             {"pc", "task", "named"} \subseteq DOMAIN req'[r],
             req'[r].task \in Tasks \cup {NoTask}, req'[r].named \in BOOLEAN,
             req'[r].pc = pc, pc = "retrying" => Failover(r)
      PROVE  Goal
  <2>1. ReqTyped'
    BY <1>1, <1>4, HandlerTyped
  <2>2. \A q \in Requests : req[q].pc = "opening" /\ req'[q].pc = "retrying" => Failover(q)
    <3> SUFFICES ASSUME NEW q \in Requests, req[q].pc = "opening", req'[q].pc = "retrying"
                 PROVE  Failover(q)
      OBVIOUS
    <3> QED
      BY <1>4
  <2> QED
    BY <2>1, <2>2
<1>5. ASSUME NEW r \in Requests, Begin(r)
      PROVE  Goal
  <2> DEFINE v == [Idle EXCEPT !.pc = "reading", !.known = lb.cfg.known]
  <2>1. /\ {"pc", "task", "named"} \subseteq DOMAIN v /\ v.pc = "reading"
        /\ v.task \in Tasks \cup {NoTask} /\ v.named \in BOOLEAN
    BY DEF Idle
  <2>2. req' = [req EXCEPT ![r] = v]
    BY <1>5 DEF Begin
  <2> HIDE DEF v
  <2>3. DOMAIN req' = Requests /\ req'[r] = v /\ \A q \in Requests \ {r} : req'[q] = req[q]
    BY <1>1, <2>2
  <2>4. ReqTyped'
    BY <1>1, <2>1, <2>3, HandlerTyped
  <2>5. \A q \in Requests : ~ (req[q].pc = "opening" /\ req'[q].pc = "retrying")
    BY <2>1, <2>3
  <2> QED
    BY <2>4, <2>5
<1>6. ASSUME NEW r \in Requests, NEW task \in Tasks, NEW named \in BOOLEAN, Select(r, task, named)
      PROVE  Goal
  <2>1. CASE req' = [req EXCEPT ![r] = Idle]
    BY <1>3, <2>1
  <2>2. ASSUME NEW p, req' = [req EXCEPT ![r].pc = "opening", ![r].group = lb.cfg, ![r].task = task,
                                         ![r].named = named, ![r].orig = p.h.inc, ![r].node = p.h.target]
        PROVE  Goal
    <3>1. /\ DOMAIN req' = Requests /\ \A q \in Requests \ {r} : req'[q] = req[q]
          /\ {"pc", "task", "named"} \subseteq DOMAIN req'[r] /\ req'[r].pc = "opening"
          /\ req'[r].task = task /\ req'[r].named = named
      BY <1>1, <2>2 DEF ReqTyped
    <3> QED
      BY <1>4, <3>1
  <2> QED
    BY <1>6, <2>1, <2>2 DEF Select
<1>7. ASSUME NEW r \in Requests, Failover(r)
      PROVE  Goal
  <2>1. /\ DOMAIN req' = Requests /\ \A q \in Requests \ {r} : req'[q] = req[q]
        /\ {"pc", "task", "named"} \subseteq DOMAIN req'[r] /\ req'[r].pc \in {"retrying", "closing"}
        /\ req'[r].task = req[r].task /\ req'[r].named = req[r].named
    BY <1>1, <1>7 DEF Failover, ReqTyped
  <2>2. req[r].task \in Tasks \cup {NoTask} /\ req[r].named \in BOOLEAN
    BY <1>1 DEF ReqTyped
  <2> QED
    BY <1>4, <1>7, <2>1, <2>2
<1>8. ASSUME NEW r \in Requests,
             FailoverFindsNothing(r) \/ ConnectionFails(r) \/ Answered(r) \/ BodyEnds(r) \/ Aborted(r)
      PROVE  Goal
  <2>1. /\ DOMAIN req' = Requests /\ \A q \in Requests \ {r} : req'[q] = req[q]
        /\ {"pc", "task", "named"} \subseteq DOMAIN req'[r]
        /\ req'[r].pc \in {"closing", "streaming", "learning"}
        /\ req'[r].task = req[r].task /\ req'[r].named = req[r].named
    BY <1>1, <1>8 DEF FailoverFindsNothing, ConnectionFails, Answered, BodyEnds, Aborted, ReqTyped
  <2>2. req[r].task \in Tasks \cup {NoTask} /\ req[r].named \in BOOLEAN
    BY <1>1 DEF ReqTyped
  <2> QED
    BY <1>4, <2>1, <2>2
<1>9. ASSUME NEW r \in Requests, Close(r)
      PROVE  Goal
  BY <1>3, <1>9 DEF Close
<1>10. ASSUME \/ \E i \in Incs : (\E n \in Targets : Submit(i, n)) \/ Evict(i)
              \/ \E o \in OpIds : Cancel(o) \/ Age(o)
              \/ \E S \in SUBSET DOMAIN lb.b : Sweep(S)
              \/ \E c \in Configs : Reconfigure(c)
              \/ \E n \in Targets : CooldownEnds(n) \/ Sample(n)
              \/ Stop
              \/ UNCHANGED vars
       PROVE  Goal
  <2>1. UNCHANGED req
    BY <1>10 DEF Submit, Evict, Cancel, Age, Sweep, Reconfigure, CooldownEnds, Sample, Stop, vars
  <2> QED
    BY <1>2, <2>1
<1> HIDE DEF Goal
<1>11. Goal
  BY <1>5, <1>6, <1>7, <1>8, <1>9, <1>10 DEF Next
<1> QED
  BY <1>11 DEF Goal

-----------------------------------------------------------------------------
(* The invariant, and what it gives.                                       *)

LEMMA MovesInit ==
  ASSUME BalancerAssumption, Init
  PROVE  MovesInv
<1>1. PICK c \in Configs :
        lb = [up |-> TRUE, cfg |-> c, rev |-> 1, retired |-> 0,
              b |-> EmptyMap, rv |-> EmptyMap, nextInc |-> 1,
              act |-> EmptyMap, resv |-> [n \in Targets |-> 0],
              cooling |-> {}, asleep |-> {}, ops |-> EmptyMap]
  BY DEF Init
<1>2. DOMAIN EmptyMap = {} /\ 1 .. 0 = {} /\ 0 \in 0 .. MaxOps /\ 1 \in 1 .. MaxInc + 1 /\ 1 - 1 = 0
  BY DEF EmptyMap, BalancerAssumption
<1>3. TableTyped(lb)
  BY <1>1, <1>2 DEF TableTyped, Fields
<1>4. lb.ops = EmptyMap /\ lb.up
  BY <1>1
<1>5. \A r \in Requests : hold[r] = NoHold
  BY DEF Init
<1>6. OpsInv(lb, hold) /\ Waiting(lb)
  BY <1>2, <1>3, <1>4, <1>5 DEF OpsInv, Typed, OpsTyped, Follows, Waiting
<1>7. ReqTyped
  BY DEF Init, Idle, ReqTyped
<1> QED
  BY <1>6, <1>7, LedgerInit DEF MovesInv

\* Every step keeps the invariant, and writes no move under a reservation.
LEMMA MovesNext ==
  ASSUME BalancerAssumption, MovesInv, [Next]_vars
  PROVE  /\ MovesInv' /\ NoWriteUnder(lb, lb', hold')
         /\ GroupStands(lb, lb') \/ \E c \in Configs : Reconfigure(c)
<1> DEFINE Kept == OpsInv(lb', hold') /\ Waiting(lb') /\ NoWriteUnder(lb, lb', hold')
<1>1. LedgerInv' /\ ReqTyped'
  BY LedgerNext, HandlersStep DEF MovesInv
<1>2. ASSUME StepLawful
      PROVE  Kept /\ GroupStands(lb, lb')
  BY <1>2 DEF StepLawful, Lawful
<1>3. ASSUME NEW r \in Requests, Answered(r)
      PROVE  Kept /\ GroupStands(lb, lb')
  BY <1>3, AnsweredMoves
<1>4. ASSUME NEW c \in Configs, Reconfigure(c)
      PROVE  Kept
  BY <1>4, ReconfigureMoves
<1>5. ASSUME Kept
      PROVE  OpsInv(lb, hold)' /\ Waiting(lb)'
  BY <1>5 DEF OpsInv, Waiting, Follows, Typed, TableTyped, OpsTyped
<1> HIDE DEF Kept
<1>6. Kept /\ (GroupStands(lb, lb') \/ \E c \in Configs : Reconfigure(c))
  BY <1>2, <1>3, <1>4, SelectMoves, FailoverMoves, FailoverFindsNothingMoves, CloseMoves,
     SubmitMoves, SweepMoves, StopMoves, BesideMoves DEF Next
<1> QED
  BY <1>1, <1>5, <1>6 DEF MovesInv, Kept

\* For every bound and every number of requests, nodes and configurations the balancer's
\* record, its operations and its reservations are of the declared types.
THEOREM BalancerTypeCorrect == Spec => []TypeOK
<1>1. ASSUME MovesInv
      PROVE  TypeOK
  <2> USE BalancerAssumption
  <2>1. Typed(lb) /\ Follows(lb, hold)
    BY <1>1 DEF MovesInv, OpsInv
  <2>2. DOMAIN lb.ops \subseteq OpIds
    <3>1. PICK k \in 0 .. MaxOps : DOMAIN lb.ops = 1 .. k
      BY <2>1 DEF Typed, OpsTyped
    <3>2. 1 .. k \subseteq 1 .. MaxOps
      BY DEF BalancerAssumption
    <3> QED
      BY <3>1, <3>2 DEF OpIds
  <2>3. \A r \in Requests : hold[r] \in Hold \cup {NoHold}
    BY <2>1 DEF Follows
  <2> QED
    BY <2>1, <2>2, <2>3 DEF TypeOK, Typed, TableTyped, OpsTyped
<1> QED
  BY <1>1, MovesInit, MovesNext, BalancerAssumption, PTL DEF Spec

\* A move is written only while nobody holds a reservation on its binding
\* (load-balancer.ts 778-795): at a release, at a submission, whatever else is under way.
THEOREM MovesAreWrittenAtRest == Spec => NoMoveUnderRequest
<1>1. ASSUME NoWriteUnder(lb, lb', hold')
      PROVE  \A o \in DOMAIN lb'.ops :
               /\ lb'.ops[o].state = "applied"
               /\ o \in DOMAIN lb.ops => lb.ops[o].state # "applied"
               => \A r \in Requests : hold'[r].inc # lb'.ops[o].inc
  BY <1>1 DEF NoWriteUnder
<1> QED
  BY <1>1, MovesInit, MovesNext, BalancerAssumption, PTL DEF Spec, NoMoveUnderRequest

\* A move is reported observed only by a request planned after it was written, onto the
\* node it moved to (load-balancer.ts 797-840).
THEOREM LandingsAreProven == Spec => ObservedIsProven
<1> DEFINE Proven == \A o \in DOMAIN lb.ops \cap DOMAIN lb'.ops :
                       lb.ops[o].state # "observed" /\ lb'.ops[o].state = "observed" =>
                         \E r \in Requests :
                           /\ Active(r, {"opening", "retrying"}) /\ req'[r].pc = "streaming"
                           /\ hold[r] = [inc |-> lb.ops[o].inc, target |-> lb.ops[o].dst,
                                         rev |-> lb.ops[o].appliedRev]
<1>1. ASSUME BalancerAssumption, MovesInv, [Next]_vars
      PROVE  Proven
  <2>1. ASSUME StepLawful
        PROVE  Proven
    BY <2>1 DEF StepLawful, Lawful, NoneObserved
  <2>2. ASSUME NEW r \in Requests, Answered(r)
        PROVE  Proven
    <3>1. Active(r, {"opening", "retrying"}) /\ req'[r].pc = "streaming"
      BY <1>1, <2>2 DEF Answered, MovesInv, LedgerInv
    <3> QED
      BY <1>1, <2>2, <3>1, AnsweredMoves
  <2>3. ASSUME NEW c \in Configs, Reconfigure(c)
        PROVE  Proven
    BY <1>1, <2>3, ReconfigureMoves DEF NoneObserved
  <2> HIDE DEF Proven
  <2> QED
    BY <1>1, <2>1, <2>2, <2>3, SelectMoves, FailoverMoves, FailoverFindsNothingMoves, CloseMoves,
       SubmitMoves, SweepMoves, StopMoves, BesideMoves DEF Next
<1> QED
  BY <1>1, MovesInit, MovesNext, BalancerAssumption, PTL DEF Spec, ObservedIsProven

\* Whatever a failover takes over, no earlier move of that binding is left to overtake the
\* retry (proxy-request-pipeline.ts 568-573).
THEOREM FailoversOutrankMoves == Spec => FailoverOutranksMoves
<1>1. ASSUME BalancerAssumption, MovesInv, [Next]_vars
      PROVE  \A r \in Requests :
               req[r].pc = "opening" /\ req'[r].pc = "retrying" =>
                 \A o \in DOMAIN lb'.ops : lb'.ops[o].inc = hold[r].inc => lb'.ops[o].state \in Terminal
  BY <1>1, HandlersStep, FailoverMoves
<1> QED
  BY <1>1, MovesInit, MovesNext, BalancerAssumption, PTL DEF Spec, FailoverOutranksMoves

-----------------------------------------------------------------------------
(* The revisions of the group.                                             *)

\* The history is as long as the last revision given out, which a group that is gone leaves
\* behind in `retired`; its last entry is what is configured now.
RevisionInv ==
  /\ issued \in Seq(Config)
  /\ Len(issued) = IF lb.cfg.present THEN lb.rev ELSE lb.retired
  /\ lb.cfg.present => lb.rev >= 1 /\ issued[lb.rev] = Signature(lb.cfg)

LEMMA SignatureType ==
  ASSUME NEW c \in Config
  PROVE  Signature(c) \in Config
  BY DEF Signature, Config

LEMMA RevisionInit ==
  ASSUME BalancerAssumption, Init
  PROVE  RevisionInv
<1>1. PICK c \in Configs :
        /\ c.present /\ issued = <<Signature(c)>>
        /\ lb.cfg = c /\ lb.rev = 1
  BY DEF Init
<1>2. Signature(c) \in Config
  BY SignatureType DEF BalancerAssumption
<1> QED
  BY <1>1, <1>2 DEF RevisionInv

\* Every step but a saved configuration leaves the group's revision where it is.
LEMMA RevisionStands ==
  ASSUME RevisionInv, GroupStands(lb, lb'), UNCHANGED issued
  PROVE  RevisionInv'
  BY DEF RevisionInv, GroupStands

LEMMA ReconfigureRevises ==
  ASSUME BalancerAssumption, MovesInv, RevisionInv, NEW c \in Configs, Reconfigure(c)
  PROVE  RevisionInv'
<1> DEFINE u == SyncGroupVersions(lb, c)
           v == Prune(u)
<1>1. Fields \subseteq DOMAIN lb /\ lb' = Refresh(v) /\ lb.rev \in Nat /\ lb.retired \in Nat
  BY DEF MovesInv, OpsInv, Typed, TableTyped, Reconfigure, Reconfigured
<1>2. issued' = IF c.present /\ lb'.rev > Len(issued) THEN Append(issued, Signature(c)) ELSE issued
  BY DEF Reconfigure
<1>3. /\ Fields \subseteq DOMAIN u /\ u.cfg = c
      /\ u.rev = IF ~ c.present THEN 0
                 ELSE IF lb.cfg.present THEN (IF Signature(c) = Signature(lb.cfg) THEN lb.rev ELSE lb.rev + 1)
                 ELSE lb.retired + 1
      /\ u.retired = IF c.present THEN 0 ELSE IF lb.cfg.present THEN lb.rev ELSE lb.retired
  BY <1>1 DEF SyncGroupVersions, Fields
<1> HIDE DEF u
<1>4. Fields \subseteq DOMAIN v /\ v.cfg = u.cfg /\ v.rev = u.rev /\ v.retired = u.retired
  BY <1>3 DEF Prune, Fields
<1> HIDE DEF v
<1>5. \A s, O, state : Fields \subseteq DOMAIN s =>
        /\ Fields \subseteq DOMAIN ToState(s, O, state)
        /\ ToState(s, O, state).cfg = s.cfg /\ ToState(s, O, state).rev = s.rev
        /\ ToState(s, O, state).retired = s.retired
  BY DEF ToState, Fields
<1>6. lb'.cfg = v.cfg /\ lb'.rev = v.rev /\ lb'.retired = v.retired
  <2>1. \E O, P : Refresh(v) = ToState(ToState(v, O, "expired_after_apply"), P, "expired")
    BY DEF Refresh
  <2> QED
    BY <1>1, <1>4, <1>5, <2>1
<1>7. Signature(c) \in Config
  BY SignatureType DEF BalancerAssumption
<1>8. /\ issued \in Seq(Config) /\ Len(issued) \in Nat
      /\ Len(issued) = IF lb.cfg.present THEN lb.rev ELSE lb.retired
      /\ lb.cfg.present => lb.rev >= 1 /\ issued[lb.rev] = Signature(lb.cfg)
  BY DEF RevisionInv
<1>9. CASE c.present /\ lb.cfg.present /\ Signature(c) = Signature(lb.cfg)
  <2>1. lb'.rev = lb.rev /\ lb'.cfg = c /\ issued' = issued
    BY <1>2, <1>3, <1>4, <1>6, <1>8, <1>9
  <2> QED
    BY <1>8, <1>9, <2>1 DEF RevisionInv
<1>10. CASE c.present /\ ~ (lb.cfg.present /\ Signature(c) = Signature(lb.cfg))
  <2>1. lb'.rev = Len(issued) + 1 /\ lb'.cfg = c
    BY <1>3, <1>4, <1>6, <1>8, <1>10
  <2>2. issued' = Append(issued, Signature(c))
    BY <1>2, <1>8, <1>10, <2>1
  <2>3. issued' \in Seq(Config) /\ Len(issued') = Len(issued) + 1 /\ issued'[Len(issued) + 1] = Signature(c)
    BY <1>7, <1>8, <2>2
  <2> QED
    BY <1>8, <1>10, <2>1, <2>3 DEF RevisionInv
<1>11. CASE ~ c.present
  <2>1. issued' = issued /\ lb'.cfg = c /\ lb'.retired = IF lb.cfg.present THEN lb.rev ELSE lb.retired
    BY <1>2, <1>3, <1>4, <1>6, <1>11
  <2> QED
    BY <1>8, <1>11, <2>1 DEF RevisionInv
<1> QED
  BY <1>9, <1>10, <1>11

LEMMA RevisionNext ==
  ASSUME BalancerAssumption, MovesInv, RevisionInv, [Next]_vars
  PROVE  RevisionInv'
<1>1. ASSUME ~ \E c \in Configs : Reconfigure(c)
      PROVE  UNCHANGED issued
  <2>1. ASSUME NEW r \in Requests, \/ Begin(r) \/ Failover(r) \/ FailoverFindsNothing(r)
                                   \/ ConnectionFails(r) \/ Answered(r) \/ BodyEnds(r) \/ Aborted(r) \/ Close(r)
        PROVE  UNCHANGED issued
    BY <2>1 DEF Begin, Failover, FailoverFindsNothing, ConnectionFails, Answered, BodyEnds, Aborted, Close
  <2>2. ASSUME NEW r \in Requests, NEW task \in Tasks, NEW named \in BOOLEAN, Select(r, task, named)
        PROVE  UNCHANGED issued
    BY <2>2 DEF Select
  <2>3. ASSUME \/ \E i \in Incs : (\E n \in Targets : Submit(i, n)) \/ Evict(i)
               \/ \E o \in OpIds : Cancel(o) \/ Age(o)
               \/ \E S \in SUBSET DOMAIN lb.b : Sweep(S)
               \/ \E n \in Targets : CooldownEnds(n) \/ Sample(n)
               \/ Stop
               \/ UNCHANGED vars
        PROVE  UNCHANGED issued
    BY <2>3 DEF Submit, Evict, Cancel, Age, Sweep, CooldownEnds, Sample, Stop, vars
  <2> QED
    BY <1>1, <2>1, <2>2, <2>3 DEF Next
<1>2. GroupStands(lb, lb') \/ \E c \in Configs : Reconfigure(c)
  BY MovesNext
<1> QED
  BY <1>1, <1>2, RevisionStands, ReconfigureRevises

\* What a waiting move was checked under is still in force, and its revision names that
\* configuration alone, however often the group is saved, removed and configured again
\* (load-balancer.ts 335-339, 1447-1455).
THEOREM MovesNeverOutliveTheirPremises == Spec => []MovesKeepTheirPremises
<1>1. ASSUME MovesInv, RevisionInv
      PROVE  MovesKeepTheirPremises
  <2>1. WaitingMovesAreCurrent
    BY <1>1 DEF MovesInv, Waiting, WaitingMovesAreCurrent
  <2>2. lb.rev \in Nat
    BY <1>1 DEF MovesInv, OpsInv, Typed, TableTyped
  <2>3. RevisionNamesOneConfiguration
    BY <1>1, <2>2 DEF RevisionInv, RevisionNamesOneConfiguration
  <2> QED
    BY <2>1, <2>3 DEF MovesKeepTheirPremises
<1> QED
  BY <1>1, MovesInit, MovesNext, RevisionInit, RevisionNext, BalancerAssumption, PTL DEF Spec

=============================================================================
