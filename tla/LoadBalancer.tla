---------------------------- MODULE LoadBalancer ----------------------------
(***************************************************************************)
(* One pair's LoadBalancer (src/src/proxy/load-balancer.ts) under the      *)
(* concurrent requests of the pipeline (proxy-request-pipeline.ts), the    *)
(* operator's binding moves, configuration saves and the monitor's sweep.  *)
(*                                                                         *)
(* The balancer is one record `lb`: everything between two awaits is one   *)
(* operator on it, everything that interleaves is an action.  One group is *)
(* modelled, since groups share only nodes.  The affinity table is reduced *)
(* to "the binding a task's requests find" (module AffinityTable has the   *)
(* table itself), the operation store to the state of each accepted move   *)
(* (module MigrationStore), and the ranking of selectable nodes to a free  *)
(* choice.  Requests that are routed without the group leave no trace here.*)
(***************************************************************************)
EXTENDS MigrationContract, Maps, Integers, Sequences, FiniteSets

CONSTANTS
  Requests,      \* concurrent request slots
  Tasks,         \* conversations
  NoTask,        \* of a binding no request finds any more
  Naming,        \* the tasks that may come to name a stored response
  Targets,       \* nodes
  Compatible,    \* <<n, m>>: another physical engine behind the same model id
  MaySleep,      \* the nodes whose samples may say they are asleep
  Configs,       \* [present, members, known, enabled, failover, url] the administrator may save
  MaxInc, MaxRev, MaxOps, MaxReloads  \* bounds: bindings, their moves, accepted moves, saves

None == 0
Incs == 1 .. MaxInc
OpIds == 1 .. MaxOps

Config == [present : BOOLEAN, members : SUBSET Targets, known : SUBSET Targets,
           enabled : SUBSET Targets, failover : BOOLEAN, url : Nat]

ASSUME BalancerAssumption ==
  /\ NoTask \notin Tasks /\ Naming \subseteq Tasks /\ MaySleep \subseteq Targets
  /\ None \notin Targets
  /\ Compatible \subseteq Targets \X Targets
  /\ Configs \subseteq Config /\ \A c \in Configs : c.enabled \subseteq c.known
  /\ MaxInc \in Nat /\ MaxRev \in Nat /\ MaxOps \in Nat /\ MaxReloads \in Nat
  /\ IsFiniteSet(Requests)

VARIABLES
  lb,    \* the balancer
  req,   \* request -> what its handler has in its local variables
  hold,  \* request -> the reservation it has not given back
  issued \* history: group revision -> the configuration it stood for

vars == <<lb, req, hold, issued>>

\* A binding lives in `b`; its routing revision `rv` stays readable through references
\* after it left the table.  `named`: some request named a stored response.
Binding == [task : Tasks \cup {NoTask}, target : Targets, named : BOOLEAN]

Operation == [inc : Incs, src : Targets, dst : Targets, srcRev : Nat, gRev : Nat,
              appliedRev : Nat \cup {-1}, aged : BOOLEAN,
              state : MigrationState]

\* inc, target: the binding and node counted; rev: the binding's revision when planned.
Hold == [inc : Incs, target : Targets, rev : Nat]
NoHold == [inc |-> None, target |-> None, rev |-> None]

Idle == [pc |-> "idle", known |-> {}, group |-> None, orig |-> None, node |-> None,
         task |-> NoTask, named |-> FALSE]

-----------------------------------------------------------------------------
(* Reading the balancer.                                                   *)

HasBinding(s, i) == i \in DOMAIN s.b

\* BindingActivityLedger.read(i).inFlight
InFlight(s, i) == IF i \in DOMAIN s.act THEN s.act[i] ELSE 0

\* The nodes a binding may be kept on: enabled members of the group object given.
BoundNodes(s, group) == group.members \cap s.cfg.enabled

\* #selectableNodes, then plan's exclusion
Selectable(s, group, excluded) ==
  LET awake == BoundNodes(s, group) \ s.asleep
      open == awake \ s.cooling
  IN  (IF open = {} THEN awake ELSE open) \ excluded

\* #eligibilityRejection, as the nodes it does not refuse
Eligible(s, i) ==
  IF ~ s.cfg.present \/ s.b[i].target \notin s.cfg.known THEN {}
  ELSE {n \in BoundNodes(s, s.cfg) \ (s.cooling \cup s.asleep) :
          <<s.b[i].target, n>> \in Compatible}

\* The gates of #attemptMove and #driftReason: version drift, eligibility, state.
Movable(s, o) ==
  LET i == s.ops[o].inc
  IN  /\ HasBinding(s, i)
      /\ s.rev = s.ops[o].gRev /\ s.rv[i] = s.ops[o].srcRev
      /\ s.b[i].target = s.ops[o].src
      /\ s.ops[o].dst \in Eligible(s, i)
      /\ ~ s.b[i].named

InState(s, i, state) == {o \in DOMAIN s.ops : s.ops[o].inc = i /\ s.ops[o].state = state}

-----------------------------------------------------------------------------
(* Steps of the balancer between two awaits.                               *)

ToState(s, O, state) ==
  [s EXCEPT !.ops = [o \in DOMAIN s.ops |->
                       IF o \in O THEN [s.ops[o] EXCEPT !.state = state] ELSE s.ops[o]]]

\* rebind: the target and its revision move together.
Rebind(s, i, n) ==
  [s EXCEPT !.b[i].target = n,
            !.rv[i] = IF s.b[i].target = n THEN @ ELSE @ + 1]

\* #attemptMove that got through: the write, then the record learns its revision.
Apply(s, o) ==
  LET moved == Rebind(s, s.ops[o].inc, s.ops[o].dst)
  IN  [moved EXCEPT !.ops[o].state = "applied", !.ops[o].appliedRev = moved.rv[s.ops[o].inc]]

\* The first of operations O in the order they were opened, as a set of at most one.
FirstOf(O) == {o \in O : \A p \in O : o <= p}

\* Mutant: the boundary is taken for every release, whatever is still in flight.
ApplyAtAnyRelease(s, i) ==
  LET pending == InState(s, i, "pending_boundary")
      first == FirstOf({o \in pending : Movable(s, o)})
  IN  IF first # {} THEN Apply(ToState(s, pending \ first, "expired"), CHOOSE o \in first : TRUE)
      ELSE ToState(s, pending, "expired")

\* #applyMigrationsAtBoundary: intents are tried in the order they were opened; the first
\* to be written drifts every later one, and none is written while a request is in flight.
ApplyAtBoundary(s, i) ==
  LET pending == InState(s, i, "pending_boundary")
      movable == {o \in pending : Movable(s, o)}
      first == FirstOf(movable)
  IN  IF first # {} /\ InFlight(s, i) = 0
      THEN Apply(ToState(s, pending \ first, "expired"), CHOOSE o \in first : TRUE)
      ELSE ToState(s, pending \ movable, "expired")

\* reserve() and the ledger's begin()
Reserve(s, h) ==
  [s EXCEPT !.resv[h.target] = @ + 1,
            !.act = Put(@, h.inc, InFlight(s, h.inc) + 1)]

\* Both counts come back; a ledger cleaned up before stays cleaned up.
GiveBack(s, h) ==
  [s EXCEPT
     !.resv[h.target] = IF @ <= 1 THEN 0 ELSE @ - 1,
     !.act = IF h.inc \notin DOMAIN s.act THEN @
             ELSE IF @[h.inc] <= 1 /\ ~ HasBinding(s, h.inc) THEN Without(@, {h.inc})
             ELSE Put(@, h.inc, IF @[h.inc] > 0 THEN @[h.inc] - 1 ELSE 0)]

\* LoadBalancerReservation.release()
Release(s, h) == ApplyAtBoundary(GiveBack(s, h), h.inc)

\* markFailure and noteSuccess; the exponential duration is left to CooldownEnds.
MarkFailure(s, n) == IF n \in s.cfg.known THEN [s EXCEPT !.cooling = @ \cup {n}] ELSE s
NoteSuccess(s, n) == [s EXCEPT !.cooling = @ \ {n}]

\* Mutant: a failover lets parked moves be.
InvalidateApplied(s, i) == ToState(s, InState(s, i, "applied"), "expired_after_apply")

\* invalidateMigrationsFor
Invalidate(s, i) ==
  ToState(ToState(s, InState(s, i, "pending_boundary"), "expired"),
          InState(s, i, "applied"), "expired_after_apply")

\* #confirmMigrationLanding: at most one applied intent carries the current revision
\* (OneMoveAwaitsLanding).
ConfirmRouted(s, h) ==
  ToState(s, {o \in InState(s, h.inc, "applied") :
                s.ops[o].dst = h.target /\ s.ops[o].appliedRev = s.rv[h.inc]}, "observed")

-----------------------------------------------------------------------------
(* plan                                                                    *)

\* Mutant: a plan that names the destination is taken for a landing.
ReservedAsLanded(s, i) ==
  LET h == [inc |-> i, target |-> s.b[i].target, rev |-> s.rv[i]]
  IN  [s |-> ConfirmRouted(Reserve(s, h), h), h |-> h]

Reserved(s, i) ==
  LET h == [inc |-> i, target |-> s.b[i].target, rev |-> s.rv[i]]
  IN  [s |-> Reserve(s, h), h |-> h]

NoteNamed(s, i, named) == [s EXCEPT !.b[i].named = @ \/ named]

AddBinding(s, task, n) ==
  [s EXCEPT !.b = Put(@, s.nextInc, [task |-> task, target |-> n, named |-> FALSE]),
            !.rv = Put(@, s.nextInc, 0),
            !.nextInc = @ + 1]

\* bind: the task's binding is pointed at n, or a new one is made.  When the lookup could
\* not use the binding where it stands it let go of its exact key, so a task known by that
\* key alone gets a second binding and leaves the first one behind.
BindResults(s, task, n, found, bound) ==
  LET lost == {i \in found : s.b[i].target \notin bound}
      left == [s EXCEPT !.b = [i \in DOMAIN @ |-> IF i \in lost THEN [@[i] EXCEPT !.task = NoTask]
                                                  ELSE @[i]]]
      fresh == IF s.nextInc > MaxInc THEN {}
               ELSE {[s |-> AddBinding(left, task, n), inc |-> s.nextInc]}
  IN  {[s |-> Rebind(s, i, n), inc |-> i] : i \in {j \in found : s.rv[j] < MaxRev}}
      \cup (IF found = lost THEN fresh ELSE {})

\* plan() returns undefined.
PlanUndefined(s, group, excluded) ==
  ~ s.up \/ ~ s.cfg.present \/ Selectable(s, group, excluded) = {}

\* plan(): all it may come to.
PlanResults(s, task, group, excluded, named) ==
  LET bound == BoundNodes(s, group)
      found == {i \in DOMAIN s.b : s.b[i].task = task}
      hits == {i \in found : s.b[i].target \in bound \ excluded}
      bindings == IF hits # {} THEN {[s |-> s, inc |-> i] : i \in hits}
                  ELSE UNION {BindResults(s, task, n, found, bound) :
                               n \in Selectable(s, group, excluded)}
  IN  IF PlanUndefined(s, group, excluded) THEN {}
      ELSE {Reserved(NoteNamed(r.s, r.inc, named), r.inc) : r \in bindings}

-----------------------------------------------------------------------------
(* reconfigure, sweep, stop                                                *)

\* Mutant: an intent that drifted nowhere may wait for ever.
RefreshAgeless(s) ==
  LET applied == {o \in DOMAIN s.ops : s.ops[o].state = "applied"}
      pending == {o \in DOMAIN s.ops : s.ops[o].state = "pending_boundary"}
      followed == {o \in applied : /\ HasBinding(s, s.ops[o].inc)
                                   /\ s.ops[o].appliedRev = s.rv[s.ops[o].inc]}
      waiting == {o \in pending : Movable(s, o)}
  IN  ToState(ToState(s, applied \ followed, "expired_after_apply"), pending \ waiting, "expired")

\* #refreshMigrationStates
Refresh(s) ==
  LET applied == {o \in DOMAIN s.ops : s.ops[o].state = "applied"}
      pending == {o \in DOMAIN s.ops : s.ops[o].state = "pending_boundary"}
      followed == {o \in applied : /\ ~ s.ops[o].aged
                                   /\ HasBinding(s, s.ops[o].inc)
                                   /\ s.ops[o].appliedRev = s.rv[s.ops[o].inc]}
      waiting == {o \in pending : ~ s.ops[o].aged /\ Movable(s, o)}
  IN  ToState(ToState(s, applied \ followed, "expired_after_apply"), pending \ waiting, "expired")

\* groupRoutingSignature: what is configured outside the group does not route it.
Signature(c) == [c EXCEPT !.known = @ \cap c.members]

\* #syncGroupVersions; `retired` keeps the last revision of a group that is gone.
SyncGroupVersions(s, c) ==
  [s EXCEPT !.cfg = c,
            !.rev = IF ~ c.present THEN 0
                    ELSE IF s.cfg.present THEN (IF Signature(c) = Signature(s.cfg) THEN @ ELSE @ + 1)
                    ELSE s.retired + 1,
            !.retired = IF c.present THEN 0 ELSE IF s.cfg.present THEN s.rev ELSE @]

\* The table of a group that is gone goes as a whole; otherwise pruneTargets.
Prune(s) ==
  LET bound == IF s.cfg.present THEN BoundNodes(s, s.cfg) ELSE {}
  IN  [s EXCEPT !.b = Without(@, {i \in DOMAIN @ : @[i].target \notin bound}),
                !.cooling = @ \cap s.cfg.known, !.asleep = @ \cap s.cfg.known]

\* Mutant: waiting intents are left to the next sweep.
ReconfiguredQuietly(s, c) == Prune(SyncGroupVersions(s, c))

Reconfigured(s, c) == Refresh(Prune(SyncGroupVersions(s, c)))

\* sweepBindingActivity
DropIdle(s) ==
  [s EXCEPT !.act = Without(@, {i \in DOMAIN @ : @[i] = 0 /\ ~ HasBinding(s, i)})]

Removed(s, S) == [s EXCEPT !.b = Without(@, S)]

Cleared(s) ==
  [s EXCEPT !.up = FALSE, !.b = EmptyMap, !.act = EmptyMap, !.ops = EmptyMap,
            !.resv = [n \in Targets |-> 0]]

-----------------------------------------------------------------------------
Init ==
  /\ \E c \in Configs :
       /\ c.present
       /\ lb = [up |-> TRUE, cfg |-> c, rev |-> 1, retired |-> 0,
                b |-> EmptyMap, rv |-> EmptyMap, nextInc |-> 1,
                act |-> EmptyMap, resv |-> [n \in Targets |-> 0],
                cooling |-> {}, asleep |-> {}, ops |-> EmptyMap]
       /\ issued = <<Signature(c)>>
  /\ req = [r \in Requests |-> Idle]
  /\ hold = [r \in Requests |-> NoHold]

Active(r, pcs) == req[r].pc \in pcs

\* A request arrives: it keeps the pipeline of now, whatever is saved while its body is read.
Begin(r) ==
  /\ lb.up /\ req[r].pc = "idle"
  /\ req' = [req EXCEPT ![r] = [Idle EXCEPT !.pc = "reading", !.known = lb.cfg.known]]
  /\ UNCHANGED <<lb, hold, issued>>

\* #selectTarget once the body is read.  Without a result the request is answered 503, or
\* routed without the group when there is none; a node this pipeline does not know gives
\* the reservation straight back.
Select(r, task, named) ==
  /\ req[r].pc = "reading"
  /\ LET results == PlanResults(lb, task, lb.cfg, {}, named)
     IN  \/ /\ results = {}
            /\ req' = [req EXCEPT ![r] = Idle]
            /\ UNCHANGED <<lb, hold>>
         \/ \E p \in results :
              IF p.h.target \in req[r].known
              THEN /\ lb' = p.s
                   /\ hold' = [hold EXCEPT ![r] = p.h]
                   /\ req' = [req EXCEPT ![r].pc = "opening", ![r].group = lb.cfg, ![r].task = task,
                                         ![r].named = named, ![r].orig = p.h.inc, ![r].node = p.h.target]
              ELSE /\ lb' = Release(p.s, p.h)
                   /\ req' = [req EXCEPT ![r] = Idle]
                   /\ UNCHANGED hold
  /\ UNCHANGED issued

\* The connection fails and #tryFailover switches: everything from the failure to the new
\* reservation is one step, so the release in it is a boundary like any other.
FailedOver(r) ==
  LET calledOff == Invalidate(MarkFailure(lb, req[r].node), hold[r].inc)
  IN  Release(calledOff, hold[r])

\* The plan of the retry goes on with the group object the request matched.
FailoverPlans(r) ==
  PlanResults(FailedOver(r), req[r].task, req[r].group, {req[r].node}, req[r].named)

Failover(r) ==
  /\ req[r].pc = "opening" /\ req[r].group.failover
  /\ \E p \in FailoverPlans(r) :
       IF p.h.target \in req[r].known
       THEN /\ lb' = p.s
            /\ hold' = [hold EXCEPT ![r] = p.h]
            /\ req' = [req EXCEPT ![r].pc = "retrying", ![r].node = p.h.target]
       ELSE /\ lb' = MarkFailure(Release(p.s, p.h), req[r].node)
            /\ hold' = [hold EXCEPT ![r] = NoHold]
            /\ req' = [req EXCEPT ![r].pc = "closing"]
  /\ UNCHANGED issued

\* It finds no other node: the error goes on to the handler, which marks the node as well.
FailoverFindsNothing(r) ==
  /\ req[r].pc = "opening" /\ req[r].group.failover
  /\ PlanUndefined(FailedOver(r), req[r].group, {req[r].node})
  /\ lb' = MarkFailure(FailedOver(r), req[r].node)
  /\ hold' = [hold EXCEPT ![r] = NoHold]
  /\ req' = [req EXCEPT ![r].pc = "closing"]
  /\ UNCHANGED issued

\* A connection failure that is not switched: failover is off, this was the second
\* attempt, or the answer was under way when the connection was reset.
ConnectionFails(r) ==
  /\ \/ req[r].pc = "opening" /\ ~ req[r].group.failover
     \/ Active(r, {"retrying", "streaming"})
  /\ lb' = MarkFailure(lb, req[r].node)
  /\ req' = [req EXCEPT ![r].pc = "closing"]
  /\ UNCHANGED <<hold, issued>>

\* The upstream's status line: a waiting move is proven, the node's cooldown ends.
Answered(r) ==
  /\ Active(r, {"opening", "retrying"})
  /\ lb' = NoteSuccess(ConfirmRouted(lb, hold[r]), req[r].node)
  /\ req' = [req EXCEPT ![r].pc = "streaming"]
  /\ UNCHANGED <<hold, issued>>

\* The body ends; what is left is to store the answer and learn its response ids.
BodyEnds(r) ==
  /\ req[r].pc = "streaming"
  /\ req' = [req EXCEPT ![r].pc = "learning"]
  /\ UNCHANGED <<lb, hold, issued>>

\* The client leaves, or the upstream breaks off in a way that is no connection failure.
Aborted(r) ==
  /\ Active(r, {"opening", "retrying", "streaming"})
  /\ req' = [req EXCEPT ![r].pc = "closing"]
  /\ UNCHANGED <<lb, hold, issued>>

\* Mutant: a request whose attempt failed forgets its reservation.
CloseAfterAnswer(r) ==
  /\ Active(r, {"closing", "learning"})
  /\ lb' = IF Active(r, {"closing"}) \/ hold[r] = NoHold THEN lb ELSE Release(lb, hold[r])
  /\ hold' = [hold EXCEPT ![r] = NoHold]
  /\ req' = [req EXCEPT ![r] = Idle]
  /\ UNCHANGED issued

\* The finally block; a reservation that was given back at a failover is not given twice.
Close(r) ==
  /\ Active(r, {"closing", "learning"})
  /\ lb' = IF hold[r] = NoHold THEN lb ELSE Release(lb, hold[r])
  /\ hold' = [hold EXCEPT ![r] = NoHold]
  /\ req' = [req EXCEPT ![r] = Idle]
  /\ UNCHANGED issued

\* moveBinding() that is accepted.  #identityRejection refuses any reference that is not
\* exactly the binding as it stands, so the record opens under the current versions.
Submit(i, n) ==
  /\ HasBinding(lb, i) /\ lb.rv[i] < MaxRev
  /\ n \in Eligible(lb, i) \ {lb.b[i].target} /\ ~ lb.b[i].named
  /\ Cardinality(DOMAIN lb.ops) < MaxOps
  /\ LET o == Cardinality(DOMAIN lb.ops) + 1
         opened == [lb EXCEPT !.ops = Put(@, o,
                      [inc |-> i, src |-> lb.b[i].target, dst |-> n, srcRev |-> lb.rv[i],
                       gRev |-> lb.rev, appliedRev |-> -1, aged |-> FALSE,
                       state |-> "pending_boundary"])]
     IN  lb' = IF InFlight(lb, i) = 0 THEN Apply(opened, o) ELSE opened
  /\ UNCHANGED <<req, hold, issued>>

\* cancelMoveBinding()
Cancel(o) ==
  /\ o \in DOMAIN lb.ops /\ lb.ops[o].state = "pending_boundary"
  /\ lb' = ToState(lb, {o}, "cancelled")
  /\ UNCHANGED <<req, hold, issued>>

\* The intent's expiresAt passes.
Age(o) ==
  /\ o \in DOMAIN lb.ops /\ lb.ops[o].state \notin Terminal /\ ~ lb.ops[o].aged
  /\ lb' = [lb EXCEPT !.ops[o].aged = TRUE]
  /\ UNCHANGED <<req, hold, issued>>

\* Requests of other tasks push a binding out at the caps, or its own finds it expired.
Evict(i) ==
  /\ HasBinding(lb, i)
  /\ lb' = Removed(lb, {i})
  /\ UNCHANGED <<req, hold, issued>>

\* LoadMonitor.sweepNow: expired bindings, then idle ledgers, then intents.
Sweep(S) ==
  /\ lb.up
  /\ lb' = Refresh(DropIdle(Removed(lb, S)))
  /\ UNCHANGED <<req, hold, issued>>

\* reloadPair calls reconfigure on the running balancer.
Reconfigure(c) ==
  /\ lb.up /\ c # lb.cfg
  /\ Len(issued) < MaxReloads + 1
  /\ lb' = Reconfigured(lb, c)
  /\ issued' = IF c.present /\ lb'.rev > Len(issued) THEN Append(issued, Signature(c)) ELSE issued
  /\ UNCHANGED <<req, hold>>

CooldownEnds(n) ==
  /\ n \in lb.cooling
  /\ lb' = [lb EXCEPT !.cooling = @ \ {n}]
  /\ UNCHANGED <<req, hold, issued>>

\* A sample says the engine fell asleep or woke up.
Sample(n) ==
  /\ lb.up /\ n \in lb.cfg.known \cap MaySleep
  /\ lb' = [lb EXCEPT !.asleep = IF n \in @ THEN @ \ {n} ELSE @ \cup {n}]
  /\ UNCHANGED <<req, hold, issued>>

\* stopPair clears the balancer; handlers that outlive it release into the void.
Stop ==
  /\ lb.up
  /\ lb' = Cleared(lb)
  /\ UNCHANGED <<req, hold, issued>>

Next ==
  \/ \E r \in Requests :
       \/ Begin(r)
       \/ \E task \in Tasks, named \in BOOLEAN : (named => task \in Naming) /\ Select(r, task, named)
       \/ Failover(r) \/ FailoverFindsNothing(r) \/ ConnectionFails(r)
       \/ Answered(r) \/ BodyEnds(r) \/ Aborted(r) \/ Close(r)
  \/ \E i \in Incs : (\E n \in Targets : Submit(i, n)) \/ Evict(i)
  \/ \E o \in OpIds : Cancel(o) \/ Age(o)
  \/ \E S \in SUBSET DOMAIN lb.b : Sweep(S)
  \/ \E c \in Configs : Reconfigure(c)
  \/ \E n \in Targets : CooldownEnds(n) \/ Sample(n)
  \/ Stop

Spec == Init /\ [][Next]_vars

-----------------------------------------------------------------------------
\* Counts, tables and handlers hold what they are declared to.
TypeOK ==
  /\ lb.cfg \in Configs /\ lb.rev \in Nat /\ lb.retired \in Nat
  /\ lb.nextInc \in 1 .. MaxInc + 1
  /\ DOMAIN lb.rv = 1 .. lb.nextInc - 1 /\ DOMAIN lb.b \subseteq DOMAIN lb.rv
  /\ \A i \in DOMAIN lb.b : lb.b[i] \in Binding /\ lb.rv[i] \in Nat
  /\ DOMAIN lb.act \subseteq Incs /\ \A i \in DOMAIN lb.act : lb.act[i] \in Nat
  /\ lb.resv \in [Targets -> Nat]
  /\ lb.cooling \subseteq lb.cfg.known /\ lb.asleep \subseteq lb.cfg.known
  /\ DOMAIN lb.ops \subseteq OpIds /\ \A o \in DOMAIN lb.ops : lb.ops[o] \in Operation
  /\ \A r \in Requests : hold[r] \in Hold \cup {NoHold}

Holders(i) == {r \in Requests : hold[r].inc = i}
HoldersOn(n) == {r \in Requests : hold[r].target = n}

\* Every reservation is counted once on its node and once on its binding until it is given
\* back, through aborts, failed attempts, failovers, reloads, evictions and late releases;
\* after a stop nothing is counted whatever is still released (load-balancer.ts 1511-1534).
LedgerCountsHolders ==
  /\ \A i \in Incs : InFlight(lb, i) = IF lb.up THEN Cardinality(Holders(i)) ELSE 0
  /\ \A n \in Targets : lb.resv[n] = IF lb.up THEN Cardinality(HoldersOn(n)) ELSE 0

\* A move is never written under a request: whichever step writes one, no handler still
\* holds a reservation on its binding (load-balancer.ts 778-795).
NoMoveUnderRequest ==
  [][\A o \in DOMAIN lb'.ops :
       /\ lb'.ops[o].state = "applied"
       /\ o \in DOMAIN lb.ops => lb.ops[o].state # "applied"
       => \A r \in Requests : hold'[r].inc # lb'.ops[o].inc]_vars

\* A move is reported observed only by a request that was planned after the move was
\* written and reached its destination: a request in flight across the move never proves
\* it (load-balancer.ts 797-840).
ObservedIsProven ==
  [][\A o \in DOMAIN lb.ops \cap DOMAIN lb'.ops :
       lb.ops[o].state # "observed" /\ lb'.ops[o].state = "observed" =>
         \E r \in Requests :
           /\ Active(r, {"opening", "retrying"}) /\ req'[r].pc = "streaming"
           /\ hold[r] = [inc |-> lb.ops[o].inc, target |-> lb.ops[o].dst,
                         rev |-> lb.ops[o].appliedRev]]_vars

\* After a failover took a binding, no move opened before it is still waiting or applied:
\* the retry is never planned from a route such a move just wrote
\* (proxy-request-pipeline.ts 568-573).
FailoverOutranksMoves ==
  [][\A r \in Requests :
       req[r].pc = "opening" /\ req'[r].pc = "retrying" =>
         \A o \in DOMAIN lb'.ops : lb'.ops[o].inc = hold[r].inc => lb'.ops[o].state \in Terminal]_vars

\* A move that waits was checked under the group revision in force: a save expires what it
\* made stale in the same step (load-balancer.ts 335-339).
WaitingMovesAreCurrent ==
  \A o \in DOMAIN lb.ops : lb.ops[o].state = "pending_boundary" => lb.ops[o].gRev = lb.rev

\* A group revision stands for one routing configuration for the life of the runtime, also
\* when the group is removed and configured again (load-balancer.ts 1447-1455).
RevisionNamesOneConfiguration ==
  lb.cfg.present => /\ lb.rev \in DOMAIN issued
                    /\ issued[lb.rev] = Signature(lb.cfg)

\* What a waiting move was allowed by is still in force, and named by its revision alone: a
\* save can neither leave it behind nor come to bear the revision it was checked under
\* (load-balancer.ts 335-339, 1447-1455).
MovesKeepTheirPremises == WaitingMovesAreCurrent /\ RevisionNamesOneConfiguration

-----------------------------------------------------------------------------
(* Liveness.  The monitor's timer keeps firing, time passes, and a handler *)
(* that has its outcome reaches its finally block; an upstream that was    *)
(* asked answers, fails or is left by its client in the end.               *)

Settles(r) == ConnectionFails(r) \/ Answered(r) \/ BodyEnds(r) \/ Aborted(r)
              \/ Failover(r) \/ FailoverFindsNothing(r)

LiveSpec ==
  /\ Spec
  /\ WF_vars(Sweep({}))
  /\ \A o \in OpIds : WF_vars(Age(o))
  /\ \A r \in Requests : WF_vars(Settles(r)) /\ WF_vars(Close(r))

\* A move that waits for its boundary does not wait for ever, even under a stream of
\* overlapping requests that never lets the binding come to rest.
WaitingMovesSettle ==
  \A o \in OpIds :
    (o \in DOMAIN lb.ops /\ lb.ops[o].state \notin Terminal)
      ~> ~ (o \in DOMAIN lb.ops /\ lb.ops[o].state \notin Terminal)

\* The ledger of a binding that left the table is collected, by its last release or by a
\* sweep, and never before (load-balancer.ts 1221-1227).
LeftLedgersGo ==
  \A i \in Incs : (i \in DOMAIN lb.act /\ ~ HasBinding(lb, i)) ~> i \notin DOMAIN lb.act

\* Nothing is kept for ever for a moment that never comes: neither a parked move for a rest
\* between requests, nor a ledger for a binding that left.
NothingWaitsForEver == WaitingMovesSettle /\ LeftLedgersGo

=============================================================================
