---------------------------- MODULE LoadMonitor ----------------------------
(***************************************************************************)
(* The load monitor of a pair and the rebalance advisor on its tick        *)
(* (src/src/proxy/load-monitor.ts, load-evidence.ts, load-rebalance.ts):   *)
(* reading the engines behind the targets of one group, which reads may    *)
(* land late, and judging from them which binding would be moved.          *)
(*                                                                         *)
(* Of an answer the model keeps what the judgement tells apart: a queue,   *)
(* idle, neither, or nothing a judgement may use (a half answer, an engine *)
(* asleep).  Bindings, requests and configurations are the environment:    *)
(* module LoadBalancer has their own rules.  A binding the state gate      *)
(* blocks is as one that is gone; which bindings were active lately is     *)
(* chosen freely.  Times are the pair's clock, and a tick of the monitor   *)
(* may come at any moment of it.                                           *)
(***************************************************************************)
EXTENDS Maps, Integers, Sequences, FiniteSets, SequencesExt, FiniteSetsExt

CONSTANTS
  Targets, Engines,
  Configs,           \* target -> [engine, enabled], for the targets it has
  Bindings,          \* incarnations of bindings, in the order they were made
  Home, Cost,        \* binding -> its first target, what its context costs
  NoSample, NoRead,
  Loads,             \* what an answer may say: queue, idle, running, unusable
  MaxReading,        \* bound: reads in flight
  FreshWindow,       \* METRIC_FRESH_WINDOW_MS
  StableMin, Cooldown, AntiFlap, Budget, BudgetWindow,
  CommitmentCap, Retention, MaxStored,    \* RebalancePolicy
  MaxTime, MaxReads, MaxRev  \* bounds: clock, reads of an engine, moves of a binding

ASSUME MonitorAssumption ==
  /\ IsFiniteSet(Targets) /\ Bindings \subseteq Nat /\ IsFiniteSet(Bindings)
  /\ \A c \in Configs : /\ DOMAIN c \subseteq Targets
                         /\ \A t \in DOMAIN c : c[t].engine \in Engines
  /\ NoSample \notin [seq : Nat, at : Nat, load : Loads, of : Engines]
  /\ Home \in [Bindings -> Targets]
  /\ Cost \in [Bindings -> Nat]
  /\ {MaxReading, FreshWindow, StableMin, Cooldown, AntiFlap, Budget, BudgetWindow,
      CommitmentCap, Retention, MaxStored, MaxTime, MaxReads, MaxRev} \subseteq Nat

VARIABLES
  now,
  cfg, gRev,    \* configuration, revision of the group
  sample,       \* target -> its node's sample: [seq, at, load, of]
  sequences,    \* engine -> samples it has produced
  reading,      \* engine -> targets its read in flight is for, or NoRead
  binding,      \* incarnation -> [target, rev, busy]
  stability,    \* <<source engine, destination engine>> -> what was counted
  suggestions,  \* the store: number -> suggestion, in the order they were made
  memory        \* what was suggested when: cooldowns, directions and budget

vars == <<now, cfg, gRev, sample, sequences, reading, binding, stability, suggestions, memory>>
advisor == <<stability, suggestions, memory>>

Init ==
  /\ now = 0 /\ gRev = 1
  /\ cfg \in Configs
  /\ sample = [t \in DOMAIN cfg |-> NoSample]
  /\ sequences = [e \in Engines |-> 0]
  /\ reading = [e \in Engines |-> NoRead]
  /\ binding = [i \in {i \in Bindings : Home[i] \in DOMAIN cfg} |->
                  [target |-> Home[i], rev |-> 1, busy |-> FALSE]]
  /\ stability = EmptyMap /\ suggestions = EmptyMap /\ memory = {}

-----------------------------------------------------------------------------
\* Sampling

\* Enabled targets of an engine: they share its numbers.
NodesForKey(e) == {t \in DOMAIN cfg : cfg[t].engine = e /\ cfg[t].enabled}

\* One read of an engine at a time.
StartRead(e) ==
  /\ reading[e] = NoRead /\ NodesForKey(e) # {}
  /\ sequences[e] < MaxReads /\ Cardinality({f \in Engines : reading[f] # NoRead}) < MaxReading
  /\ reading' = [reading EXCEPT ![e] = NodesForKey(e)]
  /\ UNCHANGED <<now, cfg, gRev, sample, sequences, binding, advisor>>

\* The nodes an answer is stored at: those it was asked for, as far as they exist.
SetSample(e, s) ==
  [t \in DOMAIN sample |-> IF t \in reading[e] THEN s ELSE sample[t]]

\* Number of the sample that is accepted now.
NextSequence(e) == sequences[e] + 1

ReadAnswers(e, load) ==
  /\ reading[e] # NoRead
  /\ sequences' = [sequences EXCEPT ![e] = NextSequence(e)]
  /\ sample' = SetSample(e, [seq |-> NextSequence(e), at |-> now, load |-> load, of |-> e])
  /\ reading' = [reading EXCEPT ![e] = NoRead]
  /\ UNCHANGED <<now, cfg, gRev, binding, advisor>>

\* No answer, or one without a number.
ReadFails(e) ==
  /\ reading[e] # NoRead
  /\ sample' = SetSample(e, NoSample)
  /\ reading' = [reading EXCEPT ![e] = NoRead]
  /\ UNCHANGED <<now, cfg, gRev, sequences, binding, advisor>>

-----------------------------------------------------------------------------
\* Evidence: engineLoadViews, assessLoadSample

Present == {cfg[t].engine : t \in DOMAIN cfg}
TargetsOf(e) == {t \in DOMAIN cfg : cfg[t].engine = e}

\* The latest read any alias of the engine carries.
View(e) ==
  LET sampled == {t \in TargetsOf(e) : sample[t] # NoSample}
  IN IF sampled = {} THEN NoSample
     ELSE sample[CHOOSE t \in sampled : \A u \in sampled : sample[u].seq <= sample[t].seq]

Usable(e) ==
  View(e) # NoSample /\ now - View(e).at <= FreshWindow /\ View(e).load # "unusable"

InFlight(t) == Cardinality({i \in DOMAIN binding : binding[i].target = t /\ binding[i].busy})

Busy(e) == Usable(e) /\ View(e).load = "queue"
Idle(e) ==
  Usable(e) /\ View(e).load = "idle" /\ \A t \in TargetsOf(e) : InFlight(t) = 0

-----------------------------------------------------------------------------
\* RebalanceAdvisor.tick

Live(store) == {k \in DOMAIN store : store[k].state = "suggested"}
Terminals(store) == DOMAIN store \ Live(store)

Ended(s, state) == [s EXCEPT !.state = state, !.end = now]

\* Old records go, and a suggestion nothing acted on in time was not used.
Pruned(store) ==
  LET old == {k \in Terminals(store) : now - store[k].end >= Retention}
  IN [k \in DOMAIN store \ old |->
        IF k \in Live(store) /\ now - store[k].at >= Retention
        THEN Ended(store[k], "unused") ELSE store[k]]

\* The write gate's answer: what stops any move, and where this one may go.
Eligible(i, t) ==
  /\ t \in DOMAIN cfg /\ cfg[t].enabled
  /\ cfg[t].engine # cfg[binding[i].target].engine

\* Mutant: only what can be read off the binding is looked at again.
PremiseOfBinding(s) ==
  s.inc \in DOMAIN binding

\* What #expiryReason asks of a live suggestion.
PremiseHolds(s) ==
  /\ s.gRev = gRev
  /\ s.inc \in DOMAIN binding
  /\ binding[s.inc].rev = s.rev /\ binding[s.inc].target = s.src
  /\ Usable(cfg[s.src].engine) /\ Usable(cfg[s.dst].engine)
  /\ Eligible(s.inc, s.dst)
  /\ View(cfg[s.dst].engine).load = "idle" /\ InFlight(s.dst) = 0

Checked(store) ==
  [k \in DOMAIN store |->
     IF k \in Live(store) /\ ~PremiseHolds(store[k])
     THEN Ended(store[k], "expired") ELSE store[k]]

Held == {p \in Present \X Present : p[1] # p[2] /\ Busy(p[1]) /\ Idle(p[2])}

\* A read that is counted; which ones were is not in the program.
AlsoCounted(e, before) ==
  [counted |-> View(e).seq, stable |-> before.stable + 1,
   reads |-> before.reads \cup {<<View(e).of, View(e).seq>>}]

\* Mutant: every look at a held imbalance counts.
CountedLook(e, before) == AlsoCounted(e, before)

\* A new read of the source engine counts once.
Counted(e, before) == IF View(e).seq > before.counted THEN AlsoCounted(e, before) ELSE before

Stability ==
  [p \in Held |-> Counted(p[1], IF p \in DOMAIN stability THEN stability[p]
                                ELSE [counted |-> -1, stable |-> 0, reads |-> {}])]

\* #passesSafetyGates, of a binding on engine e.
MayMove(i, e, f) ==
  /\ cfg[binding[i].target].engine = e
  /\ ~binding[i].busy
  /\ \E t \in TargetsOf(f) : Eligible(i, t)

Destination(i, f) == CHOOSE t \in TargetsOf(f) : Eligible(i, t)

\* A candidate is a binding that would leave by the n-th of the stable imbalances: in their
\* order, and cheapest first.
Before(c, d) ==
  \/ c[1] < d[1]
  \/ c[1] = d[1] /\ \/ Cost[c[2]] < Cost[d[2]]
                    \/ Cost[c[2]] = Cost[d[2]] /\ c[2] < d[2]

Ranked(S) ==
  [n \in 1 .. Cardinality(S) |-> CHOOSE c \in S : Cardinality({d \in S : Before(d, c)}) = n - 1]

Recent(mem) == {m \in mem : now - m.at < BudgetWindow}

\* The binding was suggested the other way not long ago.
FlapsBack(mem, i, e, f) ==
  \E m \in mem : m.inc = i /\ m.from = f /\ m.to = e /\ now - m.at < AntiFlap

BudgetSpent(mem) == Cardinality(Recent(mem)) >= Budget

\* Mutant: a target is promised again each time.
NeverCommitted(store, t) == FALSE

Committed(store, t) ==
  Cardinality({k \in Live(store) : store[k].dst = t}) >= CommitmentCap

EpisodeLive(store, i) == \E k \in Live(store) : store[k].inc = i

\* Only live suggestions, and as many as there may be: none may go for another.
Full(store) == Cardinality(DOMAIN store) >= MaxStored /\ Terminals(store) = {}

\* #policyRefusal: the first reason of the code's order.
Reasons == <<"episode_live", "binding_cooldown", "group_budget", "destination_commitment",
             "anti_flap", "store_full">>

Refuses(reason, st, i, e, f) ==
  \/ reason = "episode_live" /\ EpisodeLive(st.store, i)
  \/ reason = "binding_cooldown" /\ \E m \in st.mem : m.inc = i /\ now - m.at < Cooldown
  \/ reason = "group_budget" /\ BudgetSpent(st.mem)
  \/ reason = "destination_commitment" /\ Committed(st.store, Destination(i, f))
  \/ reason = "anti_flap" /\ FlapsBack(st.mem, i, e, f)
  \/ reason = "store_full" /\ Full(st.store)

Refusal(st, i, e, f) ==
  LET hits == {n \in DOMAIN Reasons : Refuses(Reasons[n], st, i, e, f)}
  IN IF hits = {} THEN "none" ELSE Reasons[CHOOSE n \in hits : \A m \in hits : n <= m]

\* Makes room by the oldest record that is over.
RoomIn(store) ==
  IF Cardinality(DOMAIN store) < MaxStored \/ Terminals(store) = {} THEN store
  ELSE Without(store, {CHOOSE k \in Terminals(store) :
         \A l \in Terminals(store) :
           store[k].end < store[l].end \/ (store[k].end = store[l].end /\ k <= l)})

\* A suggestion comes after those that are stored.
NextNumber(store) == 1 + Max(DOMAIN store \cup {0})
With(store, s) == Put(store, NextNumber(store), s)

Suggestion(i, t, state, reason, rests) ==
  [inc |-> i, src |-> binding[i].target, dst |-> t, rev |-> binding[i].rev, gRev |-> gRev,
   at |-> now, state |-> state, reason |-> reason, end |-> now,
   stable |-> rests.stable, reads |-> rests.reads]

\* #recordRejection: room is made first, then the refusal is looked for.
Rejected(st, n, i, t, reason, rests) ==
  IF Full(st.store) THEN [st EXCEPT !.full = n]
  ELSE LET room == RoomIn(st.store)
           again == \E k \in DOMAIN room :
                      /\ room[k].state = "rejected" /\ room[k].inc = i
                      /\ room[k].dst = t /\ room[k].reason = reason
       IN [st EXCEPT !.store = IF again THEN room
                               ELSE With(room, Suggestion(i, t, "rejected", reason, rests))]

\* A candidate is refused, or suggested and the tick is done.  Where a refusal finds no room
\* the others of that imbalance are not looked at.
Considered(st, n, p, i) ==
  LET t == Destination(i, p[2])
      refusal == Refusal(st, i, p[1], p[2])
  IN IF st.made \/ st.full = n THEN st
     ELSE IF refusal # "none" THEN Rejected(st, n, i, t, refusal, Stability[p])
     ELSE [store |-> With(RoomIn(st.store), Suggestion(i, t, "suggested", "none", Stability[p])),
           mem |-> st.mem \cup {[inc |-> i, from |-> p[1], to |-> p[2], at |-> now]},
           made |-> TRUE, full |-> st.full]

\* What is stored when the candidates were considered, one after the other
AfterAll(store, stable, ranked) ==
  LET after[m \in 0 .. Len(ranked)] ==
        IF m = 0 THEN [store |-> store, mem |-> memory, made |-> FALSE, full |-> 0]
        ELSE Considered(after[m - 1], ranked[m][1], stable[ranked[m][1]], ranked[m][2])
  IN after[Len(ranked)]

\* The monitor's tick, for a group that asks for advice: the imbalances that are stable, in
\* the order they came to be, and the bindings that were active lately, as it happens.
RunAdvisor ==
  /\ IF Cardinality(Present) < 2
     THEN stability' = EmptyMap ELSE stability' = Stability
  /\ \E stable \in SetToSeqs({p \in Held : Stability[p].stable >= StableMin}) :
     \E active \in SUBSET DOMAIN binding :
       LET candidates == {c \in (DOMAIN stable) \X active :
                            MayMove(c[2], stable[c[1]][1], stable[c[1]][2])}
           after == AfterAll(Checked(Pruned(suggestions)), stable, Ranked(candidates))
       IN suggestions' = after.store /\ memory' = after.mem
  /\ UNCHANGED <<now, cfg, gRev, sample, sequences, reading, binding>>

-----------------------------------------------------------------------------
\* What goes on around it

RequestStarts(i) ==
  /\ ~binding[i].busy
  /\ binding' = [binding EXCEPT ![i].busy = TRUE]
  /\ UNCHANGED <<now, cfg, gRev, sample, sequences, reading, advisor>>

RequestEnds(i) ==
  /\ binding[i].busy
  /\ binding' = [binding EXCEPT ![i].busy = FALSE]
  /\ UNCHANGED <<now, cfg, gRev, sample, sequences, reading, advisor>>

\* Moved by hand, or by a failover.
Moved(i, t) ==
  /\ t \in DOMAIN cfg \ {binding[i].target} /\ cfg[t].enabled /\ binding[i].rev < MaxRev
  /\ binding' = [binding EXCEPT ![i].target = t, ![i].rev = @ + 1]
  /\ UNCHANGED <<now, cfg, gRev, sample, sequences, reading, advisor>>

\* Its binding goes, or no longer passes the state gate.
Gone(i) ==
  /\ binding' = Without(binding, {i})
  /\ UNCHANGED <<now, cfg, gRev, sample, sequences, reading, advisor>>

\* A save: a node keeps its sample, a binding of a target that is gone goes.
Reconfigure(c) ==
  /\ c # cfg /\ gRev < MaxRev
  /\ cfg' = c /\ gRev' = gRev + 1
  /\ sample' = [t \in DOMAIN c |-> IF t \in DOMAIN sample THEN sample[t] ELSE NoSample]
  /\ binding' = Without(binding, {i \in DOMAIN binding :
                  ~(binding[i].target \in DOMAIN c /\ c[binding[i].target].enabled)})
  /\ UNCHANGED <<now, sequences, reading, advisor>>

\* The group no longer wants advice: its state goes with it.
AdviceOff ==
  /\ stability' = EmptyMap /\ suggestions' = EmptyMap /\ memory' = {}
  /\ advisor' # advisor
  /\ UNCHANGED <<now, cfg, gRev, sample, sequences, reading, binding>>

Tick ==
  /\ now < MaxTime
  /\ now' = now + 1
  /\ UNCHANGED <<cfg, gRev, sample, sequences, reading, binding, advisor>>

Next ==
  \/ \E e \in Engines : \/ StartRead(e) \/ ReadFails(e)
                        \/ \E load \in Loads : ReadAnswers(e, load)
  \/ RunAdvisor
  \/ \E i \in DOMAIN binding : \/ RequestStarts(i) \/ RequestEnds(i) \/ Gone(i)
                               \/ \E t \in Targets : Moved(i, t)
  \/ \E c \in Configs : Reconfigure(c)
  \/ AdviceOff \/ Tick

Spec == Init /\ [][Next]_vars

-----------------------------------------------------------------------------
\* Properties

Made == {k \in DOMAIN suggestions : suggestions[k].state # "rejected"}

(* A binding has one episode: while a suggestion about it lives no other   *)
(* does, and no target is promised to more bindings than the cap           *)
(* (load-rebalance.ts #policyRefusal).                                     *)
PromisesAreKeptApart ==
  /\ \A k, l \in Live(suggestions) : suggestions[k].inc = suggestions[l].inc => k = l
  /\ \A t \in Targets :
       Cardinality({k \in Live(suggestions) : suggestions[k].dst = t}) <= CommitmentCap

(* After a tick every live suggestion could be acted on as it stands: its  *)
(* route, group and evidence are the ones it was made about                *)
(* (load-rebalance.ts #advanceLifecycle).                                  *)
CouldBeActedOn(s) ==
  /\ s.gRev = gRev /\ s.inc \in DOMAIN binding
  /\ binding[s.inc].rev = s.rev /\ binding[s.inc].target = s.src
  /\ Usable(cfg[s.src].engine)
  /\ cfg[s.dst].enabled /\ Usable(cfg[s.dst].engine)
  /\ View(cfg[s.dst].engine).load = "idle" /\ InFlight(s.dst) = 0

LiveAdviceIsCurrent ==
  [][RunAdvisor => \A k \in Live(suggestions') : CouldBeActedOn(suggestions'[k])]_vars

(* An imbalance counts by different reads of an engine: a stuck engine, or *)
(* ticks faster than its answers, cannot make one look stable              *)
(* (load-rebalance.ts tick, load-monitor.ts #nextSampleSequence).          *)
AdviceRestsOnDifferentReads ==
  \A k \in Made : /\ suggestions[k].stable >= StableMin
                  /\ Cardinality(suggestions[k].reads) >= suggestions[k].stable

=============================================================================
