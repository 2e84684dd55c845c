---------------------------- MODULE ConfigApply ----------------------------
(***************************************************************************)
(* ProxyManager (src/src/proxy/proxy-manager.ts): how a configuration that *)
(* a client sends becomes the one that is committed, saved and served.     *)
(*                                                                         *)
(* Operations wait in one queue.  The one at its head stops, starts and    *)
(* reloads the pairs that differ, one awaited call of the registry at a    *)
(* time, then saves; a failure undoes, again one call at a time, what was  *)
(* done.  Clients, crashes and restarts come in between.                   *)
(*                                                                         *)
(* A configuration is its pairs, a partial function of their ids, and its  *)
(* summary model.  The order of pairs in the file, which is the order of   *)
(* the calls of a stage, is any order.  `content` stands for whatever of a *)
(* pair may change without moving its listener.                            *)
(***************************************************************************)
EXTENDS Maps, Integers, Sequences, FiniteSets

CONSTANTS
  PairIds,
  Addresses,   \* listen host and port
  Ephemeral,   \* addresses with port 0, on which any number of pairs may listen
  Contents,
  Summaries,   \* summary models
  Offers,      \* pair lists clients send
  MaxQueue     \* bound: operations waiting behind the one that runs

Pair == [enabled : BOOLEAN, address : Addresses, content : Contents]
PairLists == UNION {[S -> Pair] : S \in SUBSET PairIds}
Configs == [pairs : PairLists, summary : Summaries]
Sections == {"pairs", "summary"}

ASSUME ConfigAssumption ==
  /\ Ephemeral \subseteq Addresses
  /\ Offers \subseteq PairLists
  /\ MaxQueue \in Nat

VARIABLES
  up,       \* the process runs
  file,     \* the saved configuration
  config,   \* #config, the committed one
  state,    \* "ready" or "degraded"
  queue,    \* #applyQueue, behind the operation that runs
  op,       \* the operation that runs
  serving,  \* running pair -> the pair its pipeline was built from
  astray    \* history: pairs a rollback gave up on and no later apply put right

applyVars == <<up, file, config, state, queue, op, serving, astray>>

Idle == [stage |-> "idle"]
Running == DOMAIN serving

-----------------------------------------------------------------------------
\* assertNoEnabledListenConflicts
Listening(pairs) == {p \in DOMAIN pairs : pairs[p].enabled /\ pairs[p].address \notin Ephemeral}
Valid(pairs) == \A p, q \in Listening(pairs) : p # q => pairs[p].address # pairs[q].address

\* requiresListenerRestart
Restarts(before, after) == ~ after.enabled \/ before.address # after.address

\* diffProxyPairs and the split of the updated pairs.
Removed(before, after) == DOMAIN before \ DOMAIN after
Added(before, after) == DOMAIN after \ DOMAIN before
Updated(before, after) == {p \in DOMAIN before \cap DOMAIN after : before[p] # after[p]}
Rebound(before, after) == {p \in Updated(before, after) : Restarts(before[p], after[p])}
Reloaded(before, after) == Updated(before, after) \ Rebound(before, after)

\* Mutant: an operation applies the configuration its client saw.
ComposedWhenAsked(patch) == patch.draft

\* A patch changes its section of the configuration that is committed when its turn comes.
Composed(patch) == [config EXCEPT ![patch.section] = patch.draft[patch.section]]

-----------------------------------------------------------------------------
(* The registry, as the manager's only caller sees it.                     *)

\* The system gives the address out once.
Free(p, address) ==
  address \in Ephemeral \/ \A q \in Running \ {p} : serving[q].address # address

\* startPair: a pair that runs already is left as it is.
Starts(p, pair) == p \in Running \/ Free(p, pair.address)
StartPair(p, pair) == IF p \in Running THEN serving ELSE Put(serving, p, pair)

\* reloadPair: a pair that does not run is started.
Reloads(p, pair) == p \in Running \/ Starts(p, pair)
ReloadPair(p, pair) == Put(serving, p, pair)

StopPair(p) == Without(serving, {p})

-----------------------------------------------------------------------------
ApplyInit ==
  /\ up = FALSE /\ state = "ready" /\ queue = <<>> /\ op = Idle
  /\ file \in [pairs : {o \in Offers : Valid(o)}, summary : Summaries]
  /\ config = file
  /\ serving = EmptyMap /\ astray = {}

\* #enqueueConfigurationPatch: what the patch would make of the present configuration is
\* validated before anything is queued.
Enqueue(section, value) ==
  LET draft == [config EXCEPT ![section] = value]
  IN  /\ up /\ Len(queue) < MaxQueue
      /\ Valid(draft.pairs)
      /\ queue' = Append(queue, [section |-> section, draft |-> draft])
      /\ UNCHANGED <<up, file, config, state, op, serving, astray>>

ReplacePairs(pairs) == Enqueue("pairs", pairs)

UpdateSummaryModel(model) == Enqueue("summary", model)

\* setPairEnabled: the list it sends is made from what is committed now.
SetPairEnabled(p, enabled) ==
  /\ p \in DOMAIN config.pairs /\ config.pairs[p].enabled # enabled
  /\ Enqueue("pairs", [config.pairs EXCEPT ![p].enabled = enabled])

\* #applyValidated up to its first await.
Begin ==
  /\ up /\ op = Idle /\ queue # <<>>
  /\ queue' = Tail(queue)
  /\ \E next \in {Composed(Head(queue))} :
       op' = [stage  |-> "apply", section |-> Head(queue).section,
              base   |-> config, next |-> next,
              stop   |-> Running \cap
                           (Removed(config.pairs, next.pairs) \cup Rebound(config.pairs, next.pairs)),
              start  |-> {p \in Added(config.pairs, next.pairs) \cup Rebound(config.pairs, next.pairs) :
                            next.pairs[p].enabled},
              reload |-> Reloaded(config.pairs, next.pairs),
              stoppedOld |-> {}, startedNew |-> {}, reloadedOld |-> {}, failed |-> {}]
  /\ UNCHANGED <<up, file, config, state, serving, astray>>

Before(p) == op.base.pairs[p]
After(p) == op.next.pairs[p]

Applying == up /\ op.stage = "apply"
RollingBack == up /\ op.stage = "rollback"

Stop(p) ==
  /\ Applying /\ p \in op.stop
  /\ serving' = StopPair(p)
  /\ op' = [op EXCEPT !.stop = @ \ {p}, !.stoppedOld = @ \cup {p}]
  /\ UNCHANGED <<up, file, config, state, queue, astray>>

Start(p) ==
  /\ Applying /\ op.stop = {} /\ p \in op.start
  /\ Starts(p, After(p))
  /\ serving' = StartPair(p, After(p))
  /\ op' = [op EXCEPT !.start = @ \ {p}, !.startedNew = @ \cup {p}]
  /\ UNCHANGED <<up, file, config, state, queue, astray>>

Reload(p) ==
  /\ Applying /\ op.stop = {} /\ op.start = {} /\ p \in op.reload
  /\ Reloads(p, After(p))
  /\ serving' = ReloadPair(p, After(p))
  /\ op' = [op EXCEPT !.reload = @ \ {p}, !.reloadedOld = @ \cup {p}]
  /\ UNCHANGED <<up, file, config, state, queue, astray>>

\* A start or a reload that throws: the address is taken, by a pair or by another program,
\* or a log root cannot be opened.  The pair is left as it was.
CallFails ==
  /\ Applying /\ op.stop = {} /\ op.start \cup op.reload # {}
  /\ op.start # {} => op.start \ Running # {}
  /\ op' = [op EXCEPT !.stage = "rollback"]
  /\ UNCHANGED <<up, file, config, state, queue, serving, astray>>

ToSave == Applying /\ op.stop = {} /\ op.start = {} /\ op.reload = {}

\* repository.save: a temporary file, renamed over the old one.
Save ==
  /\ ToSave
  /\ file' = op.next
  /\ op' = [op EXCEPT !.stage = "saved"]
  /\ UNCHANGED <<up, config, state, queue, serving, astray>>

\* Mutant: the file is written in place.
SaveFailsHalfWay ==
  /\ ToSave
  /\ file' = op.next
  /\ op' = [op EXCEPT !.stage = "rollback"]
  /\ UNCHANGED <<up, config, state, queue, serving, astray>>

SaveFails ==
  /\ ToSave
  /\ op' = [op EXCEPT !.stage = "rollback"]
  /\ UNCHANGED <<up, file, config, state, queue, serving, astray>>

Commit ==
  /\ up /\ op.stage = "saved"
  /\ config' = op.next /\ state' = "ready" /\ op' = Idle
  /\ astray' = astray \ (op.stoppedOld \cup op.startedNew \cup op.reloadedOld)
  /\ UNCHANGED <<up, file, queue, serving>>

-----------------------------------------------------------------------------
(* #rollback: stop what was started, reload what was reloaded, start what  *)
(* was stopped; a call that throws is noted and the next one made.         *)

\* Mutant: a listener the failed apply opened stays open.
UndoStartLater(p) ==
  /\ RollingBack /\ p \in op.startedNew
  /\ op' = [op EXCEPT !.startedNew = @ \ {p}]
  /\ UNCHANGED <<up, file, config, state, queue, serving, astray>>

UndoStart(p) ==
  /\ RollingBack /\ p \in op.startedNew
  /\ serving' = StopPair(p)
  /\ op' = [op EXCEPT !.startedNew = @ \ {p}]
  /\ UNCHANGED <<up, file, config, state, queue, astray>>

UndoReload(p) ==
  /\ RollingBack /\ op.startedNew = {} /\ p \in op.reloadedOld
  /\ op' = [op EXCEPT !.reloadedOld = @ \ {p}]
  /\ Reloads(p, Before(p))
  /\ serving' = ReloadPair(p, Before(p))
  /\ UNCHANGED <<up, file, config, state, queue, astray>>

UndoStop(p) ==
  /\ RollingBack /\ op.startedNew = {} /\ op.reloadedOld = {} /\ p \in op.stoppedOld
  /\ op' = [op EXCEPT !.stoppedOld = @ \ {p}]
  /\ Starts(p, Before(p))
  /\ serving' = StartPair(p, Before(p))
  /\ UNCHANGED <<up, file, config, state, queue, astray>>

\* The catch around one call of the rollback.
UndoFails(p) ==
  /\ RollingBack /\ op.startedNew = {}
  /\ \/ p \in op.reloadedOld
     \/ op.reloadedOld = {} /\ p \in op.stoppedOld
  /\ op' = [op EXCEPT !.reloadedOld = @ \ {p}, !.failed = @ \cup {p},
                      !.stoppedOld = IF op.reloadedOld = {} THEN @ \ {p} ELSE @]
  /\ astray' = astray \cup {p}
  /\ UNCHANGED <<up, file, config, state, queue, serving>>

Undone == op.startedNew = {} /\ op.reloadedOld = {} /\ op.stoppedOld = {}

\* Mutant: an operation whose rollback failed never ends, and the queue waits for it.
RolledBackCleanly ==
  /\ RollingBack /\ Undone /\ op.failed = {}
  /\ state' = "ready" /\ op' = Idle
  /\ UNCHANGED <<up, file, config, queue, serving, astray>>

RolledBack ==
  /\ RollingBack /\ Undone
  /\ state' = IF op.failed = {} THEN "ready" ELSE "degraded"
  /\ op' = Idle
  /\ UNCHANGED <<up, file, config, queue, serving, astray>>

-----------------------------------------------------------------------------
\* The process is gone and only the file is left.
Gone ==
  /\ up /\ up' = FALSE
  /\ queue' = <<>> /\ op' = Idle /\ serving' = EmptyMap /\ astray' = {} /\ state' = "ready"
  /\ UNCHANGED <<file, config>>

Crash == Gone

\* stopAll waits for the queue; the admin server is closed before it.
Shutdown == op = Idle /\ queue = <<>> /\ Gone

\* repository.load, then startEnabled, which fails the application unless every pair starts.
Boot ==
  /\ ~ up /\ up' = TRUE
  /\ config' = file
  /\ serving' = [p \in {q \in DOMAIN file.pairs : file.pairs[q].enabled} |-> file.pairs[p]]
  /\ UNCHANGED <<file, state, queue, op, astray>>

Apply ==
  \/ Begin \/ CallFails \/ Save \/ SaveFails \/ Commit \/ RolledBack
  \/ \E p \in PairIds :
       \/ Stop(p) \/ Start(p) \/ Reload(p)
       \/ UndoStart(p) \/ UndoReload(p) \/ UndoStop(p) \/ UndoFails(p)

ApplyNext ==
  \/ \E pairs \in Offers : ReplacePairs(pairs)
  \/ \E model \in Summaries : UpdateSummaryModel(model)
  \/ \E p \in PairIds, enabled \in BOOLEAN : SetPairEnabled(p, enabled)
  \/ Apply
  \/ Crash \/ Shutdown \/ Boot

ApplySpec == ApplyInit /\ [][ApplyNext]_applyVars

\* Every awaited call of the registry and of the file system ends.
FairSpec == ApplySpec /\ WF_applyVars(Apply)

-----------------------------------------------------------------------------
ApplyTypeOK ==
  /\ up \in BOOLEAN
  /\ file \in Configs /\ config \in Configs
  /\ state \in {"ready", "degraded"}
  /\ \A n \in DOMAIN queue :
       /\ queue[n].section \in Sections
       /\ queue[n].draft \in Configs
  /\ op.stage \in {"idle", "apply", "saved", "rollback"}
  /\ op.stage # "idle" => op.next \in Configs /\ Valid(op.next.pairs)
  /\ serving \in PairLists
  /\ astray \subseteq PairIds

\* What is committed is what a restart would read, except between the rename and the end
\* of the save: a failed save leaves neither the file nor the memory ahead of the other
\* (proxy-manager.ts 244-246, config-repository.ts 149-172).
FileIsCommitted == up /\ op.stage # "saved" => file = config

\* Between operations every listener belongs to a committed pair and serves it as it is
\* committed, whatever failed on the way, unless the rollback said it could not restore
\* it: no orphan from an apply that failed, no pair left on the settings that were refused
\* (proxy-manager.ts 248-283).
ServesWhatIsCommitted ==
  up /\ op = Idle =>
    \A p \in Running \ astray : p \in DOMAIN config.pairs /\ serving[p] = config.pairs[p]

\* A write of one section never carries an older copy of the other into the save, however
\* the two were queued (proxy-manager.ts 184-202).
SectionsCompose ==
  [][up /\ config' # config =>
       \A section \in Sections : config'[section] # config[section] => op.section = section]_applyVars

\* The operation that runs ends, however many of its calls and of the calls of its rollback
\* fail, so that the next one gets its turn.
ApplyEnds == []<>(op = Idle)

=============================================================================
