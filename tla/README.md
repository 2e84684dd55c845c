# LLM Proxy: TLA+ models, checks and proofs

LLM Proxy is one Node.js process. It listens on local ports, forwards chat, completion and
`responses` requests to inference engines, spreads the requests for a model over several engines
while keeping a conversation on the engine that holds its cache, logs all traffic to SQLite and
prices it, and serves an administration page to a browser.

The server runs on one event loop: whatever happens between two `await`s is atomic and everything
else interleaves. The page is the same, one event loop in the browser, with a network between the two. That
is the grain of every model here: **one action per synchronous stretch of a handler, a timer
callback, an answer or a click.**

Paths below are relative to `src/src/` unless they say otherwise.

## 1. The system

| Part | State it keeps | Operations | Talks to |
| --- | --- | --- | --- |
| Migration contract `proxy/load-migration-contract.ts` | none | the transition table of a binding move | store, balancer |
| Migration store `proxy/load-migration.ts` | records, receipts by idempotency key, live set | open, findReplay, recordAnswer, transitions, retention, eviction, dropAll | called by the balancer |
| Affinity table `proxy/load-affinity.ts` | bindings, exact-key index, buckets by prefix | lookup, bind, rebind, attachResponseIds, remove, prune, sweep | called by the balancer and the pipeline |
| Activity ledger `proxy/binding-activity.ts` | per binding: in flight, last times, cost | begin, end, read, drop | called by the balancer |
| Load balancer `proxy/load-balancer.ts` | nodes, cooldowns, groups and their revisions, tables, reservations, ledger, store | plan, release, moveBinding, cancel, markFailure, noteSuccess, reconfigure, sweeps, clear | pipeline, admin, monitor, registry |
| Request pipeline `proxy/proxy-request-pipeline.ts` | local variables of each handler | read body, select, log, connect, fail over once, stream, store the answer, learn ids, release | balancer, traffic log, upstream |
| Load monitor and rebalance advisor `proxy/load-monitor.ts`, `load-evidence.ts`, `load-rebalance.ts` | samples, sequence numbers, suggestions, stability counts | tick: sample, advise, sweep | balancer, engines |
| Runtime registry `proxy/proxy-runtime-registry.ts`, `active-requests.ts`, `proxy-listener.ts` | per pair: listener, current pipeline, log services; drains | startPair, reloadPair, stopPair, stopAll | manager, logs |
| Proxy manager `proxy/proxy-manager.ts` | committed configuration, apply queue, ready or degraded | replacePairs, updateSummaryModel, setPairEnabled, rollback | registry, config file |
| Configuration `config/` | the file, one backup | validate, normalize, preserve, load, save | manager, form |
| Traffic log `logging/traffic-log-service.ts`, `write-queue.ts` | one serial queue per log root, closed flag | write, close | pipeline, registry, persistence |
| Task matcher `logging/task-matcher.ts` | rows of the repository | put a request into a task | traffic log |
| Persistence `persistence/` | SQLite tables | one transaction per event, cascades, pages of tasks and records | logs, maintenance |
| Summaries `maintenance/summary-generation-service.ts` | running jobs | generate, store | admin, a model, persistence |
| Response transport `proxy/response-*.ts`, `protocol/streams.ts` | buffers of one answer | decode, capture, accumulate, relay with back pressure | pipeline, log |
| Pricing `pricing/` | none | usage of an answer, its cost | pipeline, log |
| Administration API `proxy/load-balancer-admin.ts`, `admin/routes/` | none that outlives a request | lists, moves, cancels, saves | all of the above |
| Administration page `admin/static/modules/` | history, panes, form, binding list with its decisions | read, page, refresh, edit, save, move | the API |
| CLI, shell `cli/`, `app/`, `electron/` (repository root) | none | start, stop | manager |

How a request travels: the listener hands it to the pair's *current* pipeline; the pipeline reads
the body (await), asks the balancer for a plan, which reserves a node synchronously; it writes the
log (await), opens the upstream connection (await), fails over at most once, streams the body
(await), stores the answer (await), teaches the binding the response ids, and releases its
reservation in `finally`. Meanwhile an operator may move the binding, the monitor sweeps, a save
reconfigures the balancer and exchanges the pipeline under the running requests, and a stop takes
all of it away.

What is hard in it, and hard to test:

* moves that wait for "nothing in flight" while requests overlap; proofs of a landing that arrive
  late; a failover in the middle; a group that is removed and configured again;
* keys that wander between tasks; references and answers that must not act on a later incarnation of
  what they name; a retry of a move after its record was let go;
* log services shared by configurations that follow one another while old requests still write;
* an apply that fails half way and a rollback that fails too; a write composed before another was
  committed;
* events of one request that arrive around cleanups, briefs that take longer than the next request;
* samples that overlap saves and moves; two pieces of advice that count on the same room;
* bytes cut anywhere, limits reached anywhere, a codec that fails, a client that leaves;
* a page that reads by offsets from a list that moves, with answers that come late or never, and a
  user who goes on clicking and typing.

`PROJECT.json` lists each such hazard at its line, with the properties that would catch it.

## 2. Modules

| Module | Models | State ↔ code |
| --- | --- | --- |
| `Maps`, `Page` | Partial functions (`Put`, `Without`); what the page's modules share (`None`, `Keeping`) | JavaScript `Map`s; `Array.filter()` |
| `MigrationContract` | The transition table of a move | `MIGRATION_TRANSITIONS` |
| `IdempotentMove` | The abstract promise of a move: answered once per key, not forgotten while it can still act | what `moveBinding()` promises |
| `MigrationStore` | `MigrationOperationStore` as `moveBinding()` uses it | `records` ↔ `#records`, `#live`; `receipts` ↔ the idempotency index; `now` ↔ the clock |
| `AffinityTable` | `LoadAffinityTable` and its two users, `plan()` and the move behind the state gate | `table.b` ↔ `#bindings`, `#buckets`; `table.idx` ↔ `#exactIndex`; `allowed` ↔ enabled members; `held` ↔ the group objects that requests still carry |
| `LoadBalancer` | The balancer under concurrent handlers, operator, saves, sweep and stop | `lb` ↔ the private fields; `req` ↔ the handlers' local variables; `hold` ↔ the reservations |
| `LoadMonitor` | Sampling rounds and the advisor | `sample`, `sequences`, `reading` ↔ the monitor's; `suggestions`, `stability` ↔ the advisor's maps; `memory` ↔ its last suggestions, directions and budget moments |
| `PairRuntime` | The registry's entry of a pair, drains, log services, write queues, handlers | `entry`, `logServices`, `drains`, `services`, `queue`, `req` |
| `ConfigApply` | The manager: queue, apply, rollback, enabling, save, crash, boot | `config`, `state`; `queue` ↔ `#applyQueue`; `op` ↔ the running `#applyValidated()`; `file`; `serving` ↔ running entries |
| `TaskLog` | One log root: task matcher, the transaction of each event, cleanups, briefs | `db` ↔ the tables; `phase` ↔ how far a request's events are; `jobs` ↔ briefs being made |
| `ResponseRelay` | One answer through decoder, capture, readers, client and log, and its price | positions in the body; the accumulators' fields |
| `MoveConsole` | The binding list of the page over a network that loses answers | the list's rows, drafts, submitted and uncertain decisions; of the server what the page can tell |
| `HistoryPage` | The task list: loads, search, paging, refresh, over a log that goes on | `order`, `log` ↔ the log; `list` and the calls in flight ↔ `history.js` |
| `RecordPane` | The selected record and the tree of its body | rows by path; chunks being filled |
| `ConfigEditor` | The form of pairs, targets, groups and price rules, and what a save makes of it | `form` ↔ controls; `pairs` ↔ the objects behind them; `committed` ↔ the server |
| `MC*` | Instances for TLC | |
| `*_proofs` | Theorems and proofs | |

How they meet. `LoadBalancer` reduces the affinity table to "the binding a task's requests find", which
`AffinityTable` examines; it reduces the operation store to the state of each accepted move, which
`MigrationStore` examines against `IdempotentMove`; and `MoveConsole` is the browser that lives by
that promise. `ConfigApply`'s calls of the registry are what `PairRuntime` calls start, reload and stop, and
what `LoadBalancer` sees as a reconfiguration or a stop; `ConfigEditor` takes the atomicity of a write from
`ConfigApply`. `PairRuntime` follows a record as far as the queue of its root, `TaskLog` begins where the
queue runs it; `HistoryPage` and `RecordPane` read what it leaves. `LoadMonitor`'s bindings and saves are an
environment with `LoadBalancer`'s rules.

Notes on single modules, beyond the comments in them:

* **`MigrationStore`.** A known key is answered from its receipt whatever the request's digest, so the digest
  does not appear. Which transitions happen is the balancer's business: the store is checked against every
  order the contract allows. `KeepsItsPromise` is the refinement: `Promise` instantiates
  `IdempotentMove` with the first answers of the receipts and the live records, and every step of the
  store is a step of the promise or changes neither.
* **`AffinityTable`.** An identity is what `protocol/task-identity.ts` extracts: exact keys in lookup
  order, bucket, endpoint, message hashes. Everything `lookup` does on the way is part of it (detach, expire,
  touch). `Request` is `plan()`'s use of it: a lookup among the group's members and, if that is no use, a
  `bind` whose own lookup is not restricted.
* **`LoadBalancer`.** The stretch from a failed connection to the new reservation (mark, invalidate,
  release with its boundary, plan) is one step, because the code awaits nothing in it. A retry plans with the
  group object the request matched, while nodes are looked up in the present configuration. The
  ranking of the selectable nodes is a free choice, so both strategies and every load are covered.
* **`PairRuntime`.** A service is found by its key (root and redaction). A reload keeps the services whose key the
  new pipeline still wants; the rest go to the drain of the old generation, which closes them when its
  requests are through, or when its time is up.
* **`ConfigApply`.** `Save` is the rename, `Commit` the assignment after the await; between them the file is
  ahead. Calls and their undoing may each fail. The order of pairs in the file is any order.
* **`TaskLog`.** Time is left out: which of several matching tasks is nearest and whether one is in the
  window is a free choice. A brief remembers the record it was made of.
* **`ResponseRelay`.** A body is a sequence of symbols, an event a line of as many as its size; chunks
  cut it anywhere. The reference definitions of the properties look at where events lie, never at chunks.

## 3. Runs

One run per question. All pass; none expects a violation.

| Run | Shows | Instance |
| --- | --- | --- |
| `store` | Records and receipts let go of an instruction together, a live intent's answer is held, and the store keeps the abstract promise | 3 keys (symmetric) and none, capacity 2, four openings, retention 1 in a clock of 2 |
| `affinity` | Index sound; a repeated request comes back to its binding; a route changes only when it must; a task that named a response is not moved | 3 identities: a chained `responses` turn with a session key, a keyless continuation of it, a chat task with the same session key; 2 nodes, one of which may leave; 3 incarnations, caps 2, scan 1, TTL 0 in a clock of 1 |
| `balancer` | Counts, boundaries, landings, failover before moves | 2 requests (symmetric), 1 task, 2 nodes of which one may sleep, 1 binding, 2 moves |
| `balancer_saved` | Waiting moves bear the revision in force; moves and ledgers end | both nodes, one left, group gone; one save, one move; no symmetry; `LiveSpec` |
| `config_apply` | File, memory and listeners agree through every failure and crash; queued writes compose; every apply ends | 2 pairs that may want each other's port, 2 contents, 2 summary models, one write waiting; `FairSpec` |
| `pair_runtime` | Services are closed by their last owner after the writes they accepted; a save takes no log away; drains and stops end | 2 requests, 3 keys on 2 roots, offers `{plain}` and `{redacted, apart}`, 2 generations, 4 services; `FairSpec` |
| `task_log` | Counts, one task per conversation for good, briefs never go back | 3 requests: two with a key, logged before their body, one that continues by text and names an answer; 3 tasks, 2 briefs at a time |
| `load_monitor` | Advice rests on different reads, is current after its tick, and does not promise room twice | 2 engines, 2 targets, 2 bindings, clock 2, 2 reads per engine, 2 revisions, 2 stable reads |
| `move_console` | A decision writes once; a row tells the last decision | 1 binding that is decided about, 1 other, 2 nodes, 2 keys, 2 writes, 2 restarts or saves; pages of one row |
| `response_relay` | The log says what the stream said; the price is exact; exchanges end | answers of every protocol, chunks up to 3 symbols, limits 2, 5, 6 and 2 where the code has kilobytes; `FairSpec` |
| `history_page` | The list is of the search, without doubles, and catches up | 2 tasks, 4 records each at most, 2 changes, 2 acts of the user, pages of one |
| `pane_and_form` | The tree has the rows of its body; or: nothing typed, hand-written or switched is lost in a save | a body that grows, reorders and shrinks, and one that replaces null; 2 selections, 2 clicks, 1 lost answer. A form of 2 pairs, 3 targets, 1 group; 4 acts, 2 calls |

`pane_and_form` holds two parts that share no state: a behaviour is of the one or of the other
(`EitherInit`, `EitherNext`).

Several properties are conjunctions of facts that only together say what is wanted:
`MovesKeepTheirPremises` (a waiting move bears the revision in force, and a revision names one
configuration), `NothingWaitsForEver` (moves end, ledgers go), `OneTaskForGood` (requests of a key are in one
task, and stay in it), `ServicesLiveAsLongAsNeeded` (not closed under a write, and not left open),
`DecisionsWriteOnce` (one write per key, one instruction per key), `RowsTellTheLastDecision` (notices and
locks), `LogSaysWhatTheStreamSaid` (summary, usage and body), `ListAnswersTheSearch` (found, and once),
`RowsAreOfTheBody` (the rows, and their filling).

Deadlock checking is on for `ConfigApply`, where somebody can always save, crash or boot. It is off
elsewhere: clocks, ids, revisions and acts are bounded, so those models may stop at a bound, and a stopped pair or
an answered exchange really stops.

**Bounds, and why they are enough.** Each instance is the smallest in which the hazards it is for all happen, which
the mutants confirm. Both maps of the store are full at once with a live and a finished intent in
them. In the table three incarnations with caps of two overflow each cap, share keys, and reuse an evicted
slot; a scan of one makes "a bucket longer than one scan" happen with two bindings. Two requests are the
fewest that overlap, two moves the fewest that compete, two nodes the fewest to fail over between. In
`ConfigApply` a second write must wait for the first to be stale; a third adds nothing. In `PairRuntime` two
generations have one drain between them and two keys on one root share a queue. In `TaskLog` three
requests are two that tie and one that comes between. In `ResponseRelay` an event of two symbols can be cut
inside, at its end and after its blank line, and every limit is both met and exceeded. A page of one row makes
every list longer than a page. Anti-flap of the advisor needs three reads of each engine and is beyond the
bound. What larger instances could add is covered by the theorems of section 5 where there is one.

Every property has a *mutant* in the module it is about: a definition the code is translated to, changed the way a
plausible bug would change it. TLC finds the property violated under it. Mutants are marked `Mutant:` and used by
nothing else.

## 4. Fairness

Safety properties assume none.

* `LiveSpec` (`LoadBalancer`): the monitor's sweep keeps firing (`load-monitor.ts` 160–169) and looks every intent
  over; time passes; a handler with its outcome reaches its `finally`; and, only for the ledgers, the
  upstream answers, fails, or its client leaves. The last is about the environment: the proxy has no
  time-out of its own on an upstream that took the connection.
* `FairSpec` (`ConfigApply`): every awaited call of the registry and the file system ends.
* `FairSpec` (`PairRuntime`): queues are worked off, closing ends, timers fire. Nothing about clients,
  engines or handlers: the time-outs make that unnecessary.
* `FairSpec` (`ResponseRelay`): the node sends on or stops, a client that stays reads on, a codec with bytes says
  something about them, the process takes its own steps. `ExchangesEnd` excepts a client that leaves
  while the relay waits for the socket (section 7).
* `HistorySpec` (`HistoryPage`): what is asked is answered, answers arrive, timers fire. Nobody has to click and
  no request has to begin or end.

No fairness is assumed of new requests, operators, users, saves or stops.

## 5. Proofs

The theorems hold for every value of the constants within the named assumptions, which say what kind of
thing each constant is (of an answer: that its events are finitely many, each of one symbol or more, and that a
usage report's fields are counts or no counts), that sets of requests, targets, bindings and offers are finite and, for the affinity table, that an identity names
a response by its first key only. Each module has one or two inductive invariants; the property
alone is never inductive.

| Module | Theorems | Inductive invariant, and why it is needed |
| --- | --- | --- |
| `Commitments_proofs`, of `MigrationStore` | `StoreTypeCorrect`, `StoreStaysBounded`, `LiveIntentsKeepTheirAnswer`, `ReceiptsFollowRecords`, `OpenedMovesAreRemembered`, `StoreKeepsItsPromise` | `StoreInv`: an opened move is remembered although `recordAnswer()` never asks for room. After `open()` the new record has no receipt and every receipt of a live intent belongs to another live record, so if the receipts are full one of them may go: the comment of `load-migration.ts` 565–568 as a counting argument. The refinement is one step lemma per action over it. |
| `AffinityTable_proofs` | `IndexStaysSound`, `TableStaysBounded`, `RoutesOnlyChangeWhenForced`, `RepeatsFindTheirBinding`, `NamedResponsesStayPut` | `IndexInv` adds that incarnations in use lie below the next one; `RouteInv` adds what the last plan of each request left in the table. Each table operation preserves them by a lemma of its own, `plan` is their composition. |
| `LoadBalancer_proofs` | `LedgerAlwaysCounts`, `BalancerTypeCorrect`, `MovesAreWrittenAtRest`, `LandingsAreProven`, `FailoversOutrankMoves`, `MovesNeverOutliveTheirPremises` | `LedgerInv`: the counts with the shapes of reservations, and that a handler without one will not release. Two lemmas carry it, `ReserveLedger` and `GiveBackLedger`. `MovesInv` adds to `LedgerInv` which moves are waiting, applied and landed on which binding: a boundary has no holders because the count is zero, so the ledger is what makes moves safe. `RevisionInv` adds which configurations each revision has stood for, also of groups that were removed. |
| `LoadMonitor_proofs` | `PromisesStayApart`, `AdviceAlwaysRestsOnReads`, `AdviceIsCurrentWhenGiven` | `MonitorInv`: an imbalance's count is backed by as many different reads, because each counted read has a higher number than the last one counted and lower ones are all the earlier ones can be; live suggestions are of different bindings and within the cap. Pruning, the look at each premise and making room only take live suggestions away, and a candidate becomes one only where its episode is free and its target has room. A tick is a recursive function over the ranked candidates: its value at each of them is shown to exist and to keep all that by induction over positions, and ranks are shown to be a permutation, so every position names a candidate. |
| `PairRuntime_proofs` | `ServicesAreKeptAndClosed`, `ReloadsKeepLogs` | `RuntimeInv`: a service that is closing counts its last accepted write's place in the queue of its root; drains own disjoint services, and none of the entry's; the logs of the previous generation are with the entry or with the drain between. Without the last two a second reload could close what the first still needs. |
| `Log_proofs`, of `TaskLog` | `TasksAlwaysCount`, `ConversationsStayTogether`, `BriefsOnlyGoForward` | `LogInv`: a task whose body is on its way has one record and no links; every key that ties requests leads to the task of each of them; a finished record's request gets no more events; a running brief is of the latest finished request there was, and there is one per task. A write is proved in two halves, what it adds and what the removal of a superseded task takes away. |
| `Log_proofs`, of `ResponseRelay` | `TheLogSaysWhatTheStreamSaid`, `PricesAreExact` | `RelayInv`: the capture holds the first `decoded` symbols up to its limit, and each reader of a stream, unless it is cut short, stands where a reader of just these symbols stands: so many events read, so much of a line in its buffer (`Cursor`). A chunk moves both readers symbol by symbol, and `SummaryMoves` and `UsageMoves` say what one symbol does inside a line, at its end and on the blank line after it. The body of an unknown encoding ends no line, so its reader stays mute. At the end of the relay the decoder has said all or gave up. The price follows from the report alone: the buckets are disjoint and add up to the tokens reported (`NormalIs`), and the quotient is the nearest (`RoundingIs`). |
| `MoveConsole_proofs` | `DecisionsAreWrittenOnce`, `RowsKeepToTheLastDecision` | `ConsoleInv`: an instruction that wrote names a version that is over and will not be in force again, because a route's revision only grows within a runtime and runtimes only follow one another; so however often an instruction is sent, it writes once. Keys are given out in turn and stand for one instruction. Of each row, what it keeps to send again, what it waits for and what it was told are of the newest key of its binding; a row that waits does so under the list on screen. |
| `Commitments_proofs`, of `ConfigApply` | `FileStaysCommitted`, `SectionsStayComposed`, `ListenersServeTheCommitted` | `CommitInv`: the running operation was composed from what is committed now and differs in its section only. `ServeInv` follows an apply both ways: what is done and what is to do account for every pair that differs. |
| `Page_proofs`, of `ConfigEditor` | `TypedFieldsAreKept`, `KeysAreKept`, `SentPairsAreWellFormed`, `OnlyItsSwitchTurnsAPair` | `FormInv`, of three parts. `PageInv`: the objects are a sound configuration, the controls have its shape, and each field shows what was last typed into it; a drag under way orders the targets of its pair. `CallsInv`: the body of every save is sound and well formed, its signature shows the fields of the body, and its answer is what the server stores of it; an import that is not stray still has its pair. `ServerInv`: each waiting write is sound and of one queued call. An adopted answer keeps what was typed since, because a form that shows the signature with the same targets in its places shows the values that were sent. Ids that were ever in use are never drawn again, so a new target finds no history at its place. `SwitchInv` on top: a switch of an undoubted pair is the only save or switch under way, and a pair that is neither doubted nor being switched stands the same way in the objects, the configuration and every list in flight; so no list can carry an old state of a switch. |
| `Page_proofs`, of `RecordPane` | `PaneFollowsTheSelection` | `PaneInv` adds that calls, the cache and what was read ahead are of records, so an answer that finds its record selected puts that record on the pane, and one that does not leaves the pane alone; the only way to stop loading without either is a failure, which is seen as long as the record stays selected. |
| `Page_proofs`, of `HistoryPage` | `ListIsOfTheSearch` | `SearchInv`: an answer under way is of the words of its own question, not of those that are typed; a read that still finds its group (`kept`) was asked with the words of now, because new words replace every group; the log's order has no task twice, so neither has a page, and what a page is merged with or appended to loses what the page has. A task leaves the search only by being cleaned up, since records are never taken out of one. |

`LogInv`, `RuntimeInv`, `MovesInv`, `RevisionInv`, `RouteInv`, `ConsoleInv`, `MonitorInv`, `FormInv`, `SwitchInv`, `PaneInv`, `SearchInv` and `RelayInv` were checked by TLC as invariants on the runs' instances
(and larger ones) before they were proved. Proving changed the models where they could not be
reasoned about or said too little: `KeyKeepsOneTask` now also speaks of requests with several keys, which
made it plain that the key has to be the one looked for first (section 7); and `NothingTypedIsLost` was false of a
form that shows the same values with other targets in its places, which the runs are too small to reach.

Only model-checked: every liveness property (`NothingWaitsForEver`, `ApplyEnds`, `DrainsAndStopsEnd`, `ExchangesEnd`,
`ListCatchesUp`, `RowsSettle`), because fairness and ENABLED are outside the prover;
and `RowsAreOfTheBody`, which has no theorem yet.

`Page_proofs` speaks of three modules that share no state, `Commitments_proofs` and `Log_proofs` of two; each part has its own
specification and its own lemmas, and only the lemmas about sequences (`KeepingIs`, `SequenceOf`, `MappedSeq`)
and about the least of some numbers (`LeastNatural`) are used by more than one.

## 6. Not modelled

The ranking of nodes by load and cache use, usage figures, several groups of one pair at once (they share
nodes, cooldowns and reservations only); header and body transformations; the parsing of metrics; the content of a
summary and its prompt; schema migrations, column codecs and full text search; exports and usage
reports; routing without a group and HTTP schemas; painting, scrolling and measuring. Hashes are taken not to collide.
The components of PROJECT.json give the reason for each part.

## 7. Seen while modelling

Where the code does something a reader of its text may not expect. No run claims these as defects; the models
contain the behaviour, or leave it out as said.

*Balancing.* A task known by one key alone loses its node when another task takes the key
(`load-affinity.ts` 464; `docs/design/accepted/load-balancing.md` 372 accepts it). A `responses` task that names a
conversation only in a later turn can still be moved (`load-balancer.ts` 1322 against 1108). A learned
response id goes to the binding of the first plan, which a concurrent failover may have pointed elsewhere
(`proxy-request-pipeline.ts` 528 against `load-balancer.ts` 1101). A connection failure counts twice
when the failover finds no node (372, 567 against `load-balancer.ts` 1381). A retry plans with the group object
matched before a save (576; ADR-011 accepts it). A sample is stored over a node that moved to another engine
meanwhile (`load-monitor.ts` 400 against `load-balancer.ts` 66): the one listed hazard without a property.
`#recordRejection` drops the oldest finished suggestion before it looks whether it has to.

*Runtime and configuration.* When A is reloaded to A' and that to B, the drain of A' may close a service
a request of A still writes to (`proxy-runtime-registry.ts` 360; `README.en.md` 135): `ReloadKeepsLogs` speaks of the
generation before the current one only. A client that leaves while the relay waits for "drain" leaves the
exchange unsettled and its record pending (`proxy-request-pipeline.ts` 1076; ADR-005 52). Enabling a pair
sends the list read before the queue (`proxy-manager.ts` 163 against 143). A pair whose enabling failed to save
keeps listening (270 against ADR-004 67). Overlapping patterns `a` and `*b*` count as
overlapping and `*a*b*`, `*b*a*` as disjoint (`config-schema.ts` 471); pairs that are no objects are dropped before fields are
kept by position.

*Log.* A request with several context keys joins the task of the first key that hits and takes the links of its
later keys along, so requests tied by a later key only may be split: `TiesByKey` asks for the key to come first. A
late answer under another boundary takes a key's link. The brief of a request that finishes later is not marked
stale (`summary-generation-service.ts` 371). A stream that breaks inside a line has no summary at all (ADR-005); a
summary skips a chunk that is too large and reads smaller ones after it (ADR-003). A brief read before
its POST ended can replace the new brief on the page by nothing.

*Page.* A task that is off the page is called deleted in the cost panel (`history.js` 395–405); an expanded task stays
"loading" when a merge exchanges its object during a load; the detail cache keeps a record that is still
pending; a late refresh can take the pane back to an older body; a selection that failed leaves the panes of
the record before; a refresh that keeps what is missing keeps deleted tasks; cleaning up tasks of one
request deletes one that got its second between scan and delete. Rows of a closed lazy node stay
old when it is reopened (`test-node/ui/admin-ui-json-pane-refresh.test.ts` 19–21). A save pressed while a
switch is on its way turns it off again; a failed switch leaves the box ticked; two overlapping switches
revert one another; a price import keeps the position it started from across its await
(`proxy-config.js` 913–964); an answer is adopted by a form that shows what was sent with other
targets in its places, and what was done to it since is lost (`proxy-config.js` 509, 779); a model list fetched for one dialog is shown in another. In the statistics, answers of
the options and errors are not guarded by the request id.

## 8. Plan

1. A theorem about the tree of a body (`RowsAreOfTheBody`).
2. `Statistics`: usage reports over stored rows and their page; `load-balancer-admin.ts` with the associations between
   bindings and the log.
3. `StreamAccumulator`: the content of a summary.
