------------------------------ MODULE TaskLog ------------------------------
(***************************************************************************)
(* The traffic log of one root: how the events of the requests become      *)
(* records grouped into tasks (src/src/logging/task-matcher.ts, the stores *)
(* of src/src/persistence), what the cleanups take away                    *)
(* (src/src/maintenance/log-cleanup.ts) and the briefs and summaries a     *)
(* model writes about it (summary-generation-service.ts).                  *)
(*                                                                         *)
(* Every write of the queue is one transaction: a function from database   *)
(* to database.  What a request carries is fixed by Shape; of the clock    *)
(* the model keeps nothing, so which of several matching tasks is nearest  *)
(* in time, and whether one is within the window, is chosen freely.        *)
(***************************************************************************)
EXTENDS Maps, Integers, Sequences, FiniteSets, SequencesExt, FiniteSetsExt

CONSTANTS
  Requests,
  Early,       \* those of pairs with one target: logged before their body is read
  Shape,       \* request -> what its body says, see ShapeOf
  NoName,      \* it names no previous response, or its answer has no id
  MaxTasks,    \* bound: tasks created
  MaxJobs      \* bound: briefs being made at a time

ModelTaskKinds == {"responses", "chat", "completions"}
TextKinds == {"responses", "chat"}

\* user stands for the fingerprint of the first user message, users for the
\* messages, content for the input/messages fingerprint.
ShapeOf == [kind : ModelTaskKinds \cup {"models"}, boundary : STRING, user : STRING,
            users : Seq(STRING), content : STRING, keys : Seq(STRING),
            names : {NoName} \cup STRING, answers : {NoName} \cup STRING]

ASSUME ShapeAssumption ==
  /\ IsFiniteSet(Requests)
  /\ Shape \in [Requests -> ShapeOf]

VARIABLES
  db,        \* the database: see Empty
  nextTask,  \* ids handed out
  phase,     \* last event the log got of a request, or "left"
  jobs       \* briefs being made: [task, source, done]; done: it had finished

vars == <<db, nextTask, phase, jobs>>

NoTask == 0

Empty == [tasks |-> EmptyMap, records |-> EmptyMap,      \* tables tasks, records
          responses |-> EmptyMap, contexts |-> EmptyMap,  \* response and context links
          briefs |-> EmptyMap]

Init ==
  /\ db = Empty /\ nextTask = 1
  /\ phase = [r \in Requests |-> "new"] /\ jobs = {}

RecordsOf(d, t) == {r \in DOMAIN d.records : d.records[r].task = t}

\* A row and everything that references it (ON DELETE CASCADE).
RemoveTasks(d, T) ==
  LET without(f) == Without(f, {x \in DOMAIN f : f[x] \in T})
      gone == {r \in DOMAIN d.records : d.records[r].task \in T}
  IN [tasks |-> Without(d.tasks, T), records |-> Without(d.records, gone),
      responses |-> without(d.responses), contexts |-> without(d.contexts),
      briefs |-> Without(d.briefs, T)]

-----------------------------------------------------------------------------
\* TaskMatcher: which task a request continues

TaskOf(d, r) == IF r \in DOMAIN d.records THEN d.records[r].task ELSE NoTask
IsPending(d, t) == t # NoTask /\ d.tasks[t].pending

BoundariesMatch(task, s) == task.kind = s.kind /\ task.boundary = s.boundary

\* The task a link names, if it has the request's boundaries.
Linked(d, links, x, s) ==
  IF x \in DOMAIN links /\ BoundariesMatch(d.tasks[links[x]], s) THEN links[x] ELSE NoTask

TaskForPreviousResponse(d, s) ==
  IF s.kind = "responses" THEN Linked(d, d.responses, s.names, s) ELSE NoTask

\* The first of its context keys whose task matches.
TaskForContextKeys(d, s) ==
  LET hits == {i \in DOMAIN s.keys : Linked(d, d.contexts, s.keys[i], s) # NoTask}
  IN IF hits = {} THEN NoTask ELSE d.contexts[s.keys[Min(hits)]]

UserMessagesMatch(task, s) == task.users # <<>> /\ IsPrefix(task.users, s.users)

ContinuationEvidence(task, s) ==
  Len(s.users) > Len(task.users) \/ task.content # s.content

HeuristicTasks(d, s) ==
  {t \in DOMAIN d.tasks :
     /\ ~d.tasks[t].pending
     /\ BoundariesMatch(d.tasks[t], s) /\ d.tasks[t].user = s.user
     /\ s.kind \in TextKinds =>
          UserMessagesMatch(d.tasks[t], s) /\ ContinuationEvidence(d.tasks[t], s)}

\* Every answer #continuationTask may give, for every age of the tasks.
Continuations(d, s) ==
  IF TaskForPreviousResponse(d, s) # NoTask THEN {TaskForPreviousResponse(d, s)}
  ELSE IF TaskForContextKeys(d, s) # NoTask THEN {TaskForContextKeys(d, s)}
  ELSE {NoTask} \cup (IF s.kind \in ModelTaskKinds THEN HeuristicTasks(d, s) ELSE {})

\* Mutant: the match is tried again at every event.
MatchesAnew(d, r) ==
  IF Continuations(d, Shape[r]) = {NoTask} /\ TaskOf(d, r) # NoTask THEN {TaskOf(d, r)}
  ELSE Continuations(d, Shape[r])

\* Asked only for a request the log does not have in a task of its own yet.
Matches(d, r) ==
  IF TaskOf(d, r) = NoTask \/ IsPending(d, TaskOf(d, r)) THEN Continuations(d, Shape[r])
  ELSE {TaskOf(d, r)}

\* Its pending task goes when it turns out to continue another.
Superseded(d, r, match) ==
  IF IsPending(d, TaskOf(d, r)) /\ match # NoTask THEN {TaskOf(d, r)} ELSE {}

SequenceFor(d, r, t) ==
  IF TaskOf(d, r) = t THEN d.records[r].sequence
  ELSE 1 + Max({0} \cup {d.records[q].sequence : q \in RecordsOf(d, t)})

\* Mutant: every event of a request counts.
CountEveryEvent(d, r, t) == Cardinality(RecordsOf(d, t)) + 1

RequestCount(d, r, t) ==
  Cardinality(RecordsOf(d, t)) + IF TaskOf(d, r) = t THEN 0 ELSE 1

\* The keys a record is linked by, once its body is known, and before.
ContextKeys(r) == Range(Shape[r].keys)

KeysBeforeBody(r) == {}

-----------------------------------------------------------------------------
\* TrafficLogService.#save: one transaction per event

Fresh(row) == nextTask + (IF row = nextTask THEN 1 ELSE 0)

\* A priced record keeps its price from a later event that has none.
Price(d, r, pricing) ==
  IF r \in DOMAIN d.records /\ d.records[r].pricing = "priced" THEN "priced" ELSE pricing

\* Task, record, links, then what was superseded.
WriteTraffic(d, r, t, row, event, pricing, ids, keys, superseded) ==
  LET linked(links, S) == [x \in DOMAIN links \cup S |-> IF x \in S THEN t ELSE links[x]]
  IN RemoveTasks([d EXCEPT
       !.tasks = Put(@, t, row),
       !.records = Put(@, r, [task |-> t, sequence |-> SequenceFor(d, r, t),
                              event |-> event, pricing |-> Price(d, r, pricing)]),
       !.responses = linked(@, ids), !.contexts = linked(@, keys)], superseded)

\* A request whose body is still on its way: a task of its own.
SavePending(r) ==
  \E t \in IF IsPending(db, TaskOf(db, r)) THEN {TaskOf(db, r)} ELSE {nextTask} :
    /\ t <= MaxTasks
    /\ db' = WriteTraffic(db, r, t,
               [pending |-> TRUE, kind |-> Shape[r].kind, boundary |-> "", user |-> "",
                users |-> <<>>, content |-> "", count |-> 1],
               "request_received", "unpriced", {}, KeysBeforeBody(r), {})
    /\ nextTask' = Fresh(t)

\* A request with its body: its row replaces what the task said before.
Save(r, event, pricing, ids) ==
  \E match \in Matches(db, r) :
    LET own == TaskOf(db, r)
        t == IF match # NoTask THEN match ELSE IF own # NoTask THEN own ELSE nextTask
        s == Shape[r]
    IN /\ t <= MaxTasks
       /\ db' = WriteTraffic(db, r, t,
                  [pending |-> FALSE, kind |-> s.kind, boundary |-> s.boundary,
                   user |-> s.user, users |-> s.users, content |-> s.content,
                   count |-> RequestCount(db, r, t)],
                  event, pricing, ids, ContextKeys(r), Superseded(db, r, match))
       /\ nextTask' = Fresh(t)

-----------------------------------------------------------------------------
(* The events of a request, in its order.  A pair with one target logs a   *)
(* request before its body; with several targets the target, and so the    *)
(* log, is known only afterwards.                                          *)

ReceivedBeforeBody(r) ==
  /\ r \in Early /\ phase[r] = "new"
  /\ SavePending(r)
  /\ phase' = [phase EXCEPT ![r] = "receiving"] /\ UNCHANGED jobs

Received(r) ==
  /\ r \notin Early /\ phase[r] = "new"
  /\ Save(r, "request_received", "pending", {})
  /\ phase' = [phase EXCEPT ![r] = "received"] /\ UNCHANGED jobs

PendingResponse(r) ==
  /\ phase[r] \in {"receiving", "received"}
  /\ Save(r, "request_pending_response", "pending", {})
  /\ phase' = [phase EXCEPT ![r] = "waiting"] /\ UNCHANGED jobs

\* The answer, with the id a later request may name.
Answered(r) ==
  /\ phase[r] = "waiting"
  /\ Save(r, "request_finished", "priced", {Shape[r].answers} \ {NoName})
  /\ phase' = [phase EXCEPT ![r] = "answered"] /\ UNCHANGED jobs

\* No usable node: the proxy answers itself.
Refused(r) ==
  /\ phase[r] = IF r \in Early THEN "receiving" ELSE "new"
  /\ Save(r, "request_finished", "unpriced", {})
  /\ phase' = [phase EXCEPT ![r] = "refused"] /\ UNCHANGED jobs

\* Its further events go to another log, or nowhere: failover, a body that fails.
Leaves(r) ==
  /\ phase[r] \in {"receiving", "received", "waiting"}
  /\ phase' = [phase EXCEPT ![r] = "left"]
  /\ UNCHANGED <<db, nextTask, jobs>>

\* Another service opens the root: a reload, with requests in flight.
ServiceOpens ==
  /\ \E r \in DOMAIN db.records : db.records[r].pricing = "pending"
  /\ db' = [db EXCEPT !.records =
       [r \in DOMAIN @ |-> IF @[r].pricing = "pending" THEN [@[r] EXCEPT !.pricing = "unpriced"]
                           ELSE @[r]]]
  /\ UNCHANGED <<nextTask, phase, jobs>>

\* The process ends; the next one opens the root.
Restart ==
  /\ phase' = [r \in Requests |->
                 IF phase[r] \in {"receiving", "received", "waiting"} THEN "left" ELSE phase[r]]
  /\ phase' # phase \/ jobs # {}
  /\ jobs' = {}
  /\ db' = [db EXCEPT !.records =
       [r \in DOMAIN @ |-> IF @[r].pricing = "pending" THEN [@[r] EXCEPT !.pricing = "unpriced"]
                           ELSE @[r]]]
  /\ UNCHANGED nextTask

\* Selected tasks, tasks older than a date, all but the latest: any set of them.
Cleanup(T) ==
  /\ T # {}
  /\ db' = RemoveTasks(db, T)
  /\ UNCHANGED <<nextTask, phase, jobs>>

-----------------------------------------------------------------------------
\* SummaryGenerationService: a brief is asked for, and the model answers later

\* latestFinishedId: the newest finished record, else the newest record.
LatestRecord(d, t) ==
  LET finished == {r \in RecordsOf(d, t) : d.records[r].event = "request_finished"}
  IN CHOOSE r \in IF finished # {} THEN finished ELSE RecordsOf(d, t) :
       \A q \in IF finished # {} THEN finished ELSE RecordsOf(d, t) :
         d.records[q].sequence <= d.records[r].sequence

\* Mutant: a second request starts a second job.
MayGenerateAgain(t) == t \in DOMAIN db.tasks

\* One job per task: a second request is refused.
MayGenerate(t) == t \in DOMAIN db.tasks /\ \A j \in jobs : j.task # t

GenerateBrief(t) ==
  /\ MayGenerate(t) /\ Cardinality(jobs) < MaxJobs
  /\ LET source == LatestRecord(db, t)
     IN jobs' = jobs \cup {[task |-> t, source |-> source,
                                done |-> db.records[source].event = "request_finished"]}
  /\ UNCHANGED <<db, nextTask, phase>>

\* The answer is stored if its task is still there.
StoreBrief(j) ==
  /\ jobs' = jobs \ {j}
  /\ db' = IF j.task \in DOMAIN db.tasks
           THEN [db EXCEPT !.briefs = Put(@, j.task, [source |-> j.source, done |-> j.done])]
           ELSE db
  /\ UNCHANGED <<nextTask, phase>>

\* The model refused, timed out or answered badly.
BriefFails(j) ==
  /\ jobs' = jobs \ {j}
  /\ UNCHANGED <<db, nextTask, phase>>

Next ==
  \/ \E r \in Requests : \/ ReceivedBeforeBody(r) \/ Received(r) \/ PendingResponse(r)
                         \/ Answered(r) \/ Refused(r) \/ Leaves(r)
  \/ ServiceOpens \/ Restart
  \/ \E T \in SUBSET DOMAIN db.tasks : Cleanup(T)
  \/ \E t \in DOMAIN db.tasks : GenerateBrief(t)
  \/ \E j \in jobs : StoreBrief(j) \/ BriefFails(j)

Spec == Init /\ [][Next]_vars

-----------------------------------------------------------------------------
\* Properties

(* What the console lists as the requests of a task is what the task has:  *)
(* the count is kept on the task row by every event of every request       *)
(* (task-matcher.ts #updatedTask), across records that change tasks.       *)
CountsMatch ==
  \A t \in DOMAIN db.tasks : db.tasks[t].count = Cardinality(RecordsOf(db, t))

KeysOf(r) == Range(Shape[r].keys)

\* Requests of the key have the same boundaries, name no other task and look for it first.
TiesByKey(k) ==
  LET tied == {r \in Requests : k \in KeysOf(r)}
  IN \A r, q \in tied : /\ BoundariesMatch(Shape[r], Shape[q])
                        /\ Shape[r].names = NoName /\ Head(Shape[r].keys) = k

(* Requests of one conversation key are logged as one task, whichever of   *)
(* them arrives, answers or is cleaned away first (task-matcher.ts         *)
(* #taskForContextKeys, repository.ts writeTraffic).                       *)
KeyKeepsOneTask ==
  \A k \in UNION {KeysOf(r) : r \in Requests} : TiesByKey(k) =>
    \A r, q \in {x \in DOMAIN db.records : k \in KeysOf(x)} :
      ~IsPending(db, TaskOf(db, r)) /\ ~IsPending(db, TaskOf(db, q)) =>
        TaskOf(db, r) = TaskOf(db, q)

(* Once its body is known a request stays in its task: later events of it, *)
(* and of requests that match better, do not take it to another            *)
(* (task-matcher.ts assign).                                               *)
StaysInItsTask ==
  [][\A r \in DOMAIN db.records \cap DOMAIN db'.records :
       ~IsPending(db, TaskOf(db, r)) => TaskOf(db', r) = TaskOf(db, r)]_vars

(* Requests of one conversation come together once their bodies are known, *)
(* and stay together: in one task, and each in the task it is in           *)
(* (task-matcher.ts assign).                                               *)
OneTaskForGood == []KeyKeepsOneTask /\ StaysInItsTask

(* The brief of a finished request is never replaced by one of an older    *)
(* request of the task, however long each answer took                      *)
(* (summary-generation-service.ts generateTaskBrief).                      *)
BriefsNeverGoBack ==
  [][\A t \in DOMAIN db.briefs \cap DOMAIN db'.briefs :
       db.briefs[t].done =>
         db.records[db'.briefs[t].source].sequence >= db.records[db.briefs[t].source].sequence]_vars

=============================================================================
