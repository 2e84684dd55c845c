---------------------------- MODULE HistoryPage ----------------------------
(***************************************************************************)
(* The request history of the administration page                          *)
(* (src/src/admin/static/modules/history.js), and the pages of tasks and   *)
(* records it reads (maintenance/log-query-service.ts over the task,       *)
(* record and search stores).                                              *)
(*                                                                         *)
(* The log goes on while the page reads it: requests begin and end, their  *)
(* task moves to the top, tasks are cleaned up.  Every answer is made when *)
(* the server gets to it and reaches the page later.                       *)
(*                                                                         *)
(* What a row shows is its status, what a task shows is how many of its    *)
(* records there are and how many are still pending.  The refresh of the   *)
(* selected record only makes a load last longer.  Nothing is painted.     *)
(***************************************************************************)
EXTENDS Page, Sequences, FiniteSets, SequencesExt

CONSTANTS
  Tasks,
  Hits,         \* records the words of a search are found in
  Starts,       \* logs the page may find: [order, log]
  MaxRecords,   \* records of one task at most
  MaxChanges,   \* requests that begin or end while the page is open
  PageSize,     \* state.logLimit
  PageMax,      \* LOG_GROUP_PAGE_MAX_LIMIT
  RowPage, MorePage, PreviewRows,  \* records that one read of a task returns at most
  Batch,        \* PENDING_REFRESH_BATCH
  MaxTries      \* what the user does, and answers the network loses

Statuses == {"pending", "finished"}

ASSUME HistoryAssumption ==
  /\ {MaxRecords, MaxChanges, MaxTries} \subseteq Nat
  /\ {PageSize, PageMax, RowPage, MorePage, PreviewRows, Batch} \subseteq Nat \ {0}
  /\ Hits \subseteq Tasks \X (1 .. MaxRecords)
  /\ \A s \in Starts : /\ s.order \in Seq(Tasks) /\ IsInjective(s.order)
                       /\ s.log \in [Tasks -> Seq(Statuses)]

VARIABLES
  order,     \* tasks in the log, the latest activity first
  log,       \* task -> what became of its records, in their sequence
  gone,      \* tasks that were cleaned up
  list,      \* state.logGroups
  offset, more,      \* state.logOffset, state.logsHasMore
  query, lastQuery,  \* state.logQuery, state.lastLogQuery
  expanded,  \* state.collapsedGroups, which holds the expanded ones
  cursor,    \* state.pendingSweepCursor
  load,      \* the load of the list that runs
  queued,    \* state.logsQueued
  auto, timer,       \* the refresh box, and whether its timer runs
  reads,     \* task -> the read of its records that is on the way
  clean,     \* a cleanup on its way
  changes, tries      \* spent

logged == <<order, log, gone>>
listed == <<list, offset, more>>
historyVars == <<logged, listed, query, lastQuery, expanded, cursor, load, queued, auto, timer,
                 reads, clean, changes, tries>>

Everything == ""
Words == "words"
-----------------------------------------------------------------------------
\* The log, and the pages the server reads from it

Pending(t) == Cardinality({i \in DOMAIN log[t] : log[t][i] = "pending"})
Found(q, r) == q = Everything \/ r \in Hits

\* repositoryPage
Page(s, limit, from) ==
  LET items == SubSeq(s, from + 1, Low(from + limit, Len(s)))
  IN [items |-> items, next |-> from + Len(items), more |-> from + Len(items) < Len(s)]

\* listSummariesForTask, previews: the matching records of a task, newest first.
RecordsOf(q, t) ==
  LET all == [i \in DOMAIN log[t] |-> [id |-> <<t, i>>, status |-> log[t][i]]]
  IN  Keeping(Reverse(all), {r \in ToSet(all) : Found(q, r.id)})

\* listSummaries with taskIdFilter: the tasks that hold a matching record.
TasksFor(q) ==
  Keeping(order, {t \in Tasks : \E i \in DOMAIN log[t] : Found(q, <<t, i>>)})

\* taskGroupSummary, and groupsWithPreviews: a search shows the first matching records.
Group(q, t) ==
  LET first == Page(RecordsOf(q, t), PreviewRows, 0)
      summary == [count |-> Len(log[t]), pending |-> Pending(t)]
  IN IF q = Everything
     THEN [id |-> t, summary |-> summary, loaded |-> FALSE, rows |-> <<>>, more |-> FALSE,
           next |-> 0, query |-> Everything]
     ELSE [id |-> t, summary |-> summary, loaded |-> TRUE, rows |-> first.items,
           more |-> first.more, next |-> first.next, query |-> q]

\* listGroups
GroupPage(q, limit, from) ==
  LET page == Page(TasksFor(q), limit, from)
  IN [page EXCEPT !.items = [i \in DOMAIN @ |-> Group(q, @[i])]]

ToTop(t) == <<t>> \o Keeping(order, Tasks \ {t})

browser == <<listed, query, lastQuery, expanded, cursor, load, queued, auto, timer, reads>>

Tries == tries < MaxTries /\ tries' = tries + 1

\* A request begins: with a new task, or in one that nobody cleaned up.
RequestBegins(t) ==
  /\ t \notin gone /\ Len(log[t]) < MaxRecords
  /\ changes < MaxChanges /\ changes' = changes + 1
  /\ log' = [log EXCEPT ![t] = Append(@, "pending")]
  /\ order' = ToTop(t)
  /\ UNCHANGED <<gone, browser, clean, tries>>

RequestEnds(t) ==
  /\ changes < MaxChanges /\ changes' = changes + 1
  /\ \E i \in DOMAIN log[t] :
       /\ log[t][i] = "pending"
       /\ log' = [log EXCEPT ![t][i] = "finished"]
  /\ order' = ToTop(t)
  /\ UNCHANGED <<gone, browser, clean, tries>>

-----------------------------------------------------------------------------
\* The list, put together from pages

Ids(groups) == {groups[i].id : i \in DOMAIN groups}
Named(groups, t) == CHOOSE g \in ToSet(groups) : g.id = t

\* logGroupsSignature
SameGroups(a, b) ==
  /\ Len(a) = Len(b)
  /\ \A i \in DOMAIN a : a[i].id = b[i].id /\ a[i].summary = b[i].summary

\* mergeLogGroupSummaries: a task that did not change keeps the records it has.
Merged(current, new, keepMissing) ==
  LET same(g) == /\ g.id \in Ids(current)
                 /\ Named(current, g.id).summary = g.summary
                 /\ Named(current, g.id).query = query
  IN [i \in DOMAIN new |-> IF same(new[i]) THEN Named(current, new[i].id) ELSE new[i]]
       \o (IF keepMissing THEN Keeping(current, {g \in ToSet(current) : g.id \notin Ids(new)})
           ELSE <<>>)

\* appendLogGroups: a task that is met again keeps its records, whatever its summary says.
Appended(current, new) ==
  LET update(g) ==
        IF g.id \notin Ids(new) THEN g
        ELSE LET n == Named(new, g.id)
             IN IF n.loaded THEN [n EXCEPT !.rows = g.rows, !.loaded = g.loaded]
                ELSE [g EXCEPT !.summary = n.summary]
  IN [i \in DOMAIN current |-> update(current[i])]
       \o Keeping(new, {g \in ToSet(new) : g.id \notin Ids(current)})


-----------------------------------------------------------------------------
\* Reads of one task's records

NoRead == [q |-> None, from |-> 0, limit |-> 0, answer |-> None, kept |-> FALSE]
\* The group objects of these tasks were replaced: reads on the way hold the old ones.
Detached(tasks) == [r \in DOMAIN reads |-> [reads[r] EXCEPT !.kept = @ /\ r[1] \notin tasks]]

\* loadLogGroup of several tasks at once, those that are listed without their records.
Asked(groups, tasks, rs) ==
  LET wanted == {t \in tasks \cap Ids(groups) :
                   /\ rs[<<t, "first">>] = NoRead
                   /\ ~Named(groups, t).loaded \/ Named(groups, t).query # query}
  IN [r \in DOMAIN rs |->
       IF r[2] = "first" /\ r[1] \in wanted
       THEN [q |-> query, from |-> 0, limit |-> RowPage, answer |-> None, kept |-> TRUE]
       ELSE rs[r]]

\* getGroupLogs
ReadServed(r) ==
  /\ reads[r] # NoRead /\ reads[r].answer = None /\ r[1] \notin gone
  /\ LET read == reads[r]
     IN reads' = [reads EXCEPT ![r].answer =
                   Page(RecordsOf(read.q, r[1]), read.limit, read.from)]
  /\ UNCHANGED <<logged, listed, query, lastQuery, expanded, cursor, load, queued, auto, timer,
                 clean, tries, changes>>

\* The rows the page has of a task, after an answer to the read of its first records or
\* of more of them: a record the page has already is left out.
WithRows(g, kind, answer) ==
  LET have == {g.rows[i].id : i \in DOMAIN g.rows}
      new == Keeping(answer.items,
                     {r \in ToSet(answer.items) : kind = "first" \/ r.id \notin have})
  IN [g EXCEPT !.rows = (IF kind = "first" THEN <<>> ELSE @) \o new,
               !.loaded = TRUE, !.more = answer.more, !.next = answer.next,
               !.query = IF kind = "first" THEN query ELSE @]

\* The answer reaches the group object the read was made for, listed or not.
ReadArrives(r) ==
  LET read == reads[r]
  IN /\ read.answer # None
     /\ reads' = [reads EXCEPT ![r] = NoRead]
     /\ list' = IF ~read.kept THEN list
                ELSE [i \in DOMAIN list |->
                       IF list[i].id = r[1] THEN WithRows(list[i], r[2], read.answer)
                       ELSE list[i]]
     /\ load' = IF read.kept /\ r[2] = "first"
                THEN [load EXCEPT !.batch = {b \in @ : b[1] # r[1]}] ELSE load
     /\ UNCHANGED <<logged, offset, more, query, lastQuery, expanded, cursor, queued, auto,
                    timer, clean, tries, changes>>

\* The answer is lost, or the server does not know the task any more.
ReadFails(r) ==
  /\ reads[r] # NoRead /\ reads[r].answer = None
  /\ \/ r[1] \in gone /\ UNCHANGED tries
     \/ r[1] \notin gone /\ Tries
  /\ reads' = [reads EXCEPT ![r] = NoRead]
  /\ UNCHANGED <<logged, listed, query, lastQuery, expanded, cursor, load, queued, auto, timer,
                 clean, changes>>

-----------------------------------------------------------------------------
\* loadLogs

Idle == [phase |-> "idle", how |-> None, q |-> None, from |-> 0, limit |-> 0, answer |-> None,
         batch |-> {}]

\* An automatic refresh reads again what is on the screen, up to the largest page.
Begun(how, q, groups, from) ==
  LET screen == IF from # 0 THEN from ELSE Len(groups)
  IN [Idle EXCEPT !.phase = "asked", !.how = how, !.q = q,
        !.from = IF how = "append" THEN from ELSE 0,
        !.limit = IF how = "quiet"
                  THEN Low(PageMax, IF screen > PageSize THEN screen ELSE PageSize)
                  ELSE PageSize]

\* While a load runs, one wish is kept; an automatic one does not replace another.
AskedToLoad(how, q, ld, groups, from) ==
  \/ /\ ld.phase = "idle" /\ load' = Begun(how, q, groups, from) /\ UNCHANGED queued
  \/ /\ ld.phase # "idle" /\ load' = ld
     /\ queued' = IF queued = None \/ how \in {"append", "search"} THEN how ELSE queued

\* Mutant: a load for other words than those that are searched for now just ends.
LoadSettlesAlone(groups, from) ==
  /\ load' = Idle /\ timer' = (auto /\ load.q = query)
  /\ UNCHANGED queued

\* The end of a load: another one when the words changed or when one is wished for,
\* else the timer of the next refresh.
LoadSettles(groups, from) ==
  \/ /\ load.q # query
     /\ load' = Begun(IF load.how = "quiet" THEN "plain" ELSE "search", query, groups, from)
     /\ UNCHANGED <<queued, timer>>
  \/ /\ load.q = query /\ queued # None
     /\ load' = Begun(queued, query, groups, from) /\ queued' = None /\ UNCHANGED timer
  \/ /\ load.q = query /\ queued = None
     /\ load' = Idle /\ timer' = auto /\ UNCHANGED queued

ListServed ==
  /\ load.phase = "asked"
  /\ load' = [load EXCEPT !.phase = "answered", !.answer = GroupPage(load.q, load.limit, load.from)]
  /\ UNCHANGED <<logged, listed, query, lastQuery, expanded, cursor, queued, auto, timer, reads,
                 clean, tries, changes>>

\* The records on the screen that had no answer yet.
PendingRows(groups) ==
  FlattenSeq([i \in DOMAIN groups |->
    IF groups[i].loaded /\ groups[i].id \in expanded
    THEN SelectSeq(groups[i].rows, LAMBDA r : r.status = "pending") ELSE <<>>])

\* Mutant: the sweep starts from the same row every time.
SweptAgain(cur, size, n) == cur

Swept(cur, size, n) == IF n = 0 THEN 0 ELSE (cur + size) % n

\* nextPendingRefreshBatch: a slice of the pending rows, and on from there the next time.
SweepOf(groups) ==
  LET rows == PendingRows(groups)
      n == Len(rows)
      size == Low(Batch, n)
      start == IF n = 0 THEN 0 ELSE cursor % n
      batch == {rows[((start + k) % n) + 1].id : k \in 0 .. size - 1}
  IN /\ cursor' = Swept(start, size, n)
     /\ load' = [load EXCEPT !.answer = None, !.batch = batch,
                             !.phase = IF batch = {} THEN "closing" ELSE "sweeping"]

\* An answer to other words than those that are searched for is thrown away.
LateListArrives ==
  /\ load.phase = "answered" /\ load.q # query
  /\ LoadSettles(list, offset)
  /\ UNCHANGED <<logged, listed, query, lastQuery, expanded, cursor, auto, reads, clean, tries,
                 changes>>

ListTaken ==
  LET page == load.answer
      append == load.how = "append"
      changed == lastQuery # query \/ ~SameGroups(list, page.items)
      keep == load.how = "quiet" /\ page.more
      groups == IF append THEN Appended(list, page.items)
                ELSE IF changed THEN Merged(list, page.items, keep) ELSE list
      fresh == IF append THEN Detached(Ids(list))
               ELSE IF changed THEN Detached(IF keep THEN Ids(page.items) ELSE Tasks) ELSE reads
  IN /\ list' = groups /\ more' = page.more /\ lastQuery' = query
     /\ offset' = IF ~append /\ changed /\ keep THEN Len(groups)
                  ELSE IF page.next # 0 THEN page.next ELSE Len(list)
     /\ reads' = IF ~append /\ changed
                 THEN Asked(groups, {t \in expanded \cap Ids(groups) : ~Named(groups, t).loaded},
                            fresh)
                 ELSE fresh
     /\ SweepOf(groups)
     /\ UNCHANGED <<logged, query, expanded, queued, auto, timer, clean, tries, changes>>

\* Mutant: an answer is taken for what is searched for now.
ListArrivesAnyway == load.phase = "answered" /\ ListTaken

ListArrives == load.phase = "answered" /\ load.q = query /\ ListTaken

ListFails ==
  /\ load.phase = "asked" /\ Tries
  /\ LoadSettles(list, offset)
  /\ UNCHANGED <<logged, listed, query, lastQuery, expanded, cursor, auto, reads, clean, changes>>

\* refreshPendingLogItems: listRecordsByIds tells which of the batch have been answered.
SweepServed ==
  /\ load.phase = "sweeping"
  /\ load' = [load EXCEPT !.phase = "swept", !.answer =
       {b \in load.batch : b[1] \notin gone /\ log[b[1]][b[2]] = "finished"}]
  /\ UNCHANGED <<logged, listed, query, lastQuery, expanded, cursor, queued, auto, timer, reads,
                 clean, tries, changes>>

SweepArrives ==
  /\ load.phase = "swept"
  /\ LET done(r) == r.id \in load.answer \cap load.batch
     IN list' = [i \in DOMAIN list |-> [list[i] EXCEPT !.rows =
          [k \in DOMAIN @ |-> IF done(@[k]) THEN [@[k] EXCEPT !.status = "finished"] ELSE @[k]]]]
  /\ load' = [load EXCEPT !.phase = "closing", !.answer = None, !.batch = {}]
  /\ UNCHANGED <<logged, offset, more, query, lastQuery, expanded, cursor, queued, auto, timer,
                 reads, clean, tries, changes>>

SweepFails ==
  /\ load.phase = "sweeping" /\ Tries
  /\ load' = [load EXCEPT !.phase = "closing", !.batch = {}]
  /\ UNCHANGED <<logged, listed, query, lastQuery, expanded, cursor, queued, auto, timer, reads,
                 clean, changes>>

\* The refresh of the selected record is over, if there was one.
LoadCloses ==
  /\ load.phase = "closing"
  /\ LoadSettles(list, offset)
  /\ UNCHANGED <<logged, listed, query, lastQuery, expanded, cursor, auto, reads, clean, tries,
                 changes>>

\* scheduleLogRefresh: a search freezes the list, the timer only starts again.
TimerFires ==
  /\ timer /\ query = Everything
  /\ timer' = FALSE
  /\ AskedToLoad("quiet", query, load, list, offset)
  /\ UNCHANGED <<logged, listed, query, lastQuery, expanded, cursor, auto, reads, clean, tries,
                 changes>>

-----------------------------------------------------------------------------
\* What the user does

\* The list is dropped: no read and no sweep finds its rows again.
Dropped == [load EXCEPT !.batch = {}]

Refresh ==
  /\ Tries
  /\ AskedToLoad("plain", query, load, list, offset)
  /\ UNCHANGED <<logged, listed, query, lastQuery, expanded, cursor, auto, timer, reads, clean,
                 changes>>

LoadMore ==
  /\ Tries /\ more
  /\ AskedToLoad("append", query, load, list, offset)
  /\ UNCHANGED <<logged, listed, query, lastQuery, expanded, cursor, auto, timer, reads, clean,
                 changes>>

\* runLogSearch
Search(q) ==
  /\ Tries
  /\ query' = q /\ list' = <<>> /\ offset' = 0 /\ more' = FALSE
  /\ reads' = Detached(Tasks)
  /\ AskedToLoad("search", q, Dropped, <<>>, 0)
  /\ UNCHANGED <<logged, lastQuery, expanded, cursor, auto, timer, clean, changes>>

\* toggleLogGroupBody
Expand(t) ==
  /\ Tries /\ t \in Ids(list) \ expanded
  /\ expanded' = expanded \cup {t}
  /\ reads' = Asked(list, {t}, reads)
  /\ UNCHANGED <<logged, listed, query, lastQuery, cursor, load, queued, auto, timer, clean,
                 changes>>

Collapse(t) ==
  /\ Tries /\ t \in Ids(list) \cap expanded
  /\ expanded' = expanded \ {t}
  /\ UNCHANGED <<logged, listed, query, lastQuery, cursor, load, queued, auto, timer, reads,
                 clean, changes>>

\* loadMoreLogGroup
MoreRows(t) ==
  /\ Tries /\ t \in Ids(list) \cap expanded /\ reads[<<t, "more">>] = NoRead
  /\ LET g == Named(list, t)
     IN /\ g.loaded /\ g.more
        /\ reads' = [reads EXCEPT ![<<t, "more">>] =
             [q |-> query, from |-> g.next, limit |-> MorePage, answer |-> None, kept |-> TRUE]]
  /\ UNCHANGED <<logged, listed, query, lastQuery, expanded, cursor, load, queued, auto, timer,
                 clean, changes>>

\* The refresh box starts its timer, or stops it.
SwitchRefresh ==
  /\ Tries /\ auto' = ~auto /\ timer' = ~auto
  /\ UNCHANGED <<logged, listed, query, lastQuery, expanded, cursor, load, queued, reads, clean,
                 changes>>

-----------------------------------------------------------------------------
\* Cleaning up, one cleanup at a time

NoClean == [phase |-> None, q |-> None, from |-> 0, ids |-> {}]

\* cleanupLogs: the task whose box is checked.
CleanChosen(t) ==
  /\ Tries /\ clean = NoClean /\ t \in Ids(list)
  /\ clean' = [NoClean EXCEPT !.phase = "asked", !.ids = {t}]
  /\ UNCHANGED <<logged, browser, changes>>

\* cleanupSingleRequestLogs
CleanSingles ==
  /\ Tries /\ clean = NoClean
  /\ clean' = [NoClean EXCEPT !.phase = "scanning", !.q = query]
  /\ UNCHANGED <<logged, browser, changes>>

\* It goes through the pages of the whole list, for tasks of one request.
ScanPage ==
  /\ clean.phase = "scanning"
  /\ LET found == GroupPage(clean.q, PageSize, clean.from)
         ids == clean.ids \cup {g.id : g \in {h \in ToSet(found.items) : h.summary.count = 1}}
     IN clean' = IF found.more THEN [clean EXCEPT !.from = found.next, !.ids = ids]
                 ELSE IF ids = {} THEN NoClean
                 ELSE [NoClean EXCEPT !.phase = "asked", !.ids = ids]
  /\ UNCHANGED <<logged, browser, tries, changes>>

\* cleanupSelectedLogGroups
CleanServed ==
  /\ clean.phase = "asked"
  /\ order' = Keeping(order, Tasks \ clean.ids)
  /\ log' = [t \in Tasks |-> IF t \in clean.ids THEN <<>> ELSE log[t]]
  /\ gone' = gone \cup clean.ids
  /\ clean' = [clean EXCEPT !.phase = "done"]
  /\ UNCHANGED <<browser, tries, changes>>

\* The page starts its list again.
CleanArrives ==
  /\ clean.phase = "done"
  /\ clean' = NoClean /\ list' = <<>> /\ offset' = 0
  /\ reads' = Detached(Tasks)
  /\ AskedToLoad("plain", query, Dropped, <<>>, 0)
  /\ UNCHANGED <<logged, more, query, lastQuery, expanded, cursor, auto, timer, tries, changes>>

-----------------------------------------------------------------------------
\* The page opens with its first load, over a log that may hold tasks already.
HistoryInit ==
  /\ \E s \in Starts : order = s.order /\ log = s.log
  /\ gone = {}
  /\ list = <<>> /\ offset = 0 /\ more = FALSE
  /\ query = Everything /\ lastQuery = Everything /\ expanded = {} /\ cursor = 0
  /\ load = Begun("plain", Everything, <<>>, 0) /\ queued = None
  /\ auto = TRUE /\ timer = FALSE
  /\ reads = [r \in Tasks \X {"first", "more"} |-> NoRead]
  /\ clean = NoClean /\ changes = 0 /\ tries = 0

LogGoesOn == \E t \in Tasks : RequestBegins(t) \/ RequestEnds(t)

Answered ==
  \/ ListServed \/ LateListArrives \/ ListArrives \/ SweepServed \/ SweepArrives \/ LoadCloses
  \/ TimerFires
  \/ ScanPage \/ CleanServed \/ CleanArrives

UserActs ==
  \/ Refresh \/ LoadMore \/ SwitchRefresh \/ CleanSingles
  \/ \E q \in {Everything, Words} : Search(q)
  \/ \E t \in Tasks : Expand(t) \/ Collapse(t) \/ MoreRows(t) \/ CleanChosen(t)

HistoryNext ==
  \/ LogGoesOn \/ Answered \/ UserActs \/ ListFails \/ SweepFails
  \/ \E r \in Tasks \X {"first", "more"} : ReadServed(r) \/ ReadArrives(r) \/ ReadFails(r)

\* What is asked is answered, answers arrive and timers fire.  Nobody has to act, no
\* request has to begin or end.
Fairness ==
  /\ WF_historyVars(ListServed) /\ WF_historyVars(LateListArrives \/ ListArrives)
  /\ WF_historyVars(SweepServed)
  /\ WF_historyVars(SweepArrives) /\ WF_historyVars(LoadCloses) /\ WF_historyVars(TimerFires)

HistorySpec == HistoryInit /\ [][HistoryNext]_historyVars /\ Fairness

-----------------------------------------------------------------------------
\* Properties

\* Tasks move to the top and records are added while pages are read by their offsets:
\* nothing is listed twice.
NothingIsListedTwice ==
  /\ \A i, k \in DOMAIN list : list[i].id = list[k].id => i = k
  /\ \A i \in DOMAIN list : \A j, k \in DOMAIN list[i].rows :
       list[i].rows[j].id = list[i].rows[k].id => j = k

\* What is listed, once, was found by the words that are searched for, although answers to
\* other words may still be on their way to the list or to one of its tasks.
ListAnswersTheSearch ==
  /\ \A i \in DOMAIN list :
       /\ list[i].id \notin gone =>
            \E k \in DOMAIN log[list[i].id] : Found(query, <<list[i].id, k>>)
       /\ \A k \in DOMAIN list[i].rows : Found(query, list[i].rows[k].id)
  /\ NothingIsListedTwice

\* The refresh box is checked and nothing is searched for: the top of the list comes to
\* be the top of the log, with the counts it has now.
TopIsCurrent ==
  \A i \in 1 .. Low(PageSize, Len(order)) :
    /\ i \in DOMAIN list /\ list[i].id = order[i]
    /\ list[i].summary = [count |-> Len(log[order[i]]), pending |-> Pending(order[i])]
ListCatchesUp == <>[](auto /\ query = Everything => TopIsCurrent)

\* Under the same conditions a row whose request was answered does not stay pending,
\* also where the list is too long to be read again as a whole.
RowsAreSettled ==
  \A i \in DOMAIN list : list[i].loaded /\ list[i].id \in expanded \ gone =>
    \A k \in DOMAIN list[i].rows :
      LET id == list[i].rows[k].id IN list[i].rows[k].status = log[id[1]][id[2]]
RowsSettle == <>[](auto /\ query = Everything => RowsAreSettled)
=============================================================================
