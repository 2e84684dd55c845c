----------------------------- MODULE RecordPane -----------------------------
(***************************************************************************)
(* The record that is shown beside the history: how it is selected, read   *)
(* ahead, read and read again while its request runs (history.js), and the *)
(* tree its JSON is shown in (json-pane.js).                               *)
(*                                                                         *)
(* A tree is not built again for a newer body: row by row it is compared   *)
(* with the body it was built from.  In a large body the rows of a closed  *)
(* node are left out until it is opened, and are then filled in chunks by  *)
(* tasks of their own, between which bodies arrive and the user clicks.    *)
(*                                                                         *)
(* Both panes are the same code: one of them stands here.  A row is known  *)
(* by its path.  How a leaf is written, scrolled and measured is left out. *)
(***************************************************************************)
EXTENDS Page, Sequences, FiniteSets, SequencesExt

CONSTANTS
  Records,
  Bodies,         \* record -> its bodies, one after another; the last is of a finished record
  ExpandedDepth,  \* defaultJsonExpandedDepth: nodes above it start open
  LazyLimit,      \* lazyJsonEntryLimit
  Chunk,          \* jsonMaterializeChunkSize
  MaxSelects, MaxClicks, MaxLost   \* what the user does, and answers that are lost

\* A body is a function of the paths in it: a leaf with what it shows, or a node with its
\* keys in their order.
Leaf(v) == [leaf |-> v, keys |-> <<>>]
Node(keys) == [leaf |-> None, keys |-> keys]
IsNode(b, p) == p \in DOMAIN b /\ b[p].leaf = None

Versions == UNION {{<<r, v>> : v \in DOMAIN Bodies[r]} : r \in Records}
Body(id) == Bodies[id[1]][id[2]]
Paths == UNION {DOMAIN Body(id) : id \in Versions}

\* Where a call is: it waits for what is read ahead, or reads itself.
Phases == {"waits", "asked", "answered", "failed"}

ASSUME RecordAssumption ==
  /\ {ExpandedDepth, LazyLimit, MaxSelects, MaxClicks, MaxLost} \subseteq Nat
  /\ Chunk \in Nat \ {0}
  /\ None \notin Records /\ None \notin Records \X Int /\ None \notin Phases
  /\ \A id \in Versions : <<>> \in DOMAIN Body(id) /\ \A p \in DOMAIN Body(id) :
       Body(id)[p].leaf # None => Body(id)[p].keys = <<>>

VARIABLES
  version,       \* record -> the body the server has of it
  selected, loading,   \* state.selected, state.selectedLogLoading
  selects,       \* the calls of selectLog, in their order
  cache,         \* logDetailPrefetch: record -> a body, or that it is being read ahead
  ahead,         \* records that are being read ahead
  refresh,       \* refreshSelectedLogDetail on its way
  mode,          \* the way strings are shown
  shown,         \* the body the pane was given last
  signature,     \* jsonPaneSignatures
  rows,          \* path -> the row that stands there
  queue,         \* jsonMaterializeQueue
  toggled,       \* nodes whose toggle event is to come
  clicks, lost

records == <<version, selected, loading, selects, cache, ahead, refresh>>
pane == <<mode, shown, signature, rows, queue, toggled>>
vars == <<records, pane, clicks, lost>>

Final(r) == Len(Bodies[r])
-----------------------------------------------------------------------------
\* Rows

NoRow == [text |-> None]
NoFill == [of |-> None, next |-> 0]

\* What a row was built from is known (of) or not.  slept is not in the program: the node
\* was closed, with rows in it, when its body changed.
Row(text, kids, open, lazy, of) ==
  [text |-> text, kids |-> kids, open |-> open, lazy |-> lazy, done |-> FALSE,
   fill |-> NoFill, of |-> of, root |-> FALSE, slept |-> FALSE]

Stands(p) == rows[p] # NoRow
IsTree(p) == Stands(p) /\ rows[p].text.leaf = None
Text(b, p) == [leaf |-> b[p].leaf, count |-> Len(b[p].keys)]
Lazy(b) == Cardinality(DOMAIN b) - 1 > LazyLimit

Aboves == [p \in Paths |-> {SubSeq(p, 1, n) : n \in 0 .. Len(p) - 1}]
Above(p) == Aboves[p]

\* sameJsonValue of what two bodies have at a path
Same ==
  [id \in Versions |-> [other \in Versions |->
    {p \in Paths : \A q \in Paths : IsPrefix(p, q) =>
       /\ q \in DOMAIN Body(id) <=> q \in DOMAIN Body(other)
       /\ q \in DOMAIN Body(id) => Body(id)[q] = Body(other)[q]}]]

\* jsonNodeMarkup: the row at p in the markup of what a body has at top.
Markup(id, top, open, p, remembered) ==
  LET b == Body(id)
      isOpen(q) == IF q = top THEN open ELSE Len(q) < ExpandedDepth
      empty(q) == Lazy(b) /\ ~isOpen(q)
  IN IF \/ p \notin DOMAIN b
        \/ \E q \in Above(p) : IsPrefix(top, q) /\ empty(q)
     THEN NoRow
     ELSE Row(Text(b, p), IF empty(p) THEN <<>> ELSE b[p].keys, IsNode(b, p) /\ isOpen(p),
              IsNode(b, p) /\ empty(p), IF remembered \/ p = top THEN id ELSE None)

\* The whole tree, with what every row was built from
Painted(id) ==
  [p \in Paths |->
    LET row == Markup(id, <<>>, 0 < ExpandedDepth, p, TRUE)
    IN IF p = <<>> THEN [row EXCEPT !.root = TRUE] ELSE row]

-----------------------------------------------------------------------------
\* syncJsonRow, syncJsonChildren: the rows that stand, brought in step with a body

Unchanged(id, p) == rows[p].of # None /\ p \in Same[rows[p].of][id]
KeepsNode(id, p) == IsTree(p) /\ IsNode(Body(id), p)

\* A node stays open; one that starts open is opened again.
StaysOpen(p) == rows[p].open \/ Len(p) < ExpandedDepth

Asleep(id, p) == Lazy(Body(id)) /\ ~StaysOpen(p)

\* It goes on into the rows of a node that changed.  Where it stops, the row is gone or new,
\* or what is below it is left alone.
GoesOn(id, p) == Stands(p) /\ KeepsNode(id, p) /\ ~Unchanged(id, p) /\ ~Asleep(id, p)

Reaches(id) == {p \in Paths : \A q \in Above(p) : GoesOn(id, q)}

\* The row at p when the sync stopped at the row q above it, or at itself
SyncedBelow(id, p, q) ==
  IF q \notin DOMAIN Body(id) THEN NoRow
  ELSE IF ~Stands(q) THEN Markup(id, q, Len(q) < ExpandedDepth, p, FALSE)
  ELSE IF ~Unchanged(id, q) /\ ~KeepsNode(id, q) THEN Markup(id, q, FALSE, p, FALSE)
  ELSE rows[p]

\* The row of a node that stays a node, and what stands below it when it was synced
Unfilled(id, p) ==
  [rows[p] EXCEPT !.text = Text(Body(id), p), !.open = FALSE, !.of = id, !.lazy = TRUE,
     !.slept = @ \/ rows[p].done \/ rows[p].fill # NoFill \/ rows[p].kids # <<>>]
Reconciled(id, p) ==
  [rows[p] EXCEPT !.text = Text(Body(id), p), !.open = StaysOpen(p), !.of = id,
     !.kids = Body(id)[p].keys, !.lazy = FALSE]

\* Mutant: rows are added and taken away, but none is moved.
InTheOldOrder(id, p) ==
  IF Asleep(id, p) THEN Unfilled(id, p)
  ELSE LET b == Body(id)
           stay == SelectSeq(rows[p].kids, LAMBDA k : k \in ToSet(b[p].keys))
       IN [Reconciled(id, p) EXCEPT
             !.kids = stay \o SelectSeq(b[p].keys, LAMBDA k : k \notin ToSet(stay))]

SyncedNode(id, p) == IF Asleep(id, p) THEN Unfilled(id, p) ELSE Reconciled(id, p)

Synced(id, p) ==
  IF p \in Reaches(id) /\ Stands(p) /\ KeepsNode(id, p) /\ ~Unchanged(id, p)
  THEN SyncedNode(id, p)
  ELSE SyncedBelow(id, p,
         CHOOSE q \in Above(p) \cup {p} : ~GoesOn(id, q) /\ \A o \in Above(q) : GoesOn(id, o))

\* The rows that a sync takes away, or replaces by others.
Replaced(id) ==
  {p \in Paths : Stands(p) /\
     \E q \in (Above(p) \cup {p}) \cap Reaches(id) :
       /\ \/ q \notin DOMAIN Body(id)
          \/ ~Unchanged(id, q) /\ ~KeepsNode(id, q)}

\* enqueueJsonMaterialize
Fillable(p) == IsTree(p) /\ rows[p].lazy /\ ~rows[p].done /\ rows[p].fill = NoFill

\* renderJsonPane: the rows are brought in step when nothing else changed than the body,
\* else all are built again, and those that were opened, as far as they stand, opened.
Signature(id, m) == <<Lazy(Body(id)), m>>

Rendered(id, m, reset) ==
  /\ shown' = id /\ signature' = Signature(id, m)
  /\ \/ /\ ~reset /\ signature = Signature(id, m)
        /\ rows' = [p \in Paths |-> Synced(id, p)]
        /\ queue' = SelectSeq(queue, LAMBDA p : p \notin Replaced(id))
        /\ toggled' = toggled \ Replaced(id)
     \/ /\ reset \/ signature # Signature(id, m)
        /\ LET fresh == Painted(id)
               saved == {p \in Paths : ~reset /\ IsTree(p) /\ fresh[p] # NoRow
                                       /\ fresh[p].text.leaf = None}
               woken == {p \in saved : rows[p].open /\ fresh[p].lazy}
           IN /\ rows' = [p \in Paths |-> IF p \in saved THEN [fresh[p] EXCEPT !.open = rows[p].open]
                                          ELSE fresh[p]]
              /\ queue' = SetToSeq(woken)
              /\ toggled' = {p \in saved : rows[p].open # fresh[p].open}

-----------------------------------------------------------------------------
\* The tree as the user opens and closes it

Visible(p) == Stands(p) /\ \A q \in Above(p) : rows[q].open

Click == clicks < MaxClicks /\ clicks' = clicks + 1

Toggle(p) ==
  /\ Click /\ IsTree(p) /\ Visible(p)
  /\ rows' = [rows EXCEPT ![p].open = ~@]
  /\ toggled' = toggled \cup {p}
  /\ UNCHANGED <<records, mode, shown, signature, queue, lost>>

ToggleEvent(p) ==
  /\ p \in toggled
  /\ toggled' = toggled \ {p}
  /\ queue' = IF rows[p].open /\ Fillable(p) THEN Append(queue, p) ELSE queue
  /\ UNCHANGED <<records, mode, shown, signature, rows, clicks, lost>>

\* The expand button opens the next level: the nodes that are to be filled first, later.
\* Where all are open it closes them, but for the first two levels.
ExpandLevel ==
  LET trees == {p \in Paths : IsTree(p)}
      next == {p \in trees : ~rows[p].open /\ Visible(p)}
      opened == {p \in next : ~rows[p].lazy}
      stays(p) == rows[<<>>].root /\ Len(p) < 2
  IN /\ Click /\ trees # {}
     /\ \/ /\ next # {}
           /\ rows' = [p \in Paths |-> IF p \in opened THEN [rows[p] EXCEPT !.open = TRUE]
                                       ELSE rows[p]]
           /\ queue' = queue \o SetToSeq({p \in next : Fillable(p)})
           /\ toggled' = toggled \cup opened
        \/ /\ next = {}
           /\ rows' = [p \in Paths |-> IF p \in trees THEN [rows[p] EXCEPT !.open = stays(p)]
                                       ELSE rows[p]]
           /\ toggled' = toggled \cup {p \in trees : rows[p].open # stays(p)}
           /\ UNCHANGED queue
     /\ UNCHANGED <<records, mode, shown, signature, lost>>

\* A node that is not complete is queued again.
Requeued(p, complete) == IF complete THEN Tail(queue) ELSE Append(Tail(queue), p)

\* materializeJsonNode on the first of the queue: the next chunk of the body the node had
\* when it was begun.  A row with a key that stands already is another row, which only
\* happens under a node that slept; the older one is not followed any further.
Filled(p) ==
  LET fill == IF rows[p].fill = NoFill THEN [of |-> shown, next |-> 0] ELSE rows[p].fill
      b == Body(fill.of)
      upto == Low(fill.next + Chunk, Len(b[p].keys))
      chunk == SubSeq(b[p].keys, fill.next + 1, upto)
      complete == upto = Len(b[p].keys)
      isNew(q) == q # <<>> /\ Front(q) = p /\ Last(q) \in ToSet(chunk)
  IN /\ rows' = [q \in Paths |->
          IF q = p
          THEN [rows[p] EXCEPT !.kids = SelectSeq(@, LAMBDA k : k \notin ToSet(chunk)) \o chunk,
                  !.open = TRUE, !.done = complete,
                  !.fill = IF complete THEN NoFill ELSE [fill EXCEPT !.next = upto]]
          ELSE IF isNew(q) THEN Markup(fill.of, q, FALSE, q, TRUE)
          ELSE IF \E o \in Above(q) : isNew(o) THEN NoRow
          ELSE rows[q]]
     /\ queue' = Requeued(p, complete)

\* drainJsonMaterializeQueue.  A node is opened when it has its first rows, filled or not.
Drain ==
  /\ queue # <<>>
  /\ LET p == Head(queue)
         fills == /\ rows[p].lazy /\ ~rows[p].done
                  /\ rows[p].fill # NoFill \/ IsNode(Body(shown), p)
     IN /\ \/ fills /\ Filled(p)
           \/ ~fills /\ rows' = [rows EXCEPT ![p].open = TRUE] /\ queue' = Tail(queue)
        /\ toggled' = IF rows[p].open THEN toggled ELSE toggled \cup {p}
  /\ UNCHANGED <<records, mode, shown, signature, clicks, lost>>

\* The wrap and format buttons, and another language
ChangeMode ==
  /\ Click /\ shown # None
  /\ mode' = 1 - mode
  /\ Rendered(shown, 1 - mode, FALSE)
  /\ UNCHANGED <<records, lost>>

-----------------------------------------------------------------------------
\* The record that is selected

NotCached == 0
BeingRead == -1
NoCall == [id |-> None, phase |-> None, got |-> 0]
Call(r, phase) == [NoCall EXCEPT !.id = r, !.phase = phase]

\* The request of a record goes on: the server has a newer body of it.
RequestGoesOn(r) ==
  /\ version[r] < Final(r)
  /\ version' = [version EXCEPT ![r] = @ + 1]
  /\ UNCHANGED <<selected, loading, selects, cache, ahead, refresh, pane, clicks, lost>>

Given(r, v, reset) == Rendered(<<r, v>>, mode, reset) /\ UNCHANGED mode

\* Mutant: an answer is shown whichever record is selected now.
TakenAnyway(r, v, reset) == Given(r, v, reset)

\* applySelectedLogDetail, unless another record was selected since
Taken(r, v, reset) ==
  \/ selected = r /\ Given(r, v, reset)
  \/ selected # r /\ UNCHANGED pane

\* prefetchLogDetail, of a record that the list does not show as pending
ReadAhead(r) ==
  /\ cache[r] = NotCached /\ r \notin ahead /\ version[r] = Final(r)
  /\ cache' = [cache EXCEPT ![r] = BeingRead] /\ ahead' = ahead \cup {r}
  /\ UNCHANGED <<version, selected, loading, selects, refresh, pane, clicks, lost>>

\* selectLog shows what was read before, waits for what is being read ahead, or reads.
Select(r) ==
  /\ Len(selects) < MaxSelects
  /\ selected' = r
  /\ \/ /\ cache[r] > 0
        /\ selects' = Append(selects, NoCall) /\ loading' = FALSE
        /\ Given(r, cache[r], TRUE)
     \/ /\ cache[r] <= 0
        /\ selects' = Append(selects, Call(r, IF cache[r] = BeingRead THEN "waits" ELSE "asked"))
        /\ loading' = TRUE
        /\ UNCHANGED pane
  /\ UNCHANGED <<version, cache, ahead, refresh, clicks, lost>>

\* The calls that wait for a record to be read ahead
Waiting(r) == {i \in DOMAIN selects : selects[i].id = r /\ selects[i].phase = "waits"}

ReadAheadArrives(r) ==
  /\ r \in ahead
  /\ ahead' = ahead \ {r}
  /\ cache' = IF cache[r] = BeingRead THEN [cache EXCEPT ![r] = version[r]] ELSE cache
  /\ selects' = [i \in DOMAIN selects |-> IF i \in Waiting(r) THEN NoCall ELSE selects[i]]
  /\ \/ /\ Waiting(r) # {} /\ Taken(r, version[r], TRUE)
        /\ loading' = (loading /\ selected # r)
     \/ Waiting(r) = {} /\ UNCHANGED <<pane, loading>>
  /\ UNCHANGED <<version, selected, refresh, clicks, lost>>

\* It failed: whoever waits for it reads the record itself.
ReadAheadFails(r) ==
  /\ r \in ahead /\ lost < MaxLost /\ lost' = lost + 1
  /\ ahead' = ahead \ {r}
  /\ cache' = IF cache[r] = BeingRead THEN [cache EXCEPT ![r] = NotCached] ELSE cache
  /\ selects' = [i \in DOMAIN selects |-> IF i \in Waiting(r) THEN Call(r, "asked")
                                          ELSE selects[i]]
  /\ UNCHANGED <<version, selected, loading, refresh, pane, clicks>>

SelectServed(i) ==
  /\ selects[i].phase = "asked"
  /\ selects' = [selects EXCEPT ![i].phase = "answered", ![i].got = version[selects[i].id]]
  /\ UNCHANGED <<version, selected, loading, cache, ahead, refresh, pane, clicks, lost>>

SelectArrives(i) ==
  /\ selects[i].phase = "answered"
  /\ selects' = [selects EXCEPT ![i] = NoCall]
  /\ LET r == selects[i].id
     IN /\ cache' = [cache EXCEPT ![r] = selects[i].got]
        /\ loading' = (loading /\ selected # r)
        /\ Taken(r, selects[i].got, TRUE)
  /\ UNCHANGED <<version, selected, ahead, refresh, clicks, lost>>

\* The answer is lost: the record that was shown before stays under the new selection.
SelectFails(i) ==
  /\ selects[i].phase = "asked" /\ lost < MaxLost /\ lost' = lost + 1
  /\ loading' = (loading /\ selected # selects[i].id)
  /\ selects' = [selects EXCEPT ![i].phase = "failed"]
  /\ UNCHANGED <<version, selected, cache, ahead, refresh, pane, clicks>>

ShowsFinished == shown # None /\ shown[2] = Final(shown[1])

\* refreshSelectedLogDetail: what is shown, whoever it is of, is not of a finished request.
RefreshBegins ==
  /\ selected # None /\ ~loading /\ refresh = NoCall /\ ~ShowsFinished
  /\ refresh' = Call(selected, "asked")
  /\ UNCHANGED <<version, selected, loading, selects, cache, ahead, pane, clicks, lost>>

RefreshServed ==
  /\ refresh.phase = "asked"
  /\ refresh' = [refresh EXCEPT !.phase = "answered", !.got = version[refresh.id]]
  /\ UNCHANGED <<version, selected, loading, selects, cache, ahead, pane, clicks, lost>>

RefreshArrives ==
  /\ refresh.phase = "answered"
  /\ refresh' = NoCall
  /\ cache' = IF selected = refresh.id THEN [cache EXCEPT ![selected] = refresh.got] ELSE cache
  /\ Taken(refresh.id, refresh.got, FALSE)
  /\ UNCHANGED <<version, selected, loading, selects, ahead, clicks, lost>>

RefreshFails ==
  /\ refresh.phase = "asked" /\ lost < MaxLost /\ lost' = lost + 1
  /\ refresh' = NoCall
  /\ UNCHANGED <<version, selected, loading, selects, cache, ahead, pane, clicks>>

-----------------------------------------------------------------------------
Init ==
  /\ version \in [Records -> 1 .. 2] /\ \A r \in Records : version[r] <= Final(r)
  /\ selected = None /\ loading = FALSE /\ selects = <<>>
  /\ cache = [r \in Records |-> NotCached] /\ ahead = {} /\ refresh = NoCall
  /\ mode = 0 /\ shown = None /\ signature = None
  /\ rows = [p \in Paths |-> NoRow] /\ queue = <<>> /\ toggled = {}
  /\ clicks = 0 /\ lost = 0

Shows ==
  \/ Drain \/ ExpandLevel \/ ChangeMode
  \/ \E p \in Paths : Toggle(p) \/ ToggleEvent(p)

Reads ==
  \/ RefreshBegins \/ RefreshServed \/ RefreshArrives \/ RefreshFails
  \/ \E i \in DOMAIN selects : SelectServed(i) \/ SelectArrives(i) \/ SelectFails(i)
  \/ \E r \in Records :
       RequestGoesOn(r) \/ ReadAhead(r) \/ Select(r) \/ ReadAheadArrives(r) \/ ReadAheadFails(r)

Next == Shows \/ Reads

Spec == Init /\ [][Next]_vars

-----------------------------------------------------------------------------
\* Properties

Failed == \E i \in DOMAIN selects : selects[i].phase = "failed" /\ selects[i].id = selected

\* Answers overtake one another, are shared by those who wait for them, and are remembered:
\* once the selection stopped loading the pane is of the record that is selected, whatever
\* was selected and read before.  As the pane of a running request is read again, it comes
\* to show what the record is in the end.
PaneIsOfTheSelection ==
  selected # None /\ ~loading /\ ~Failed => shown # None /\ shown[1] = selected

\* No opened node is left without its rows: one that lacks some is in the queue, or its
\* toggle event is to come, however bodies arrive and the user clicks between the chunks.
Sleeps(p) == \E q \in Above(p) : rows[q].slept
OpenNodesAreFilled ==
  \A p \in Paths :
    Stands(p) /\ ~Sleeps(p) /\ rows[p].open /\ rows[p].lazy /\ ~rows[p].done /\ ~rows[p].slept
      => p \in ToSet(queue) \cup toggled

\* The pane is never built again for a newer body of a record, only brought in step: every
\* row shows what the body shown last has at its path, and every node has the rows of that
\* body, in its order, as far as they are filled, and goes on to be filled while it is open;
\* but for rows below a node that was closed, with rows in it, while its body changed.
RowsAreOfTheBody ==
  /\ \A p \in Paths : Stands(p) /\ ~Sleeps(p) =>
       LET b == Body(shown)
       IN /\ p \in DOMAIN b /\ rows[p].text = Text(b, p)
          /\ ~rows[p].slept =>
               /\ rows[p].kids = IF rows[p].lazy /\ ~rows[p].done
                                 THEN SubSeq(b[p].keys, 1, rows[p].fill.next) ELSE b[p].keys
               /\ \A k \in ToSet(b[p].keys) : Stands(Append(p, k)) <=> k \in ToSet(rows[p].kids)
  /\ OpenNodesAreFilled
=============================================================================
