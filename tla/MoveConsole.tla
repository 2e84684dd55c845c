---------------------------- MODULE MoveConsole ----------------------------
(***************************************************************************)
(* The binding list of one node in the administration page, from which a   *)
(* user moves bindings (src/src/admin/static/modules/load-balancing.js),   *)
(* over the administration API (src/src/proxy/load-balancer-admin.ts,      *)
(* src/src/admin/routes/load-balancer.ts) and the network between them.    *)
(*                                                                         *)
(* The page reads the list over and over, keeps what the user is deciding  *)
(* beside it, and sends writes whose answers may be late or never come.    *)
(* The runtime restarts, is reconfigured and reroutes meanwhile.           *)
(*                                                                         *)
(* The server is as much as the page can tell of module LoadBalancer: the  *)
(* checks of a move's versions, the answers kept per key, the waiting      *)
(* move.  Which gate refuses a current move is chosen freely.  Left out:   *)
(* the confirmation of an unmeasured destination, what a row shows of its  *)
(* history, and everything the list paints.                                *)
(***************************************************************************)
EXTENDS Maps, Integers, Sequences, FiniteSets, FiniteSetsExt

CONSTANTS
  Bindings,   \* binding numbers with their incarnations: a new runtime reuses them
  Others,     \* bindings that are listed too, and that nobody touches
  Here,       \* the node the list is of
  Elsewhere,  \* the other nodes of the group
  None, NoKey,
  PageRows, RowCap,  \* lbBindingPageRows, lbBindingReadRowCap
  MaxVersions, MaxRoute, MaxKeys, MaxWrites  \* bounds

\* The versions of the envelope a list or an instruction comes with.
Version == [epoch : Nat, rev : Nat]

ASSUME ConsoleAssumption ==
  /\ Here \notin Elsewhere /\ Bindings \cap Others = {} /\ None \notin Version
  /\ {PageRows, RowCap, MaxVersions, MaxRoute, MaxKeys, MaxWrites} \subseteq Nat
  /\ PageRows <= RowCap

VARIABLES
  up, epoch, rev,  \* the pair's runtime, its epoch, the group's revision
  route,           \* bound binding -> [target, rev, busy]
  told,            \* key -> [answer, op, of]: answers kept, and of what instruction
  live,            \* move that may still go on -> [key, state, of]
  writes,          \* key -> how often the runtime wrote a route for it
  shown,           \* row -> routing revision it was read with
  version,         \* [epoch, rev] the rows came with, or None when they were dropped
  more, offset,    \* paging
  offered,         \* moves the list says may be cancelled
  drafts,          \* row -> what the user decides about it
  cancelling,      \* move -> the cancel that claimed its button
  read,            \* the read the panel waits for
  posts, deletes   \* writes sent, in order

server == <<up, epoch, rev, route, told, live, writes>>
page == <<shown, version, more, offset, offered>>
vars == <<server, page, drafts, cancelling, read, posts, deletes>>

Targets == Elsewhere \cup {Here}
Empty == [dst |-> None, payload |-> None, built |-> 0, submitting |-> FALSE,
          uncertain |-> FALSE, retired |-> FALSE, attempt |-> 0,
          notice |-> [about |-> NoKey, says |-> None]]
NoRead == [append |-> FALSE, limit |-> 0, data |-> None, on |-> FALSE]

\* A runtime starts: none of its routes has been written yet.
Routes == UNION {[B -> {[target |-> Here, rev |-> 1, busy |-> FALSE]}] : B \in SUBSET Bindings}

Init ==
  /\ up = TRUE /\ epoch = 1 /\ rev = 1 /\ route \in Routes
  /\ told = EmptyMap /\ live = EmptyMap /\ writes = [k \in 1 .. MaxKeys |-> 0]
  /\ shown = EmptyMap /\ version = None
  /\ more = FALSE /\ offset = 0 /\ offered = {}
  /\ drafts = [b \in Bindings |-> Empty]
  /\ cancelling = EmptyMap /\ read = NoRead /\ posts = <<>> /\ deletes = <<>>

-----------------------------------------------------------------------------
\* The server: LoadBalancerAdminService over the balancer

Waiting(lv) == {o \in DOMAIN lv : lv[o].state = "pending_boundary"}

\* Mutant: the revision of the route is not compared.
CurrentRoughly(p) == p.rev = rev /\ p.b \in DOMAIN route

\* Every version the instruction names is still the one in force.
Current(p) ==
  /\ p.rev = rev /\ p.b \in DOMAIN route
  /\ route[p.b].rev = p.route /\ route[p.b].target = Here

NextOp == Cardinality({i \in DOMAIN posts : posts[i].op # 0}) + 1

\* moveBinding(): the runtime is found first, then what it said about the key, and
\* only what it never heard is judged; a full store says nothing it would have to keep.
Hear(i) ==
  LET p == posts[i].payload
      Say(answer, op) == posts' = [posts EXCEPT ![i].answer = answer, ![i].op = op]
      Keep(answer, op) == told' = Put(told, p.key, [answer |-> answer, op |-> op, of |-> p])
  IN /\ posts[i].answer = None
     /\ UNCHANGED <<up, epoch, rev, page, drafts, cancelling, read, deletes>>
     /\ \/ /\ ~up \/ p.epoch # epoch
           /\ Say("refused", 0) /\ UNCHANGED <<route, told, live, writes>>
        \/ /\ up /\ p.epoch = epoch /\ p.key \in DOMAIN told
           /\ Say(IF told[p.key].of = p THEN told[p.key].answer ELSE "refused", 0)
           /\ UNCHANGED <<route, told, live, writes>>
        \/ /\ up /\ p.epoch = epoch /\ p.key \notin DOMAIN told
           /\ \/ /\ Say("refused", NextOp) /\ Keep("refused", NextOp)
                 /\ UNCHANGED <<route, live, writes>>
              \/ /\ Say("refused", 0) /\ UNCHANGED <<route, told, live, writes>>
              \/ /\ Current(p) /\ ~route[p.b].busy
                 /\ Say("applied", NextOp) /\ Keep("applied", NextOp)
                 /\ route' = [route EXCEPT ![p.b].target = p.dst, ![p.b].rev = @ + 1]
                 /\ writes' = [writes EXCEPT ![p.key] = @ + 1]
                 /\ live' = Put(Without(live, {o \in Waiting(live) : live[o].of.b = p.b}),
                                NextOp, [key |-> p.key, state |-> "applied", of |-> p])
              \/ /\ Current(p) /\ route[p.b].busy
                 /\ Say("pending_boundary", NextOp) /\ Keep("pending_boundary", NextOp)
                 /\ live' = Put(live, NextOp,
                                [key |-> p.key, state |-> "pending_boundary", of |-> p])
                 /\ UNCHANGED <<route, writes>>

\* cancelMoveBinding(): only an intent that waits can be called off.
HearCancel(i) ==
  /\ ~deletes[i].heard
  /\ deletes' = [deletes EXCEPT ![i].heard = TRUE]
  /\ live' = Without(live, Waiting(live) \cap {deletes[i].op})
  /\ UNCHANGED <<up, epoch, rev, route, told, writes, page, drafts, cancelling, read, posts>>

browser == <<page, drafts, cancelling, read, posts, deletes>>

\* The binding is idle, and the next request takes it where a waiting move points.
RequestStarts(b) ==
  /\ ~route[b].busy
  /\ LET due == {o \in Waiting(live) : live[o].of.b = b}
     IN \/ /\ due = {}
           /\ route' = [route EXCEPT ![b].busy = TRUE]
           /\ UNCHANGED <<live, writes>>
        \/ \E o \in due :
             /\ route[b].rev = live[o].of.route
             /\ route' = [route EXCEPT ![b] = [target |-> live[o].of.dst, rev |-> @.rev + 1,
                                               busy |-> TRUE]]
             /\ writes' = [writes EXCEPT ![live[o].key] = @ + 1]
             /\ live' = Without([live EXCEPT ![o].state = "applied"], due \ {o})
  /\ UNCHANGED <<up, epoch, rev, told, browser>>

RequestEnds(b) ==
  /\ route[b].busy
  /\ route' = [route EXCEPT ![b].busy = FALSE]
  /\ UNCHANGED <<up, epoch, rev, told, live, writes, browser>>

\* A failover, or the binding's end: what waited for it is called off.
Rerouted(b) ==
  /\ live' = Without(live, {o \in Waiting(live) : live[o].of.b = b})
  /\ \/ /\ route[b].rev < MaxRoute
        /\ \E t \in Targets \ {route[b].target} :
             route' = [route EXCEPT ![b].target = t, ![b].rev = @ + 1]
     \/ route' = Without(route, {b})
  /\ UNCHANGED <<up, epoch, rev, told, writes, browser>>

\* A move is over, or an answer that nothing waits for is given up.
Settles ==
  /\ \/ \E o \in DOMAIN live : live' = Without(live, {o}) /\ told' = told
     \/ \E k \in DOMAIN told : /\ told[k].op \notin DOMAIN live
                               /\ told' = Without(told, {k}) /\ live' = live
  /\ UNCHANGED <<up, epoch, rev, route, writes, browser>>

\* A save that reaches the group.
Saved ==
  /\ epoch + rev < MaxVersions /\ rev' = rev + 1
  /\ live' = Without(live, Waiting(live))
  /\ UNCHANGED <<up, epoch, route, told, writes, browser>>

Stops ==
  /\ up /\ up' = FALSE
  /\ told' = EmptyMap /\ live' = EmptyMap /\ route' = EmptyMap
  /\ UNCHANGED <<epoch, rev, writes, browser>>

Starts ==
  /\ ~up /\ epoch + 1 < MaxVersions
  /\ up' = TRUE /\ epoch' = epoch + 1 /\ rev' = 1 /\ route' \in Routes
  /\ UNCHANGED <<told, live, writes, browser>>

-----------------------------------------------------------------------------
\* What a change of the list does to the drafts

Awaited(d) == d.submitting \/ d.uncertain
Frozen(d) == d.submitting \/ (d.uncertain /\ d.payload # None)

\* detachPendingMoveWrites: nobody waits for these answers any more.
Detached(ds) ==
  [b \in Bindings |->
     LET d == ds[b]
         off == [d EXCEPT !.attempt = 0, !.submitting = FALSE]
     IN IF ~(d.attempt # 0 \/ d.submitting) THEN d
        ELSE IF d.retired \/ d.payload = None THEN off
        ELSE [off EXCEPT !.uncertain = TRUE,
                         !.notice = [about |-> d.payload.key, says |-> "unknown"]]]

\* retireMoveDrafts: the runtime an instruction was written for is gone.
Retired(ds) ==
  [b \in Bindings |->
     LET d == ds[b]
         unconfirmed == d.attempt # 0 \/ d.built # 0 \/ d.uncertain
     IN [d EXCEPT !.attempt = 0, !.submitting = FALSE, !.payload = None, !.built = 0,
                  !.dst = None, !.retired = @ \/ unconfirmed,
                  !.uncertain = @ \/ unconfirmed]]

\* pruneMoveDrafts
Pruned(ds, rows) ==
  [b \in Bindings |-> IF b \in DOMAIN rows \/ Awaited(ds[b]) THEN ds[b] ELSE Empty]

-----------------------------------------------------------------------------
\* Reading the list

\* readBindingPage: a newer read takes the panel over.
StartRead(append) ==
  LET rows == Cardinality(DOMAIN shown)
  IN [append |-> append, on |-> TRUE, data |-> None,
      limit |-> IF append THEN Min({PageRows, RowCap - rows})
                ELSE Min({RowCap, Max({PageRows, rows})})]

\* refreshOpenBindingPanels, on the status poll
Poll ==
  /\ ~read.on
  /\ read' = StartRead(FALSE)
  /\ UNCHANGED <<server, page, drafts, cancelling, posts, deletes>>

LoadMore ==
  /\ more /\ ~read.on /\ Cardinality(DOMAIN shown) < RowCap
  /\ read' = StartRead(TRUE)
  /\ UNCHANGED <<server, page, drafts, cancelling, posts, deletes>>

\* getBindings(): a page of the rows this node has now, in an order that may have changed.
Serve ==
  /\ read.on /\ read.data = None
  /\ LET here == {b \in DOMAIN route : route[b].target = Here} \cup {b \in Others : up}
         skip == IF read.append THEN Min({offset, Cardinality(here)}) ELSE 0
         size == Min({read.limit, Cardinality(here) - skip})
     IN \E rows \in kSubset(size, here) :
          read' = [read EXCEPT !.data =
            [epoch |-> IF up THEN epoch ELSE 0, rev |-> IF up THEN rev ELSE 0,
             rows |-> [b \in rows |-> IF b \in Others THEN 1 ELSE route[b].rev],
             more |-> skip + size < Cardinality(here), next |-> skip + size,
             offered |-> Waiting(live)]]
  /\ UNCHANGED <<server, page, drafts, cancelling, posts, deletes>>

VersionOf(data) == [epoch |-> data.epoch, rev |-> data.rev]

\* The runtime the page was of is not the one that answers now.
LeftRuntime(data) == version # None /\ version.epoch # 0 /\ version.epoch # data.epoch

\* Rows already held stay as they are when a page is added.
With(rows) ==
  [b \in DOMAIN shown \cup DOMAIN rows |-> IF b \in DOMAIN shown THEN shown[b] ELSE rows[b]]

\* storeBindingPage
Store(data, append) ==
  LET rows == IF append THEN With(data.rows) ELSE data.rows
      changed == ~append /\ version # None /\ version # VersionOf(data)
      kept == IF changed THEN Detached(drafts) ELSE drafts
  IN /\ more' = data.more /\ offset' = data.next /\ offered' = data.offered
     /\ \E S \in kSubset(Min({RowCap, Cardinality(DOMAIN rows)}), DOMAIN rows) :
          /\ append => DOMAIN shown \subseteq S
          /\ shown' = [b \in S |-> rows[b]]
          /\ drafts' = Pruned(IF ~append /\ LeftRuntime(data) THEN Retired(kept) ELSE kept, shown')
     /\ version' = IF append THEN version ELSE VersionOf(data)
     /\ cancelling' = IF changed THEN EmptyMap ELSE cancelling
     /\ read' = NoRead

\* discardBindingGeneration, and the list is read again from its start
Discard(data) ==
  /\ drafts' = IF LeftRuntime(data) THEN Retired(Detached(drafts)) ELSE Detached(drafts)
  /\ shown' = EmptyMap /\ version' = None
  /\ more' = FALSE /\ offset' = 0 /\ offered' = {}
  /\ cancelling' = EmptyMap
  /\ read' = [append |-> FALSE, on |-> TRUE, data |-> None, limit |-> PageRows]

ReadAnswered ==
  /\ read.on /\ read.data # None
  /\ IF read.append /\ VersionOf(read.data) # version
     THEN Discard(read.data) ELSE Store(read.data, read.append)
  /\ UNCHANGED <<server, posts, deletes>>

\* No answer, or nobody waits for it: the panel was closed, or the page hidden.
ReadGone ==
  /\ read.on /\ read' = NoRead
  /\ UNCHANGED <<server, page, drafts, cancelling, posts, deletes>>

-----------------------------------------------------------------------------
\* Moving a row

CanSend == Len(posts) + Len(deletes) < MaxWrites
Keys == {posts[i].payload.key : i \in DOMAIN posts}

\* buildMovePayload: versions from the envelope and the row that are on screen.
Payload(b) ==
  [key |-> Cardinality(Keys) + 1, epoch |-> version.epoch, rev |-> version.rev, b |-> b,
   route |-> shown[b], dst |-> drafts[b].dst]

Send(b, payload) ==
  posts' = Append(posts, [payload |-> payload, version |-> version,
                          waiting |-> TRUE, answer |-> None, op |-> 0])

Choose(b, t) ==
  /\ b \in DOMAIN shown /\ ~Frozen(drafts[b])
  /\ drafts' = [drafts EXCEPT ![b].dst = t, ![b].payload = None, ![b].uncertain = FALSE,
                              ![b].notice = [about |-> NoKey, says |-> None]]
  /\ UNCHANGED <<server, page, cancelling, read, posts, deletes>>

SubmitBindingMove(b) ==
  /\ b \in DOMAIN shown /\ drafts[b].dst # None /\ ~Frozen(drafts[b])
  /\ version # None /\ version.epoch # 0
  /\ CanSend /\ Cardinality(Keys) < MaxKeys
  /\ Send(b, Payload(b))
  /\ drafts' = [drafts EXCEPT ![b] =
       [@ EXCEPT !.payload = Payload(b), !.built = version.epoch, !.retired = FALSE,
                 !.submitting = TRUE, !.uncertain = FALSE, !.attempt = Len(posts) + 1,
                 !.notice = [about |-> NoKey, says |-> None]]]
  /\ UNCHANGED <<server, page, cancelling, read, deletes>>

\* The instruction as it was frozen.
Repeated(b) == drafts[b].payload

RetryBindingMove(b) ==
  /\ b \in DOMAIN shown /\ CanSend
  /\ drafts[b].payload # None /\ drafts[b].uncertain
  /\ ~drafts[b].submitting /\ ~drafts[b].retired
  /\ Send(b, Repeated(b))
  /\ drafts' = [drafts EXCEPT ![b].submitting = TRUE, ![b].attempt = Len(posts) + 1]
  /\ UNCHANGED <<server, page, cancelling, read, deletes>>

\* Mutant: any answer to the row is taken for the one it waits for.
OwnsRow(i) == drafts[posts[i].payload.b].submitting

\* moveAttemptStillOwnsPage
Owns(i) ==
  /\ posts[i].version = version
  /\ drafts[posts[i].payload.b].attempt = i

\* applyMoveAnswer, applyMoveError: an answer, or nothing that tells one.
Answered(d, key, says) ==
  LET definite == says # "unknown"
  IN [d EXCEPT !.attempt = 0, !.submitting = FALSE, !.uncertain = ~definite,
               !.payload = IF definite THEN None ELSE @,
               !.notice = [about |-> key, says |-> says]]

Applied(i, says) ==
  LET p == posts[i].payload
  IN drafts' = [drafts EXCEPT ![p.b] = Answered(@, p.key, says)]

Succeeded == {"applied", "pending_boundary"}

\* The browser's side of a write ends: with its answer, or without one although the
\* server may have heard it or may yet.
PostEnds(i, says) ==
  /\ posts[i].waiting
  /\ says = posts[i].answer \/ says = "unknown"
  /\ says # None
  /\ posts' = [posts EXCEPT ![i] = [@ EXCEPT !.waiting = FALSE, !.version = None]]
  /\ IF Owns(i)
     THEN /\ Applied(i, says)
          /\ read' = IF says \in Succeeded \cup {"unknown"} THEN read ELSE StartRead(FALSE)
     ELSE UNCHANGED <<drafts, read>>
  /\ UNCHANGED <<server, page, cancelling, deletes>>

CancelBindingMove(o) ==
  /\ o \in offered /\ o \notin DOMAIN cancelling /\ CanSend
  /\ deletes' = Append(deletes, [op |-> o, waiting |-> TRUE, heard |-> FALSE])
  /\ cancelling' = Put(cancelling, o, Len(deletes) + 1)
  /\ UNCHANGED <<server, page, drafts, read, posts>>

\* Only the cancel that holds the claim frees it.
ReleasedByOwner(i) == Without(cancelling, {o \in DOMAIN cancelling : cancelling[o] = i})

CancelEnds(i) ==
  /\ deletes[i].waiting
  /\ deletes' = [deletes EXCEPT ![i].waiting = FALSE]
  /\ cancelling' = ReleasedByOwner(i)
  /\ UNCHANGED <<server, page, drafts, read, posts>>

-----------------------------------------------------------------------------
\* dispose(), and the surface is built again over the same panels.
Rebuilt ==
  /\ Detached(drafts) # drafts \/ cancelling # EmptyMap
  /\ read' = NoRead /\ drafts' = Detached(drafts) /\ cancelling' = EmptyMap
  /\ UNCHANGED <<server, page, posts, deletes>>

Says == {"applied", "pending_boundary", "refused", "unknown"}

Next ==
  \/ \E i \in DOMAIN posts : Hear(i) \/ \E says \in Says : PostEnds(i, says)
  \/ \E i \in DOMAIN deletes : HearCancel(i) \/ CancelEnds(i)
  \/ \E b \in DOMAIN route : RequestStarts(b) \/ RequestEnds(b) \/ Rerouted(b)
  \/ Settles \/ Saved \/ Stops \/ Starts
  \/ Poll \/ LoadMore \/ Serve \/ ReadAnswered \/ ReadGone
  \/ \E b \in Bindings : \/ SubmitBindingMove(b) \/ RetryBindingMove(b)
                         \/ \E t \in Elsewhere : Choose(b, t)
  \/ \E o \in offered : CancelBindingMove(o)
  \/ Rebuilt

Spec == Init /\ [][Next]_vars

-----------------------------------------------------------------------------
\* Properties

(* What a key stands for never changes on its way: every send of it        *)
(* carries the same instruction, so the server never has to call it a      *)
(* conflict (load-balancing.js buildMovePayload, retryBindingMove).        *)
KeysStandForOneInstruction ==
  \A i, j \in DOMAIN posts :
    posts[i].payload.key = posts[j].payload.key => posts[i].payload = posts[j].payload

(* However often a decision is sent, and whatever the server has forgotten *)
(* in between, it writes a route once at most, and is the same each time   *)
(* (load-balancing.js submitBindingMove, retryBindingMove;                 *)
(* load-balancer-admin.ts moveBinding).                                    *)
DecisionsWriteOnce ==
  /\ \A k \in DOMAIN writes : writes[k] <= 1
  /\ KeysStandForOneInstruction

(* What a row says about a move is about the last move its user asked for, *)
(* and is what the server said of it: a late answer to an older one, of    *)
(* another generation or surface, is not shown (load-balancing.js          *)
(* moveAttemptStillOwnsPage).                                              *)
NoticesAreOfTheLastDecision ==
  \A b \in Bindings :
    LET n == drafts[b].notice
        asked == {posts[i].payload.key : i \in {j \in DOMAIN posts : posts[j].payload.b = b}}
    IN n.about # NoKey =>
         /\ \A k \in asked : k <= n.about
         /\ n.says # "unknown" =>
              \E i \in DOMAIN posts : posts[i].payload.key = n.about /\ posts[i].answer = n.says

(* A row is held only by a write that is still on its way, and a cancel    *)
(* button only by a cancel that is: nothing stays locked for an answer     *)
(* nobody waits for (load-balancing.js detachPendingMoveWrites).           *)
LocksAreHeldByWaiters ==
  /\ \A b \in Bindings : drafts[b].submitting =>
       /\ drafts[b].attempt \in DOMAIN posts /\ posts[drafts[b].attempt].waiting
       /\ Owns(drafts[b].attempt)
  /\ \A o \in DOMAIN cancelling : deletes[cancelling[o]].waiting

(* A row and its buttons tell the last decision: a notice is of it, and a  *)
(* lock is held for its answer alone (load-balancing.js                    *)
(* moveAttemptStillOwnsPage, detachPendingMoveWrites).                     *)
RowsTellTheLastDecision == NoticesAreOfTheLastDecision /\ LocksAreHeldByWaiters

=============================================================================
