------------------------ MODULE MoveConsole_proofs ------------------------
(***************************************************************************)
(* A user's decisions among any number of rows, sends, restarts, saves,    *)
(* reroutes and answers lost on the way: each writes a route once at most, *)
(* and the row tells of the last one.                                      *)
(***************************************************************************)
EXTENDS MoveConsole, FiniteSetTheorems, TLAPS

Instruction ==
  [key : 1 .. MaxKeys, epoch : Nat, rev : Nat, b : Bindings, route : Nat, dst : Elsewhere]

Route == [target : Targets, rev : Nat, busy : BOOLEAN]
LiveMove == [key : 1 .. MaxKeys, state : {"applied", "pending_boundary"}, of : Instruction]
Post == [payload : Instruction, version : Version \cup {None}, waiting : BOOLEAN,
         answer : Says \cup {None}, op : Nat]
Delete == [op : Nat, waiting : BOOLEAN, heard : BOOLEAN]
Draft ==
  [dst : Elsewhere \cup {None}, payload : Instruction \cup {None}, built : Nat,
   submitting : BOOLEAN, uncertain : BOOLEAN, retired : BOOLEAN, attempt : Nat,
   notice : [about : Nat \cup {NoKey}, says : Says \cup {None}]]

ServerTyped ==
  /\ up \in BOOLEAN /\ epoch \in Nat /\ rev \in Nat
  /\ DOMAIN route \subseteq Bindings /\ \A b \in DOMAIN route : route[b] \in Route
  /\ DOMAIN live \subseteq Nat /\ \A o \in DOMAIN live : live[o] \in LiveMove
  /\ writes \in [1 .. MaxKeys -> Nat]
  /\ \A k \in DOMAIN told : told[k].answer \in Says
  /\ ~up => DOMAIN route = {} /\ DOMAIN live = {}

\* A page of the list is of a runtime that is, or was, there.
Listed(data) ==
  /\ data.epoch \in 0 .. epoch /\ data.rev \in Nat
  /\ \A b \in DOMAIN data.rows : data.rows[b] \in Nat
  /\ data.offered \subseteq Nat

ListTyped ==
  /\ read = [append |-> read.append, on |-> read.on, data |-> read.data, limit |-> read.limit]
  /\ read.data # None => Listed(read.data)
  /\ version \in Version \cup {None}
  /\ version # None => version.epoch <= epoch
  /\ version = None => DOMAIN shown = {}
  /\ \A b \in DOMAIN shown : shown[b] \in Nat
  /\ offered \subseteq Nat

WritesTyped == posts \in Seq(Post) /\ deletes \in Seq(Delete)

Sent(p) == \E i \in DOMAIN posts : posts[i].payload = p

\* What waits on the server is of this runtime, and was sent to it.
MovesAreSent ==
  \A o \in DOMAIN live :
    Sent(live[o].of) /\ live[o].of.epoch = epoch /\ live[o].key = live[o].of.key

\* A version that the instruction names will not be in force again.
Over(p) == p.epoch < epoch \/ p.b \notin DOMAIN route \/ route[p.b].rev > p.route

\* An instruction that wrote its route names versions that are over.
WrittenIsOver ==
  \A i \in DOMAIN posts :
    LET p == posts[i].payload
    IN p.epoch <= epoch /\ (writes[p.key] = 0 \/ (writes[p.key] = 1 /\ Over(p)))

\* Keys are given out in turn, and a key that was not has written nothing.
KeysInTurn ==
  /\ \E n \in 0 .. MaxKeys : Keys = 1 .. n
  /\ \A k \in 1 .. MaxKeys \ Keys : writes[k] = 0

\* k is of the last decision about row b.
Newest(b, k) == \A i \in DOMAIN posts : posts[i].payload.b = b => posts[i].payload.key <= k

\* What row b keeps to be sent again is its last decision as it was sent.
FrozenIsLast(b, d) ==
  d.payload # None => Sent(d.payload) /\ d.payload.b = b /\ Newest(b, d.payload.key)

\* The answer a row waits for is to its last decision, from the list that is on screen.
AttemptIsLast(b, d) ==
  /\ d.submitting <=> d.attempt # 0
  /\ d.attempt # 0 =>
       /\ d.attempt \in DOMAIN posts /\ posts[d.attempt].waiting /\ posts[d.attempt].payload.b = b
       /\ posts[d.attempt].version = version /\ version # None
       /\ Newest(b, posts[d.attempt].payload.key)

\* A notice is of the last decision, and an answer that was given.
NoticeIsLast(b, d) ==
  d.notice.about # NoKey =>
    /\ Newest(b, d.notice.about)
    /\ d.notice.says # "unknown" =>
         \E i \in DOMAIN posts : /\ posts[i].payload.key = d.notice.about
                                 /\ posts[i].answer = d.notice.says /\ d.notice.says # None

TellsTheLast(b, d) == FrozenIsLast(b, d) /\ AttemptIsLast(b, d) /\ NoticeIsLast(b, d)

Rows(ds) == ds \in [Bindings -> Draft] /\ \A b \in Bindings : TellsTheLast(b, ds[b])

CancelsHold ==
  \A o \in DOMAIN cancelling :
    cancelling[o] \in DOMAIN deletes /\ deletes[cancelling[o]].waiting

Fence == MovesAreSent /\ WrittenIsOver /\ KeysInTurn /\ KeysStandForOneInstruction

ConsoleInv ==
  /\ ServerTyped /\ ListTyped /\ WritesTyped
  /\ Fence /\ Rows(drafts) /\ CancelsHold

-----------------------------------------------------------------------------
\* The server: what is sent stays as it was

SamePayloads ==
  /\ DOMAIN posts' = DOMAIN posts
  /\ \A i \in DOMAIN posts : posts'[i].payload = posts[i].payload

\* Nothing brings back a revision of this runtime.
RoutesGoOn ==
  \/ epoch' > epoch
  \/ /\ epoch' = epoch
     /\ \A b \in DOMAIN route' : b \in DOMAIN route /\ route'[b].rev >= route[b].rev

\* A row of a list is replaced.
LEMMA Replaced ==
  ASSUME NEW S, NEW s \in Seq(S), NEW i \in DOMAIN s, NEW x \in S
  PROVE  /\ [s EXCEPT ![i] = x] \in Seq(S) /\ DOMAIN [s EXCEPT ![i] = x] = DOMAIN s
         /\ \A j \in DOMAIN s : [s EXCEPT ![i] = x][j] = IF j = i THEN x ELSE s[j]
<1>1. s \in [1 .. Len(s) -> S] /\ Len(s) \in Nat
  OBVIOUS
<1>2. [s EXCEPT ![i] = x] \in [1 .. Len(s) -> S]
  BY <1>1
<1> QED
  BY <1>1, <1>2

LEMMA KeysStay ==
  ASSUME SamePayloads
  PROVE  /\ Keys' = Keys /\ \A p : Sent(p)' <=> Sent(p)
         /\ KeysStandForOneInstruction => KeysStandForOneInstruction'
         /\ \A b, k : Newest(b, k)' <=> Newest(b, k)
<1>1. Keys' = Keys
  BY DEF SamePayloads, Keys
<1>2. ASSUME NEW p
      PROVE  Sent(p)' <=> Sent(p)
  BY DEF SamePayloads, Sent
<1>3. KeysStandForOneInstruction => KeysStandForOneInstruction'
  BY DEF SamePayloads, KeysStandForOneInstruction
<1>4. ASSUME NEW b, NEW k
      PROVE  Newest(b, k)' <=> Newest(b, k)
  BY DEF SamePayloads, Newest
<1> QED
  BY <1>1, <1>2, <1>3, <1>4

LEMMA PayloadsAre ==
  ASSUME WritesTyped
  PROVE  /\ posts \in Seq(Post) /\ DOMAIN posts = 1 .. Len(posts) /\ Len(posts) \in Nat
         /\ \A i \in DOMAIN posts : /\ posts[i] \in Post /\ posts[i].payload \in Instruction
                                    /\ posts[i].payload.key \in 1 .. MaxKeys
                                    /\ posts[i].payload.key \in Keys
<1>1. posts \in Seq(Post) /\ DOMAIN posts = 1 .. Len(posts) /\ Len(posts) \in Nat
  BY DEF WritesTyped
<1>2. ASSUME NEW i \in DOMAIN posts
      PROVE  /\ posts[i] \in Post /\ posts[i].payload \in Instruction
             /\ posts[i].payload.key \in 1 .. MaxKeys /\ posts[i].payload.key \in Keys
  <2>1. posts[i] \in Post
    BY <1>1
  <2> QED
    BY <2>1 DEF Post, Instruction, Keys
<1> QED
  BY <1>1, <1>2

\* No route is written: what was over stays over.
LEMMA FenceStays ==
  ASSUME ConsoleInv, SamePayloads, RoutesGoOn, epoch' \in Nat, writes' = writes,
         ServerTyped', MovesAreSent'
  PROVE  Fence'
<1> USE DEF ConsoleInv
<1>1. WrittenIsOver'
  <2> SUFFICES ASSUME NEW i \in DOMAIN posts
               PROVE  \A p : p = posts[i].payload =>
                         /\ p.epoch <= epoch'
                         /\ \/ writes[p.key] = 0
                            \/ writes[p.key] = 1 /\ Over(p)'
    BY DEF WrittenIsOver, SamePayloads
  <2> SUFFICES ASSUME NEW p, p = posts[i].payload
               PROVE  /\ p.epoch <= epoch'
                      /\ writes[p.key] = 0 \/ (writes[p.key] = 1 /\ Over(p)')
    OBVIOUS
  <2>1. p \in Instruction
    BY PayloadsAre
  <2>2. p.epoch <= epoch /\ (writes[p.key] = 0 \/ (writes[p.key] = 1 /\ Over(p)))
    BY DEF Fence, WrittenIsOver
  <2>3. p.epoch \in Nat /\ p.route \in Nat /\ epoch \in Nat
    BY <2>1 DEF Instruction, ServerTyped
  <2>4. p.epoch <= epoch'
    BY <2>2, <2>3 DEF RoutesGoOn
  <2>5. ASSUME Over(p)
        PROVE  Over(p)'
    <3>1. CASE epoch' > epoch
      BY <3>1, <2>2, <2>3 DEF Over
    <3>2. CASE /\ epoch' = epoch
               /\ \A b \in DOMAIN route' : b \in DOMAIN route /\ route'[b].rev >= route[b].rev
      <4>1. CASE p.b \in DOMAIN route'
        <5>1. route'[p.b].rev \in Nat /\ route[p.b].rev \in Nat
          BY <4>1, <3>2 DEF ServerTyped, Route
        <5> QED
          BY <4>1, <5>1, <3>2, <2>5, <2>3 DEF Over
      <4> QED
        BY <4>1 DEF Over
    <3> QED
      BY <3>1, <3>2 DEF RoutesGoOn
  <2> QED
    BY <2>2, <2>4, <2>5
<1>2. KeysInTurn'
  BY KeysStay DEF Fence, KeysInTurn
<1> QED
  BY <1>1, <1>2, KeysStay DEF Fence

\* A route is written for p, which the revision of the route still let through.
LEMMA FenceWrites ==
  ASSUME ConsoleInv, SamePayloads, epoch' = epoch, NEW p, Sent(p), p.epoch = epoch,
         p.b \in DOMAIN route, route[p.b].rev = p.route,
         DOMAIN route' = DOMAIN route, route'[p.b].rev = p.route + 1,
         \A b \in DOMAIN route : b # p.b => route'[b] = route[b],
         writes' = [writes EXCEPT ![p.key] = @ + 1],
         ServerTyped', MovesAreSent'
  PROVE  Fence'
<1> USE DEF ConsoleInv
<1>1. p \in Instruction /\ p.key \in 1 .. MaxKeys /\ p.key \in Keys
  BY PayloadsAre DEF Sent
<1>2. writes[p.key] = 0
  <2>1. PICK i \in DOMAIN posts : posts[i].payload = p
    BY DEF Sent
  <2>2. writes[p.key] = 0 \/ Over(p)
    BY <2>1 DEF Fence, WrittenIsOver
  <2>3. p.route \in Nat /\ epoch \in Nat
    BY <1>1 DEF Instruction, ServerTyped
  <2> QED
    BY <2>2, <2>3 DEF Over
<1>3. WrittenIsOver'
  <2> SUFFICES ASSUME NEW i \in DOMAIN posts
               PROVE  \A q : q = posts[i].payload =>
                         /\ q.epoch <= epoch
                         /\ \/ writes'[q.key] = 0
                            \/ writes'[q.key] = 1 /\ Over(q)'
    BY DEF WrittenIsOver, SamePayloads
  <2> SUFFICES ASSUME NEW q, q = posts[i].payload
               PROVE  /\ q.epoch <= epoch
                      /\ writes'[q.key] = 0 \/ (writes'[q.key] = 1 /\ Over(q)')
    OBVIOUS
  <2>1. q \in Instruction /\ q.key \in 1 .. MaxKeys
    BY PayloadsAre
  <2>2. q.epoch <= epoch /\ (writes[q.key] = 0 \/ (writes[q.key] = 1 /\ Over(q)))
    BY DEF Fence, WrittenIsOver
  <2>3. q.route \in Nat /\ p.route \in Nat
    BY <2>1, <1>1 DEF Instruction
  <2>4. CASE q.key = p.key
    <3>1. q = p
      BY <2>4 DEF Fence, KeysStandForOneInstruction, Sent
    <3>2. writes'[q.key] = 1
      BY <2>4, <1>1, <1>2 DEF ServerTyped
    <3>3. Over(q)'
      BY <3>1, <2>3 DEF Over
    <3> QED
      BY <3>2, <3>3, <2>2
  <2>5. CASE q.key # p.key
    <3>1. writes'[q.key] = writes[q.key]
      BY <2>5, <2>1 DEF ServerTyped
    <3>2. ASSUME Over(q)
          PROVE  Over(q)'
      <4>1. CASE q.b = p.b
        BY <4>1, <3>2, <2>3 DEF Over
      <4>2. CASE q.b # p.b
        BY <4>2, <3>2 DEF Over
      <4> QED
        BY <4>1, <4>2
    <3> QED
      BY <3>1, <3>2, <2>2
  <2> QED
    BY <2>4, <2>5
<1>4. KeysInTurn'
  <2>1. \A k \in 1 .. MaxKeys \ Keys : writes'[k] = writes[k]
    BY <1>1 DEF ServerTyped
  <2> QED
    BY <2>1, KeysStay DEF Fence, KeysInTurn
<1> QED
  BY <1>3, <1>4, KeysStay DEF Fence

\* The page does not see the server change.
LEMMA PageStays ==
  ASSUME ConsoleInv, epoch' \in Nat, epoch' >= epoch, UNCHANGED browser
  PROVE  ListTyped' /\ WritesTyped' /\ Rows(drafts)' /\ CancelsHold' /\ SamePayloads
<1> USE DEF ConsoleInv, browser, page
<1>1. ListTyped'
  <2>1. ASSUME read.data # None
        PROVE  Listed(read.data)'
    BY <2>1 DEF ListTyped, Listed, ServerTyped
  <2>2. ASSUME version # None
        PROVE  version.epoch <= epoch'
    BY <2>2 DEF ListTyped, ServerTyped, Version
  <2> QED
    BY <2>1, <2>2 DEF ListTyped, Listed
<1>2. WritesTyped' /\ CancelsHold' /\ SamePayloads
  BY DEF WritesTyped, CancelsHold, SamePayloads
<1>3. Rows(drafts)'
  BY DEF Rows, TellsTheLast, FrozenIsLast, AttemptIsLast, NoticeIsLast, Newest, Sent
<1> QED
  BY <1>1, <1>2, <1>3

-----------------------------------------------------------------------------
\* The steps of the server alone

\* A route is given another target.
LEMMA RouteTaken ==
  ASSUME ServerTyped, NEW b \in DOMAIN route, NEW t \in Targets,
         route' = [route EXCEPT ![b].target = t, ![b].rev = @ + 1]
  PROVE  /\ DOMAIN route' = DOMAIN route /\ \A q \in DOMAIN route : q # b => route'[q] = route[q]
         /\ route'[b] \in Route /\ route'[b].rev = route[b].rev + 1
<1> DEFINE r == route[b]
           h == [r EXCEPT !.target = t]
           q == [h EXCEPT !.rev = r.rev + 1]
<1>1. r \in [target : Targets, rev : Nat, busy : BOOLEAN]
  BY DEF Route, ServerTyped
<1>2. /\ DOMAIN route' = DOMAIN route /\ \A x \in DOMAIN route : x # b => route'[x] = route[x]
      /\ route'[b] = q
  OBVIOUS
<1> HIDE DEF r
<1>3. h \in [target : Targets, rev : Nat, busy : BOOLEAN]
  BY <1>1
<1> HIDE DEF h
<1>4. q \in [target : Targets, rev : Nat, busy : BOOLEAN] /\ q.rev = r.rev + 1
  BY <1>1, <1>3
<1> HIDE DEF q
<1> QED
  BY <1>2, <1>4 DEF r, Route

LEMMA RequestStartsStep ==
  ASSUME ConsoleInv, NEW b \in DOMAIN route, RequestStarts(b)
  PROVE  ConsoleInv'
<1> USE DEF ConsoleInv
<1> DEFINE due == {o \in Waiting(live) : live[o].of.b = b}
<1>1. /\ epoch' = epoch /\ up' = up /\ rev' = rev /\ told' = told /\ UNCHANGED browser
      /\ epoch \in Nat
  BY DEF RequestStarts, ServerTyped
<1>2. ListTyped' /\ WritesTyped' /\ Rows(drafts)' /\ CancelsHold' /\ SamePayloads
  BY <1>1, PageStays
<1>3. route[b] \in Route /\ up
  BY DEF ServerTyped
<1>4. CASE route' = [route EXCEPT ![b].busy = TRUE] /\ UNCHANGED <<live, writes>>
  <2>1. /\ DOMAIN route' = DOMAIN route
        /\ \A q \in DOMAIN route : route'[q] \in Route /\ route'[q].rev = route[q].rev
    BY <1>4, <1>3 DEF ServerTyped, Route
  <2>2. ServerTyped'
    BY <1>1, <1>4, <2>1 DEF ServerTyped
  <2>3. RoutesGoOn
    BY <1>1, <2>1 DEF RoutesGoOn, ServerTyped, Route
  <2>4. MovesAreSent'
    BY <1>1, <1>2, <1>4, KeysStay DEF MovesAreSent, Fence
  <2> QED
    BY <1>1, <1>2, <1>4, <2>2, <2>3, <2>4, FenceStays
<1>5. ASSUME NEW o \in due,
             route[b].rev = live[o].of.route,
             route' = [route EXCEPT ![b] = [target |-> live[o].of.dst, rev |-> @.rev + 1,
                                            busy |-> TRUE]],
             writes' = [writes EXCEPT ![live[o].key] = @ + 1],
             live' = Without([live EXCEPT ![o].state = "applied"], due \ {o})
      PROVE  ConsoleInv'
  <2> DEFINE p == live[o].of
  <2>1. o \in DOMAIN live /\ live[o] \in LiveMove /\ p \in Instruction /\ p.b = b
    BY DEF ServerTyped, Waiting, LiveMove
  <2>2. Sent(p) /\ p.epoch = epoch /\ live[o].key = p.key /\ p.key \in 1 .. MaxKeys
    BY <2>1 DEF Fence, MovesAreSent, Instruction
  <2>3. /\ DOMAIN live' \subseteq DOMAIN live
        /\ \A x \in DOMAIN live' : /\ live'[x] \in LiveMove /\ live'[x].of = live[x].of
                                   /\ live'[x].key = live[x].key
    BY <1>5, <2>1 DEF Without, ServerTyped, LiveMove
  <2>4. /\ DOMAIN route' = DOMAIN route /\ route'[b] \in Route /\ route'[b].rev = route[b].rev + 1
        /\ \A q \in DOMAIN route : q # b => route'[q] = route[q]
    BY <1>3, <1>5, <2>1 DEF Route, Instruction, Targets
  <2>5. writes' \in [1 .. MaxKeys -> Nat]
    BY <1>5, <2>2 DEF ServerTyped
  <2>6. ServerTyped'
    BY <1>1, <1>3, <2>3, <2>4, <2>5 DEF ServerTyped
  <2>7. MovesAreSent'
    BY <1>1, <1>2, <2>3, KeysStay DEF MovesAreSent, Fence
  <2>8. p.b \in DOMAIN route /\ route[p.b].rev = p.route /\ route'[p.b].rev = p.route + 1
    BY <1>5, <2>1, <2>4
  <2>9. writes' = [writes EXCEPT ![p.key] = @ + 1]
    BY <1>5, <2>2
  <2> HIDE DEF p
  <2>10. Fence'
    BY <1>1, <1>2, <2>1, <2>2, <2>4, <2>6, <2>7, <2>8, <2>9, FenceWrites
  <2> QED
    BY <1>2, <2>6, <2>10
<1> QED
  BY <1>4, <1>5 DEF RequestStarts

LEMMA RequestEndsStep ==
  ASSUME ConsoleInv, NEW b \in DOMAIN route, RequestEnds(b)
  PROVE  ConsoleInv'
<1> USE DEF ConsoleInv
<1>1. /\ epoch' = epoch /\ up' = up /\ rev' = rev /\ live' = live /\ writes' = writes
      /\ told' = told /\ UNCHANGED browser /\ epoch \in Nat
  BY DEF RequestEnds, ServerTyped
<1>2. ListTyped' /\ WritesTyped' /\ Rows(drafts)' /\ CancelsHold' /\ SamePayloads
  BY <1>1, PageStays
<1>3. /\ DOMAIN route' = DOMAIN route
      /\ \A q \in DOMAIN route : route'[q] \in Route /\ route'[q].rev = route[q].rev
  BY DEF RequestEnds, ServerTyped, Route
<1>4. ServerTyped'
  BY <1>1, <1>3 DEF ServerTyped
<1>5. RoutesGoOn
  BY <1>1, <1>3 DEF RoutesGoOn, ServerTyped, Route
<1>6. MovesAreSent'
  BY <1>1, <1>2, KeysStay DEF MovesAreSent, Fence
<1> QED
  BY <1>1, <1>2, <1>4, <1>5, <1>6, FenceStays

\* Moves are taken from what waits, and routes go on.
LEMMA ServerStep ==
  ASSUME ConsoleInv, UNCHANGED browser, writes' = writes, up' \in BOOLEAN, rev' \in Nat,
         epoch' = epoch, RoutesGoOn,
         DOMAIN route' \subseteq Bindings, \A b \in DOMAIN route' : route'[b] \in Route,
         DOMAIN live' \subseteq DOMAIN live, \A o \in DOMAIN live' : live'[o] = live[o],
         DOMAIN told' \subseteq DOMAIN told, \A k \in DOMAIN told' : told'[k] = told[k],
         ~up' => DOMAIN route' = {} /\ DOMAIN live' = {}
  PROVE  ConsoleInv'
<1> USE DEF ConsoleInv
<1>1. epoch \in Nat
  BY DEF ServerTyped
<1>2. ListTyped' /\ WritesTyped' /\ Rows(drafts)' /\ CancelsHold' /\ SamePayloads
  BY <1>1, PageStays
<1>3. ServerTyped'
  BY DEF ServerTyped
<1>4. MovesAreSent'
  BY <1>2, KeysStay DEF MovesAreSent, Fence
<1> QED
  BY <1>1, <1>2, <1>3, <1>4, FenceStays

LEMMA ReroutedStep ==
  ASSUME ConsoleInv, NEW b \in DOMAIN route, Rerouted(b)
  PROVE  ConsoleInv'
<1> USE DEF ConsoleInv
<1>1. /\ epoch' = epoch /\ up' = up /\ rev' = rev /\ writes' = writes /\ UNCHANGED browser
      /\ epoch \in Nat /\ up \in BOOLEAN /\ up /\ rev \in Nat
  BY DEF Rerouted, ServerTyped
<1>2. /\ DOMAIN live' \subseteq DOMAIN live /\ \A o \in DOMAIN live' : live'[o] = live[o]
      /\ DOMAIN told' \subseteq DOMAIN told /\ \A k \in DOMAIN told' : told'[k] = told[k]
  BY DEF Rerouted, Without
<1>3. /\ DOMAIN route' \subseteq DOMAIN route
      /\ \A q \in DOMAIN route' : route'[q] \in Route /\ route'[q].rev >= route[q].rev
  <2>1. ASSUME NEW t \in Targets, route' = [route EXCEPT ![b].target = t, ![b].rev = @ + 1]
        PROVE  /\ DOMAIN route' = DOMAIN route
               /\ \A q \in DOMAIN route' : route'[q] \in Route /\ route'[q].rev >= route[q].rev
    <3>1. /\ DOMAIN route' = DOMAIN route /\ \A q \in DOMAIN route : q # b => route'[q] = route[q]
          /\ route'[b] \in Route /\ route'[b].rev = route[b].rev + 1
      BY <2>1, RouteTaken
    <3>2. \A q \in DOMAIN route : route[q] \in Route /\ route[q].rev \in Nat
      BY DEF ServerTyped, Route
    <3> QED
      BY <3>1, <3>2
  <2>2. CASE route' = Without(route, {b})
    <3>1. DOMAIN route' \subseteq DOMAIN route /\ \A q \in DOMAIN route' : route'[q] = route[q]
      BY <2>2 DEF Without
    <3>2. \A q \in DOMAIN route : route[q] \in Route /\ route[q].rev >= route[q].rev
      BY DEF ServerTyped, Route
    <3> QED
      BY <3>1, <3>2
  <2> QED
    BY <2>1, <2>2 DEF Rerouted
<1>4. RoutesGoOn
  BY <1>1, <1>3 DEF RoutesGoOn
<1>5. DOMAIN route' \subseteq Bindings /\ \A q \in DOMAIN route' : route'[q] \in Route
  BY <1>3 DEF ServerTyped
<1> QED
  BY <1>1, <1>2, <1>4, <1>5, ServerStep

LEMMA SettlesStep ==
  ASSUME ConsoleInv, Settles
  PROVE  ConsoleInv'
<1> USE DEF ConsoleInv
<1>1. /\ epoch' = epoch /\ up' = up /\ rev' = rev /\ writes' = writes /\ UNCHANGED browser
      /\ epoch \in Nat /\ up \in BOOLEAN /\ rev \in Nat /\ route' = route
  BY DEF Settles, ServerTyped
<1>2. /\ DOMAIN live' \subseteq DOMAIN live /\ \A o \in DOMAIN live' : live'[o] = live[o]
      /\ DOMAIN told' \subseteq DOMAIN told /\ \A k \in DOMAIN told' : told'[k] = told[k]
  BY DEF Settles, Without
<1>3. RoutesGoOn
  BY <1>1 DEF RoutesGoOn, ServerTyped, Route
<1>4. DOMAIN route' \subseteq Bindings /\ \A q \in DOMAIN route' : route'[q] \in Route
  BY <1>1 DEF ServerTyped
<1>5. ~up' => DOMAIN route' = {} /\ DOMAIN live' = {}
  BY <1>1, <1>2 DEF ServerTyped
<1> QED
  BY <1>1, <1>2, <1>3, <1>4, <1>5, ServerStep

LEMMA SavedStep ==
  ASSUME ConsoleInv, Saved
  PROVE  ConsoleInv'
<1> USE DEF ConsoleInv
<1>1. /\ epoch' = epoch /\ up' = up /\ rev' = rev + 1 /\ writes' = writes /\ UNCHANGED browser
      /\ epoch \in Nat /\ up \in BOOLEAN /\ rev' \in Nat /\ route' = route
  BY DEF Saved, ServerTyped
<1>2. /\ DOMAIN live' \subseteq DOMAIN live /\ \A o \in DOMAIN live' : live'[o] = live[o]
      /\ DOMAIN told' \subseteq DOMAIN told /\ \A k \in DOMAIN told' : told'[k] = told[k]
  BY DEF Saved, Without
<1>3. RoutesGoOn
  BY <1>1 DEF RoutesGoOn, ServerTyped, Route
<1>4. DOMAIN route' \subseteq Bindings /\ \A q \in DOMAIN route' : route'[q] \in Route
  BY <1>1 DEF ServerTyped
<1>5. ~up' => DOMAIN route' = {} /\ DOMAIN live' = {}
  BY <1>1, <1>2 DEF ServerTyped
<1> QED
  BY <1>1, <1>2, <1>3, <1>4, <1>5, ServerStep

LEMMA StopsStep ==
  ASSUME ConsoleInv, Stops
  PROVE  ConsoleInv'
<1> USE DEF ConsoleInv
<1>1. /\ epoch' = epoch /\ up' = FALSE /\ rev' = rev /\ writes' = writes /\ UNCHANGED browser
      /\ epoch \in Nat /\ rev \in Nat /\ DOMAIN route' = {} /\ DOMAIN live' = {}
      /\ DOMAIN told' = {}
  BY DEF Stops, ServerTyped, EmptyMap
<1>2. RoutesGoOn
  BY <1>1 DEF RoutesGoOn
<1> QED
  BY <1>1, <1>2, ServerStep

LEMMA StartsStep ==
  ASSUME ConsoleInv, Starts
  PROVE  ConsoleInv'
<1> USE DEF ConsoleInv
<1>1. /\ epoch' = epoch + 1 /\ up' = TRUE /\ rev' = 1 /\ writes' = writes /\ UNCHANGED browser
      /\ epoch \in Nat /\ live' = live /\ DOMAIN live = {} /\ route' \in Routes /\ told' = told
  BY DEF Starts, ServerTyped
<1>2. DOMAIN route' \subseteq Bindings /\ \A q \in DOMAIN route' : route'[q] \in Route
  <2>1. PICK B \in SUBSET Bindings :
          route' \in [B -> {[target |-> Here, rev |-> 1, busy |-> FALSE]}]
    BY <1>1 DEF Routes
  <2>2. [target |-> Here, rev |-> 1, busy |-> FALSE] \in Route
    BY DEF Route, Targets
  <2> QED
    BY <2>1, <2>2
<1>3. ListTyped' /\ WritesTyped' /\ Rows(drafts)' /\ CancelsHold' /\ SamePayloads
  BY <1>1, PageStays
<1>4. ServerTyped' /\ MovesAreSent'
  BY <1>1, <1>2 DEF ServerTyped, MovesAreSent
<1>5. RoutesGoOn
  BY <1>1 DEF RoutesGoOn
<1> QED
  BY <1>1, <1>3, <1>4, <1>5, FenceStays

-----------------------------------------------------------------------------
\* The server hears of a write

\* An answer is given where none was: nothing else on the page is told by it.
LEMMA PageHears ==
  ASSUME ConsoleInv, NEW i \in DOMAIN posts, posts[i].answer = None,
         NEW answer \in Says, NEW op \in Nat,
         posts' = [posts EXCEPT ![i].answer = answer, ![i].op = op],
         epoch' = epoch, UNCHANGED <<page, drafts, cancelling, read, deletes>>
  PROVE  ListTyped' /\ WritesTyped' /\ Rows(drafts)' /\ CancelsHold' /\ SamePayloads
<1> USE DEF ConsoleInv, page
<1>1. ListTyped' /\ CancelsHold'
  BY DEF ListTyped, Listed, CancelsHold
<1> DEFINE r == posts[i]
           h == [r EXCEPT !.answer = answer]
           q == [h EXCEPT !.op = op]
<1>2. r \in Post /\ posts \in Seq(Post) /\ DOMAIN posts = 1 .. Len(posts)
  BY PayloadsAre
<1>3. /\ posts' = [posts EXCEPT ![i] = q]
      /\ DOMAIN posts' = DOMAIN posts /\ \A j \in DOMAIN posts : j # i => posts'[j] = posts[j]
      /\ posts'[i] = q
  BY <1>2
<1> HIDE DEF r
<1>4. h \in Post /\ h.payload = r.payload /\ h.version = r.version /\ h.waiting = r.waiting
  BY <1>2 DEF Post
<1> HIDE DEF h
<1>5. q \in Post /\ q.payload = r.payload /\ q.version = r.version /\ q.waiting = r.waiting
  BY <1>4 DEF Post
<1> HIDE DEF q
<1>6. WritesTyped'
  <2>1. posts' \in Seq(Post)
    <3>1. q \in Post
      BY <1>5
    <3>2. [posts EXCEPT ![i] = q] \in Seq(Post)
      BY <1>2, <3>1, Replaced
    <3> QED
      BY <1>3, <3>2, Zenon
  <2>2. deletes' = deletes
    OBVIOUS
  <2> QED
    BY <2>1, <2>2 DEF WritesTyped
<1>7. /\ SamePayloads
      /\ \A j \in DOMAIN posts : /\ posts'[j].version = posts[j].version
                                 /\ posts'[j].waiting = posts[j].waiting
                                 /\ posts[j].answer # None => posts'[j].answer = posts[j].answer
  BY <1>3, <1>5 DEF SamePayloads, r
<1>8. Rows(drafts)'
  <2> SUFFICES ASSUME NEW b \in Bindings, NEW d, d = drafts[b]
               PROVE  TellsTheLast(b, d)'
    BY DEF Rows
  <2>1. FrozenIsLast(b, d) /\ AttemptIsLast(b, d) /\ NoticeIsLast(b, d)
    BY DEF Rows, TellsTheLast
  <2>2. FrozenIsLast(b, d)'
    BY <1>7, <2>1, KeysStay DEF FrozenIsLast
  <2>3. AttemptIsLast(b, d)'
    <3>1. DOMAIN posts' = DOMAIN posts /\ \A x, k : Newest(x, k)' <=> Newest(x, k)
      BY <1>7, KeysStay DEF SamePayloads
    <3> QED
      BY <1>7, <2>1, <3>1 DEF AttemptIsLast, SamePayloads
  <2>4. NoticeIsLast(b, d)'
    <3>1. DOMAIN posts' = DOMAIN posts /\ \A x, k : Newest(x, k)' <=> Newest(x, k)
      BY <1>7, KeysStay DEF SamePayloads
    <3> QED
      BY <1>7, <2>1, <3>1 DEF NoticeIsLast, SamePayloads
  <2> QED
    BY <2>2, <2>3, <2>4 DEF TellsTheLast
<1> QED
  BY <1>1, <1>6, <1>7, <1>8

\* A runtime keeps no route of the instruction.
LEMMA HearKeeps ==
  ASSUME ConsoleInv, SamePayloads, ListTyped', WritesTyped', Rows(drafts)', CancelsHold',
         UNCHANGED <<up, epoch, rev, route, writes>>,
         DOMAIN live' \subseteq Nat,
         \A o \in DOMAIN live' :
           /\ live'[o] \in LiveMove
           /\ Sent(live'[o].of) /\ live'[o].of.epoch = epoch /\ live'[o].key = live'[o].of.key,
         \A k \in DOMAIN told' : told'[k].answer \in Says,
         ~up => DOMAIN live' = {}
  PROVE  ConsoleInv'
<1> USE DEF ConsoleInv
<1>1. ServerTyped'
  BY DEF ServerTyped
<1>2. MovesAreSent'
  BY KeysStay DEF MovesAreSent
<1>3. RoutesGoOn
  BY DEF RoutesGoOn, ServerTyped, Route
<1>4. epoch' \in Nat
  BY DEF ServerTyped
<1> QED
  BY <1>1, <1>2, <1>3, <1>4, FenceStays

LEMMA NextOpIsNumber == ASSUME WritesTyped PROVE NextOp \in Nat
<1>1. IsFiniteSet(DOMAIN posts)
  BY PayloadsAre, FS_Interval
<1>2. IsFiniteSet({i \in DOMAIN posts : posts[i].op # 0})
  BY <1>1, FS_Subset
<1> QED
  BY <1>2, FS_CardinalityType DEF NextOp

\* Keeping the answer to a key.
LEMMA ToldKeeps ==
  ASSUME ServerTyped, NEW k, NEW said, said.answer \in Says, told' = Put(told, k, said)
  PROVE  \A x \in DOMAIN told' : told'[x].answer \in Says
BY DEF ServerTyped, Put

LEMMA HearStep ==
  ASSUME ConsoleInv, NEW i \in DOMAIN posts, Hear(i)
  PROVE  ConsoleInv'
<1> USE DEF ConsoleInv
<1> DEFINE p == posts[i].payload
           Say(answer, op) == posts' = [posts EXCEPT ![i].answer = answer, ![i].op = op]
           Keep(answer, op) == told' = Put(told, p.key, [answer |-> answer, op |-> op, of |-> p])
<1>1. /\ posts[i].answer = None /\ UNCHANGED <<up, epoch, rev, page, drafts, cancelling, read, deletes>>
      /\ p \in Instruction /\ Sent(p) /\ p.key \in 1 .. MaxKeys /\ p.b \in Bindings
      /\ p.dst \in Targets /\ p.route \in Nat
  BY PayloadsAre DEF Hear, Sent, Instruction, Targets
<1>2. NextOp \in Nat /\ 0 \in Nat
  BY NextOpIsNumber
<1>3. ASSUME NEW answer \in Says, NEW op \in Nat, Say(answer, op)
      PROVE  ListTyped' /\ WritesTyped' /\ Rows(drafts)' /\ CancelsHold' /\ SamePayloads
  BY <1>1, <1>3, PageHears
<1>4. ASSUME NEW answer \in Says, NEW op \in Nat, Say(answer, op), UNCHANGED <<route, live, writes>>,
             \A x \in DOMAIN told' : told'[x].answer \in Says
      PROVE  ConsoleInv'
  <2>1. DOMAIN live' \subseteq Nat /\ \A o \in DOMAIN live' : live'[o] \in LiveMove
    BY <1>4 DEF ServerTyped
  <2>2. \A o \in DOMAIN live' :
          Sent(live'[o].of) /\ live'[o].of.epoch = epoch /\ live'[o].key = live'[o].of.key
    BY <1>4 DEF Fence, MovesAreSent
  <2>3. ~up => DOMAIN live' = {}
    BY <1>4 DEF ServerTyped
  <2> HIDE DEF Say, p
  <2> QED
    BY <1>1, <1>3, <1>4, <2>1, <2>2, <2>3, HearKeeps
<1>5. "refused" \in Says /\ "applied" \in Says /\ "pending_boundary" \in Says
  BY DEF Says
<1>6. ASSUME NEW answer \in Says, NEW op \in Nat, Keep(answer, op)
      PROVE  \A x \in DOMAIN told' : told'[x].answer \in Says
  BY <1>6, ToldKeeps
<1>7. \A x \in DOMAIN told : told[x].answer \in Says
  BY DEF ServerTyped
<1>8. CASE Say("refused", 0) /\ UNCHANGED <<route, told, live, writes>>
  BY <1>2, <1>4, <1>5, <1>7, <1>8
<1>9. CASE /\ p.key \in DOMAIN told /\ UNCHANGED <<route, told, live, writes>>
           /\ Say(IF told[p.key].of = p THEN told[p.key].answer ELSE "refused", 0)
  <2>1. (IF told[p.key].of = p THEN told[p.key].answer ELSE "refused") \in Says
    BY <1>5, <1>7, <1>9
  <2> HIDE DEF Say, p
  <2> QED
    BY <1>2, <1>4, <1>7, <1>9, <2>1
<1>10. CASE Say("refused", NextOp) /\ Keep("refused", NextOp) /\ UNCHANGED <<route, live, writes>>
  <2>1. \A x \in DOMAIN told' : told'[x].answer \in Says
    BY <1>2, <1>5, <1>6, <1>10
  <2> HIDE DEF Say, Keep, p
  <2> QED
    BY <1>2, <1>4, <1>5, <1>10, <2>1
<1>11. ASSUME NEW state \in {"applied", "pending_boundary"}, NEW o \in Nat,
              NEW kept, DOMAIN kept \subseteq DOMAIN live, \A x \in DOMAIN kept : kept[x] = live[x],
              live' = Put(kept, o, [key |-> p.key, state |-> state, of |-> p]), p.epoch = epoch
       PROVE  /\ DOMAIN live' \subseteq Nat
              /\ \A x \in DOMAIN live' :
                   /\ live'[x] \in LiveMove
                   /\ Sent(live'[x].of) /\ live'[x].of.epoch = epoch
                   /\ live'[x].key = live'[x].of.key
  <2> DEFINE new == [key |-> p.key, state |-> state, of |-> p]
  <2>1. new \in LiveMove /\ new.of = p /\ new.key = p.key
    BY <1>1 DEF LiveMove
  <2> HIDE DEF p, new
  <2>2. live' = Put(kept, o, new)
    BY <1>11 DEF p, new
  <2>3. /\ DOMAIN live' \subseteq Nat
        /\ \A x \in DOMAIN live' : live'[x] = new \/ (x \in DOMAIN live /\ live'[x] = live[x])
    BY <1>11, <2>2 DEF Put, ServerTyped
  <2>4. \A x \in DOMAIN live : /\ live[x] \in LiveMove /\ Sent(live[x].of)
                               /\ live[x].of.epoch = epoch /\ live[x].key = live[x].of.key
    BY DEF ServerTyped, Fence, MovesAreSent
  <2> QED
    BY <1>1, <1>11, <2>1, <2>3, <2>4
<1>12. CASE /\ up /\ p.epoch = epoch /\ Current(p) /\ route[p.b].busy
            /\ Say("pending_boundary", NextOp) /\ Keep("pending_boundary", NextOp)
            /\ live' = Put(live, NextOp, [key |-> p.key, state |-> "pending_boundary", of |-> p])
            /\ UNCHANGED <<route, writes>>
  <2>1. \A x \in DOMAIN told' : told'[x].answer \in Says
    BY <1>2, <1>5, <1>6, <1>12
  <2>2. /\ DOMAIN live' \subseteq Nat
        /\ \A x \in DOMAIN live' : /\ live'[x] \in LiveMove
                                   /\ Sent(live'[x].of) /\ live'[x].of.epoch = epoch
                                   /\ live'[x].key = live'[x].of.key
    BY <1>2, <1>11, <1>12
  <2>3. ListTyped' /\ WritesTyped' /\ Rows(drafts)' /\ CancelsHold' /\ SamePayloads
    BY <1>2, <1>3, <1>5, <1>12
  <2> HIDE DEF Say, Keep, p
  <2> QED
    BY <1>1, <1>12, <2>1, <2>2, <2>3, HearKeeps
<1>13. CASE /\ up /\ p.epoch = epoch /\ Current(p) /\ ~route[p.b].busy
            /\ Say("applied", NextOp) /\ Keep("applied", NextOp)
            /\ route' = [route EXCEPT ![p.b].target = p.dst, ![p.b].rev = @ + 1]
            /\ writes' = [writes EXCEPT ![p.key] = @ + 1]
            /\ live' = Put(Without(live, {o \in Waiting(live) : live[o].of.b = p.b}),
                           NextOp, [key |-> p.key, state |-> "applied", of |-> p])
  <2> DEFINE kept == Without(live, {o \in Waiting(live) : live[o].of.b = p.b})
  <2>1. \A x \in DOMAIN told' : told'[x].answer \in Says
    BY <1>2, <1>5, <1>6, <1>13
  <2>2. DOMAIN kept \subseteq DOMAIN live /\ \A x \in DOMAIN kept : kept[x] = live[x]
    BY DEF Without
  <2>3. live' = Put(kept, NextOp, [key |-> p.key, state |-> "applied", of |-> p])
    BY <1>13
  <2> HIDE DEF kept
  <2>4. /\ DOMAIN live' \subseteq Nat
        /\ \A x \in DOMAIN live' : /\ live'[x] \in LiveMove
                                   /\ Sent(live'[x].of) /\ live'[x].of.epoch = epoch
                                   /\ live'[x].key = live'[x].of.key
    BY <1>2, <1>11, <1>13, <2>2, <2>3
  <2>5. ListTyped' /\ WritesTyped' /\ Rows(drafts)' /\ CancelsHold' /\ SamePayloads
    BY <1>2, <1>3, <1>5, <1>13
  <2>6. p.b \in DOMAIN route /\ route[p.b].rev = p.route /\ epoch' = epoch /\ epoch \in Nat
    BY <1>1, <1>13 DEF Current, ServerTyped
  <2>7. /\ DOMAIN route' = DOMAIN route /\ route'[p.b] \in Route /\ route'[p.b].rev = p.route + 1
        /\ \A q \in DOMAIN route : q # p.b => route'[q] = route[q]
    BY <1>1, <1>13, <2>6, RouteTaken
  <2>8. writes' = [writes EXCEPT ![p.key] = @ + 1] /\ writes' \in [1 .. MaxKeys -> Nat]
    BY <1>1, <1>13 DEF ServerTyped
  <2>9. up /\ p.epoch = epoch
    BY <1>13
  <2> HIDE DEF Say, Keep
  <2>10. ServerTyped'
    <3>1. \A q \in DOMAIN route' : route'[q] \in Route
      BY <2>7 DEF ServerTyped
    <3>2. \A o \in DOMAIN live' : live'[o] \in LiveMove
      BY <2>4
    <3> HIDE DEF p
    <3> QED
      BY <1>1, <2>1, <2>4, <2>6, <2>7, <2>8, <2>9, <3>1, <3>2 DEF ServerTyped
  <2>11. MovesAreSent'
    BY <1>1, <2>4, <2>5, KeysStay DEF MovesAreSent
  <2>12. PICK q : q = p
    OBVIOUS
  <2> HIDE DEF p
  <2>13. Fence'
    BY <1>1, <2>5, <2>6, <2>7, <2>8, <2>9, <2>10, <2>11, <2>12, FenceWrites
  <2> QED
    BY <2>5, <2>10, <2>13
<1>14. Hear(i) =>
         \/ Say("refused", 0) /\ UNCHANGED <<route, told, live, writes>>
         \/ /\ p.key \in DOMAIN told /\ UNCHANGED <<route, told, live, writes>>
            /\ Say(IF told[p.key].of = p THEN told[p.key].answer ELSE "refused", 0)
         \/ Say("refused", NextOp) /\ Keep("refused", NextOp) /\ UNCHANGED <<route, live, writes>>
         \/ /\ up /\ p.epoch = epoch /\ Current(p) /\ route[p.b].busy
            /\ Say("pending_boundary", NextOp) /\ Keep("pending_boundary", NextOp)
            /\ live' = Put(live, NextOp, [key |-> p.key, state |-> "pending_boundary", of |-> p])
            /\ UNCHANGED <<route, writes>>
         \/ /\ up /\ p.epoch = epoch /\ Current(p) /\ ~route[p.b].busy
            /\ Say("applied", NextOp) /\ Keep("applied", NextOp)
            /\ route' = [route EXCEPT ![p.b].target = p.dst, ![p.b].rev = @ + 1]
            /\ writes' = [writes EXCEPT ![p.key] = @ + 1]
            /\ live' = Put(Without(live, {o \in Waiting(live) : live[o].of.b = p.b}),
                           NextOp, [key |-> p.key, state |-> "applied", of |-> p])
  BY Zenon DEF Hear
<1> HIDE DEF Say, Keep, p
<1> QED
  BY <1>8, <1>9, <1>10, <1>12, <1>13, <1>14

LEMMA HearCancelStep ==
  ASSUME ConsoleInv, NEW i \in DOMAIN deletes, HearCancel(i)
  PROVE  ConsoleInv'
<1> USE DEF ConsoleInv
<1>1. /\ UNCHANGED <<up, epoch, rev, route, told, writes, page, drafts, cancelling, read, posts>>
      /\ deletes' = [deletes EXCEPT ![i].heard = TRUE]
      /\ live' = Without(live, Waiting(live) \cap {deletes[i].op})
  BY DEF HearCancel
<1>2. deletes \in Seq(Delete) /\ deletes[i] \in Delete
  BY DEF WritesTyped
<1>3. /\ deletes' \in Seq(Delete) /\ DOMAIN deletes' = DOMAIN deletes
      /\ \A j \in DOMAIN deletes : deletes'[j].waiting = deletes[j].waiting
  <2> DEFINE q == [deletes[i] EXCEPT !.heard = TRUE]
  <2>1. deletes' = [deletes EXCEPT ![i] = q]
    BY <1>1
  <2>2. q \in Delete /\ q.waiting = deletes[i].waiting
    BY <1>2 DEF Delete
  <2> HIDE DEF q
  <2> QED
    BY <1>2, <2>1, <2>2, Replaced
<1>4. WritesTyped' /\ CancelsHold' /\ SamePayloads
  BY <1>1, <1>3 DEF WritesTyped, CancelsHold, SamePayloads
<1>5. ListTyped'
  BY <1>1 DEF ListTyped, Listed, page
<1>6. Rows(drafts)'
  BY <1>1 DEF Rows, TellsTheLast, FrozenIsLast, AttemptIsLast, NoticeIsLast, Newest, Sent, page
<1>7. DOMAIN live' \subseteq DOMAIN live /\ \A o \in DOMAIN live' : live'[o] = live[o]
  BY <1>1 DEF Without
<1>8. /\ DOMAIN live' \subseteq Nat
      /\ \A o \in DOMAIN live' :
           /\ live'[o] \in LiveMove
           /\ Sent(live'[o].of) /\ live'[o].of.epoch = epoch /\ live'[o].key = live'[o].of.key
      /\ ~up => DOMAIN live' = {}
  BY <1>7 DEF ServerTyped, Fence, MovesAreSent
<1>9. \A k \in DOMAIN told' : told'[k].answer \in Says
  BY <1>1 DEF ServerTyped
<1> QED
  BY <1>1, <1>4, <1>5, <1>6, <1>8, <1>9, HearKeeps

-----------------------------------------------------------------------------
\* What a change of the list does to a row

LEMMA EmptyTells == \A b : Empty \in Draft /\ TellsTheLast(b, Empty) /\ Empty.attempt = 0
<1>1. Empty \in Draft /\ Empty.attempt = 0 /\ ~Empty.submitting /\ Empty.payload = None
  BY DEF Empty, Draft
<1>2. Empty.notice.about = NoKey
  BY DEF Empty
<1> QED
  BY <1>1, <1>2 DEF TellsTheLast, FrozenIsLast, AttemptIsLast, NoticeIsLast

LEMMA DetachedTells ==
  ASSUME WritesTyped, NEW ds, Rows(ds)
  PROVE  Rows(Detached(ds)) /\ \A b \in Bindings : Detached(ds)[b].attempt = 0
<1> SUFFICES ASSUME NEW b \in Bindings
             PROVE  /\ Detached(ds)[b] \in Draft /\ TellsTheLast(b, Detached(ds)[b])
                    /\ Detached(ds)[b].attempt = 0
  BY DEF Rows, Detached
<1> PICK d : d = ds[b]
  OBVIOUS
<1>1. d \in Draft /\ TellsTheLast(b, d)
  BY DEF Rows
<1> DEFINE off == [d EXCEPT !.attempt = 0, !.submitting = FALSE]
           told1 == [about |-> d.payload.key, says |-> "unknown"]
           unsure == [off EXCEPT !.uncertain = TRUE, !.notice = told1]
<1>2. Detached(ds)[b] = IF ~(d.attempt # 0 \/ d.submitting) THEN d
                        ELSE IF d.retired \/ d.payload = None THEN off ELSE unsure
  BY DEF Detached
<1>3. /\ off \in Draft /\ off.attempt = 0 /\ ~off.submitting
      /\ off.payload = d.payload /\ off.notice = d.notice
  BY <1>1 DEF Draft
<1>4. TellsTheLast(b, off)
  <2> HIDE DEF off
  <2> QED
    BY <1>1, <1>3 DEF TellsTheLast, FrozenIsLast, AttemptIsLast, NoticeIsLast
<1>5. ASSUME d.payload # None
      PROVE  unsure \in Draft /\ TellsTheLast(b, unsure) /\ unsure.attempt = 0
  <2>1. d.payload \in Instruction /\ d.payload.key \in Nat
    BY <1>1, <1>5 DEF Draft, Instruction
  <2>2. told1 \in [about : Nat \cup {NoKey}, says : Says \cup {None}]
    BY <2>1 DEF Says
  <2>3. told1.about = d.payload.key /\ told1.says = "unknown"
    OBVIOUS
  <2> HIDE DEF off, told1
  <2>4. /\ unsure \in Draft /\ unsure.attempt = 0 /\ ~unsure.submitting
        /\ unsure.payload = d.payload /\ unsure.notice = told1
    BY <1>3, <2>2 DEF Draft
  <2> HIDE DEF unsure
  <2> QED
    BY <1>1, <1>5, <2>3, <2>4 DEF TellsTheLast, FrozenIsLast, AttemptIsLast, NoticeIsLast
<1>6. CASE ~(d.attempt # 0 \/ d.submitting)
  BY <1>1, <1>2, <1>6
<1>7. CASE (d.attempt # 0 \/ d.submitting) /\ (d.retired \/ d.payload = None)
  <2> HIDE DEF off
  <2> QED
    BY <1>2, <1>3, <1>4, <1>7
<1>8. CASE (d.attempt # 0 \/ d.submitting) /\ ~(d.retired \/ d.payload = None)
  <2> HIDE DEF unsure
  <2> QED
    BY <1>2, <1>5, <1>8
<1> QED
  BY <1>6, <1>7, <1>8

LEMMA RetiredTells ==
  ASSUME WritesTyped, NEW ds, Rows(ds)
  PROVE  Rows(Retired(ds)) /\ \A b \in Bindings : Retired(ds)[b].attempt = 0
<1> SUFFICES ASSUME NEW b \in Bindings
             PROVE  /\ Retired(ds)[b] \in Draft /\ TellsTheLast(b, Retired(ds)[b])
                    /\ Retired(ds)[b].attempt = 0
  BY DEF Rows, Retired
<1> PICK d : d = ds[b]
  OBVIOUS
<1>1. d \in Draft /\ TellsTheLast(b, d)
  BY DEF Rows
<1> PICK unconfirmed \in BOOLEAN : unconfirmed = (d.attempt # 0 \/ d.built # 0 \/ d.uncertain)
  BY <1>1 DEF Draft
<1> DEFINE q == [d EXCEPT !.attempt = 0, !.submitting = FALSE, !.payload = None, !.built = 0,
                          !.dst = None, !.retired = @ \/ unconfirmed,
                          !.uncertain = @ \/ unconfirmed]
<1>2. Retired(ds)[b] = q
  BY DEF Retired
<1>3. q \in Draft /\ q.attempt = 0 /\ ~q.submitting /\ q.payload = None /\ q.notice = d.notice
  <2> DEFINE d1 == [d EXCEPT !.attempt = 0, !.submitting = FALSE, !.payload = None]
             d2 == [d1 EXCEPT !.built = 0, !.dst = None]
             d3 == [d2 EXCEPT !.retired = @ \/ unconfirmed, !.uncertain = @ \/ unconfirmed]
  <2>1. /\ d1 \in Draft /\ d1.attempt = 0 /\ d1.submitting = FALSE /\ d1.payload = None
        /\ d1.notice = d.notice
    BY <1>1 DEF Draft
  <2>2. q = d3
    BY <1>1 DEF Draft
  <2> HIDE DEF d1
  <2>3. /\ d2 \in Draft /\ d2.attempt = 0 /\ d2.submitting = FALSE /\ d2.payload = None
        /\ d2.notice = d.notice
    BY <2>1 DEF Draft
  <2> HIDE DEF d2
  <2>4. /\ d3 \in Draft /\ d3.attempt = 0 /\ d3.submitting = FALSE /\ d3.payload = None
        /\ d3.notice = d.notice
    BY <2>3 DEF Draft
  <2> HIDE DEF d3, q
  <2> QED
    BY <2>2, <2>4
<1> HIDE DEF q
<1>4. TellsTheLast(b, q)
  BY <1>1, <1>3 DEF TellsTheLast, FrozenIsLast, AttemptIsLast, NoticeIsLast
<1> QED
  BY <1>2, <1>3, <1>4

LEMMA PrunedTells ==
  ASSUME NEW ds, Rows(ds), NEW rows
  PROVE  /\ Rows(Pruned(ds, rows))
         /\ (\A b \in Bindings : ds[b].attempt = 0) =>
               \A b \in Bindings : Pruned(ds, rows)[b].attempt = 0
<1>1. ASSUME NEW b \in Bindings
      PROVE  Pruned(ds, rows)[b] \in {ds[b], Empty}
  BY DEF Pruned
<1>2. Pruned(ds, rows) = [b \in Bindings |-> Pruned(ds, rows)[b]]
  BY DEF Pruned
<1>3. \A b \in Bindings : ds[b] \in Draft /\ TellsTheLast(b, ds[b])
  BY DEF Rows
<1>4. \A b \in Bindings : Pruned(ds, rows)[b] \in Draft /\ TellsTheLast(b, Pruned(ds, rows)[b])
  BY <1>1, <1>3, EmptyTells
<1>5. \A b \in Bindings : ds[b].attempt = 0 => Pruned(ds, rows)[b].attempt = 0
  BY <1>1, EmptyTells
<1> QED
  BY <1>2, <1>4, <1>5 DEF Rows

\* Nothing was sent: the rows hold as long as the list they wait under does.
LEMMA RowsStay ==
  ASSUME NEW ds, Rows(ds), posts' = posts,
         version' = version \/ \A b \in Bindings : ds[b].attempt = 0
  PROVE  Rows(ds)'
<1> SUFFICES ASSUME NEW b \in Bindings, NEW d, d = ds[b], TellsTheLast(b, d),
                    version' = version \/ d.attempt = 0
             PROVE  TellsTheLast(b, d)'
  BY DEF Rows
<1> QED
  BY DEF TellsTheLast, FrozenIsLast, AttemptIsLast, NoticeIsLast, Newest, Sent

\* The server does not see the page change, as long as nothing is sent.
LEMMA FenceUntouched ==
  ASSUME ConsoleInv, UNCHANGED server, SamePayloads
  PROVE  ServerTyped' /\ Fence'
<1> USE DEF ConsoleInv, server
<1>1. ServerTyped'
  BY DEF ServerTyped
<1>2. RoutesGoOn /\ epoch' \in Nat
  BY DEF RoutesGoOn, ServerTyped, Route
<1>3. MovesAreSent'
  BY KeysStay DEF MovesAreSent, Fence
<1> QED
  BY <1>1, <1>2, <1>3, FenceStays

-----------------------------------------------------------------------------
\* Reading the list

LEMMA ReadMoves ==
  ASSUME ConsoleInv, UNCHANGED <<server, page, drafts, cancelling, posts, deletes>>,
         read' = [append |-> read'.append, on |-> read'.on, data |-> read'.data,
                  limit |-> read'.limit],
         read'.data # None => Listed(read'.data)
  PROVE  ConsoleInv'
<1> USE DEF ConsoleInv
<1>1. ServerTyped' /\ Fence' /\ epoch' = epoch
  BY FenceUntouched DEF SamePayloads, server
<1>2. Rows(drafts)'
  BY RowsStay DEF page
<1>3. ListTyped'
  BY <1>1 DEF ListTyped, Listed, page
<1>4. WritesTyped' /\ CancelsHold'
  BY DEF WritesTyped, CancelsHold
<1> QED
  BY <1>1, <1>2, <1>3, <1>4

LEMMA StartReadIs ==
  \A append : LET r == StartRead(append)
              IN /\ r = [append |-> r.append, on |-> r.on, data |-> r.data, limit |-> r.limit]
                 /\ r.data = None
BY DEF StartRead

LEMMA ServeStep == ASSUME ConsoleInv, Serve PROVE ConsoleInv'
<1> USE DEF ConsoleInv
<1> DEFINE here == {b \in DOMAIN route : route[b].target = Here} \cup {b \in Others : up}
           skip == IF read.append THEN Min({offset, Cardinality(here)}) ELSE 0
           size == Min({read.limit, Cardinality(here) - skip})
           Data(rows) == [epoch |-> IF up THEN epoch ELSE 0, rev |-> IF up THEN rev ELSE 0,
                          rows |-> [b \in rows |-> IF b \in Others THEN 1 ELSE route[b].rev],
                          more |-> skip + size < Cardinality(here), next |-> skip + size,
                          offered |-> Waiting(live)]
<1>1. PICK rows \in kSubset(size, here) : read' = [read EXCEPT !.data = Data(rows)]
  BY Zenon DEF Serve
<1>2. rows \subseteq here
  BY DEF kSubset
<1>3. Listed(Data(rows))
  <2>1. (IF up THEN epoch ELSE 0) \in 0 .. epoch /\ (IF up THEN rev ELSE 0) \in Nat
    BY DEF ServerTyped
  <2>2. \A b \in rows : (IF b \in Others THEN 1 ELSE route[b].rev) \in Nat
    BY <1>2 DEF ServerTyped, Route
  <2>3. Waiting(live) \subseteq Nat
    BY DEF Waiting, ServerTyped
  <2> QED
    BY <2>1, <2>2, <2>3 DEF Listed
<1> HIDE DEF Data
<1>4. read'.data = Data(rows) /\ read' = [append |-> read'.append, on |-> read'.on,
                                          data |-> read'.data, limit |-> read'.limit]
  BY <1>1 DEF ListTyped
<1>5. UNCHANGED <<server, page, drafts, cancelling, posts, deletes>>
  BY DEF Serve
<1> QED
  BY <1>3, <1>4, <1>5, ReadMoves

LEMMA ReadSteps == ASSUME ConsoleInv, Poll \/ LoadMore \/ ReadGone PROVE ConsoleInv'
<1>1. UNCHANGED <<server, page, drafts, cancelling, posts, deletes>>
  BY DEF Poll, LoadMore, ReadGone
<1>2. /\ read' = [append |-> read'.append, on |-> read'.on, data |-> read'.data,
                  limit |-> read'.limit]
      /\ read'.data = None
  <2>1. CASE read' = NoRead
    BY <2>1 DEF NoRead
  <2>2. CASE read' = StartRead(FALSE)
    BY <2>2, StartReadIs
  <2>3. CASE read' = StartRead(TRUE)
    BY <2>3, StartReadIs
  <2> QED
    BY <2>1, <2>2, <2>3 DEF Poll, LoadMore, ReadGone
<1> QED
  BY <1>1, <1>2, ReadMoves

\* The list is another one: its rows are typed, and what waits under it waits on.
LEMMA ListMoves ==
  ASSUME ConsoleInv, UNCHANGED <<server, posts, deletes>>,
         Rows(drafts'), version' = version \/ \A b \in Bindings : drafts'[b].attempt = 0,
         cancelling' \in {cancelling, EmptyMap},
         read' = [append |-> read'.append, on |-> read'.on, data |-> None, limit |-> read'.limit],
         version' \in Version \cup {None}, version' # None => version'.epoch <= epoch,
         version' = None => DOMAIN shown' = {},
         \A b \in DOMAIN shown' : shown'[b] \in Nat, offered' \subseteq Nat
  PROVE  ConsoleInv'
<1> USE DEF ConsoleInv
<1>1. ServerTyped' /\ Fence' /\ epoch' = epoch
  BY FenceUntouched DEF SamePayloads, server
<1>2. Rows(drafts)'
  <2> PICK ds : ds = drafts'
    OBVIOUS
  <2>1. Rows(ds)'
    BY RowsStay
  <2> QED
    BY <2>1 DEF Rows
<1>3. ListTyped'
  <2>1. read'.data = None
    OBVIOUS
  <2> QED
    BY <1>1, <2>1 DEF ListTyped
<1>4. WritesTyped'
  BY DEF WritesTyped
<1>5. CancelsHold'
  BY DEF CancelsHold, EmptyMap
<1> QED
  BY <1>1, <1>2, <1>3, <1>4, <1>5

LEMMA StoreStep ==
  ASSUME ConsoleInv, NEW data, NEW append, Listed(data), Store(data, append),
         append => VersionOf(data) = version, UNCHANGED <<server, posts, deletes>>
  PROVE  ConsoleInv'
<1> USE DEF ConsoleInv
<1> DEFINE rows == IF append THEN With(data.rows) ELSE data.rows
           changed == ~append /\ version # None /\ version # VersionOf(data)
           kept == IF changed THEN Detached(drafts) ELSE drafts
           ds == IF ~append /\ LeftRuntime(data) THEN Retired(kept) ELSE kept
<1>1. VersionOf(data) \in Version /\ VersionOf(data).epoch <= epoch
  BY DEF Listed, VersionOf, Version, ServerTyped
<1>2. Rows(kept) /\ (changed => \A b \in Bindings : kept[b].attempt = 0)
  BY DetachedTells
<1>3. /\ Rows(ds)
      /\ (\A b \in Bindings : kept[b].attempt = 0) => \A b \in Bindings : ds[b].attempt = 0
  <2> HIDE DEF kept
  <2> QED
    BY <1>2, RetiredTells
<1> HIDE DEF kept
<1>4. version' = version \/ \A b \in Bindings : kept[b].attempt = 0
  <2>1. CASE append
    BY <2>1 DEF Store
  <2>2. CASE changed
    BY <1>2, <2>2
  <2>3. CASE ~append /\ version = None
    <3>1. \A b \in Bindings : drafts[b].attempt = 0
      BY <2>3 DEF Rows, TellsTheLast, AttemptIsLast
    <3> QED
      BY <2>3, <3>1 DEF kept
  <2>4. CASE ~append /\ version = VersionOf(data)
    BY <2>4 DEF Store
  <2> QED
    BY <2>1, <2>2, <2>3, <2>4
<1>5. PICK S \in SUBSET DOMAIN rows : /\ shown' = [b \in S |-> rows[b]]
                                      /\ drafts' = Pruned(ds, shown')
  BY Zenon DEF Store, kept, kSubset
<1> HIDE DEF ds, rows
<1>6. Rows(drafts') /\ (version' = version \/ \A b \in Bindings : drafts'[b].attempt = 0)
  BY <1>3, <1>4, <1>5, PrunedTells
<1>7. \A b \in DOMAIN rows : rows[b] \in Nat
  BY DEF rows, With, Listed, ListTyped
<1>8. \A b \in DOMAIN shown' : shown'[b] \in Nat
  BY <1>5, <1>7
<1>9. version' \in Version /\ version' # None /\ version'.epoch <= epoch
  BY <1>1, ConsoleAssumption DEF Store
<1>10. /\ offered' \subseteq Nat /\ cancelling' \in {cancelling, EmptyMap}
       /\ read' = [append |-> read'.append, on |-> read'.on, data |-> None, limit |-> read'.limit]
  BY DEF Store, Listed, NoRead
<1> QED
  BY <1>6, <1>8, <1>9, <1>10, ListMoves

LEMMA DiscardStep ==
  ASSUME ConsoleInv, NEW data, Discard(data), UNCHANGED <<server, posts, deletes>>
  PROVE  ConsoleInv'
<1> USE DEF ConsoleInv
<1>1. Rows(drafts') /\ \A b \in Bindings : drafts'[b].attempt = 0
  BY DetachedTells, RetiredTells DEF Discard
<1>2. /\ version' = None /\ DOMAIN shown' = {} /\ offered' = {} /\ cancelling' = EmptyMap
      /\ read' = [append |-> read'.append, on |-> read'.on, data |-> None, limit |-> read'.limit]
  BY DEF Discard, EmptyMap
<1> QED
  BY <1>1, <1>2, ListMoves

LEMMA ReadAnsweredStep == ASSUME ConsoleInv, ReadAnswered PROVE ConsoleInv'
<1>1. PICK data : data = read.data
  OBVIOUS
<1>2. Listed(data) /\ UNCHANGED <<server, posts, deletes>>
  BY <1>1 DEF ConsoleInv, ListTyped, ReadAnswered
<1>3. CASE read.append /\ VersionOf(data) # version
  BY <1>1, <1>2, <1>3, DiscardStep DEF ReadAnswered
<1>4. CASE ~(read.append /\ VersionOf(data) # version)
  <2>1. PICK append : append = read.append
    OBVIOUS
  <2>2. Store(data, append) /\ (append => VersionOf(data) = version)
    BY <1>1, <1>4, <2>1 DEF ReadAnswered
  <2> QED
    BY <1>2, <2>2, StoreStep
<1> QED
  BY <1>3, <1>4

LEMMA RebuiltStep == ASSUME ConsoleInv, Rebuilt PROVE ConsoleInv'
<1> USE DEF ConsoleInv
<1>1. Rows(drafts') /\ \A b \in Bindings : drafts'[b].attempt = 0
  BY DetachedTells DEF Rebuilt
<1>2. UNCHANGED <<server, page, posts, deletes>> /\ read' = NoRead /\ cancelling' = EmptyMap
  BY DEF Rebuilt
<1>3. read' = [append |-> read'.append, on |-> read'.on, data |-> None, limit |-> read'.limit]
  BY <1>2 DEF NoRead
<1> QED
  BY <1>1, <1>2, <1>3, ListMoves DEF page, ListTyped

-----------------------------------------------------------------------------
\* Deciding, sending, hearing back

\* Row b is told something, and no other row is.
LEMMA RowChanges ==
  ASSUME ConsoleInv, UNCHANGED <<server, page, cancelling, posts, deletes>>,
         NEW b \in Bindings, NEW d \in Draft, TellsTheLast(b, d),
         drafts' = [drafts EXCEPT ![b] = d],
         read' = read \/ \E append : read' = StartRead(append)
  PROVE  ConsoleInv'
<1> USE DEF ConsoleInv
<1>1. ServerTyped' /\ Fence' /\ epoch' = epoch /\ version' = version
  BY FenceUntouched DEF SamePayloads, server, page
<1>2. Rows(drafts')
  BY DEF Rows
<1>3. Rows(drafts)'
  <2> PICK ds : ds = drafts'
    OBVIOUS
  <2>1. Rows(ds)'
    BY <1>1, <1>2, RowsStay
  <2> QED
    BY <2>1 DEF Rows
<1>4. ListTyped'
  <2>1. /\ read' = [append |-> read'.append, on |-> read'.on, data |-> read'.data,
                    limit |-> read'.limit]
        /\ read'.data # None => Listed(read'.data)
    BY StartReadIs DEF ListTyped
  <2> QED
    BY <1>1, <2>1 DEF ListTyped, Listed, page
<1>5. WritesTyped' /\ CancelsHold'
  BY DEF WritesTyped, CancelsHold
<1> QED
  BY <1>1, <1>3, <1>4, <1>5

LEMMA ChooseStep ==
  ASSUME ConsoleInv, NEW b \in Bindings, NEW t \in Elsewhere, Choose(b, t)
  PROVE  ConsoleInv'
<1> PICK d : d = drafts[b]
  OBVIOUS
<1>1. d \in Draft /\ TellsTheLast(b, d)
  BY DEF ConsoleInv, Rows
<1> DEFINE nothing == [about |-> NoKey, says |-> None]
           q == [d EXCEPT !.dst = t, !.payload = None, !.uncertain = FALSE, !.notice = nothing]
<1>2. drafts' = [drafts EXCEPT ![b] = q]
  BY DEF Choose, ConsoleInv, Rows
<1>3. nothing \in [about : Nat \cup {NoKey}, says : Says \cup {None}] /\ nothing.about = NoKey
  OBVIOUS
<1> HIDE DEF nothing
<1>4. /\ q \in Draft /\ q.attempt = d.attempt /\ q.submitting = d.submitting
      /\ q.payload = None /\ q.notice = nothing
  BY <1>1, <1>3 DEF Draft
<1> HIDE DEF q
<1>5. TellsTheLast(b, q)
  BY <1>1, <1>3, <1>4 DEF TellsTheLast, FrozenIsLast, AttemptIsLast, NoticeIsLast
<1>6. UNCHANGED <<server, page, cancelling, posts, deletes, read>>
  BY DEF Choose
<1> QED
  BY <1>2, <1>4, <1>5, <1>6, RowChanges

\* A write is over on the browser's side: rows that did not wait for it go on.
LEMMA PostEndsIs ==
  ASSUME WritesTyped, NEW i \in DOMAIN posts, NEW says, PostEnds(i, says)
  PROVE  /\ posts' \in Seq(Post) /\ SamePayloads
         /\ \A j \in DOMAIN posts : /\ posts'[j].answer = posts[j].answer
                                    /\ j # i => posts'[j] = posts[j]
<1> PICK r : r = posts[i]
  OBVIOUS
<1>1. posts \in Seq(Post) /\ r \in Post
  BY PayloadsAre
<1> DEFINE q == [r EXCEPT !.waiting = FALSE, !.version = None]
<1>2. posts' = [posts EXCEPT ![i] = q]
  BY DEF PostEnds
<1>3. q \in Post /\ q.payload = r.payload /\ q.answer = r.answer
  BY <1>1 DEF Post
<1> HIDE DEF q
<1>4. /\ posts' \in Seq(Post) /\ DOMAIN posts' = DOMAIN posts
      /\ \A j \in DOMAIN posts : posts'[j] = IF j = i THEN q ELSE posts[j]
  <2>1. /\ [posts EXCEPT ![i] = q] \in Seq(Post) /\ DOMAIN [posts EXCEPT ![i] = q] = DOMAIN posts
        /\ \A j \in DOMAIN posts : [posts EXCEPT ![i] = q][j] = IF j = i THEN q ELSE posts[j]
    BY <1>1, <1>3, Replaced
  <2> QED
    BY <1>2, <2>1
<1> QED
  BY <1>3, <1>4 DEF SamePayloads

LEMMA OthersWaitOn ==
  ASSUME WritesTyped, NEW i \in DOMAIN posts, NEW says, PostEnds(i, says), version' = version,
         NEW b \in Bindings, NEW d \in Draft, TellsTheLast(b, d), d.attempt # i
  PROVE  TellsTheLast(b, d)'
<1>1. /\ SamePayloads
      /\ \A j \in DOMAIN posts : /\ posts'[j].answer = posts[j].answer
                                 /\ j # i => posts'[j] = posts[j]
  BY PostEndsIs
<1>2. DOMAIN posts' = DOMAIN posts /\ \A x, k : Newest(x, k)' <=> Newest(x, k)
  BY <1>1, KeysStay DEF SamePayloads
<1>3. FrozenIsLast(b, d)'
  BY <1>1, KeysStay DEF TellsTheLast, FrozenIsLast
<1>4. AttemptIsLast(b, d)'
  BY <1>1, <1>2 DEF TellsTheLast, AttemptIsLast
<1>5. NoticeIsLast(b, d)'
  BY <1>1, <1>2 DEF TellsTheLast, NoticeIsLast, SamePayloads
<1> QED
  BY <1>3, <1>4, <1>5 DEF TellsTheLast

\* What the answer leaves of a row: no attempt, and a payload only if it settled nothing.
TellsOf(r, d, key, says) ==
  /\ r \in Draft /\ r.attempt = 0 /\ r.submitting = FALSE
  /\ says # "unknown" => r.payload = None
  /\ says = "unknown" => r.payload = d.payload
  /\ r.notice = [about |-> key, says |-> says]

LEMMA AnsweredRow ==
  ASSUME NEW d \in Draft, NEW key \in Nat, NEW says \in Says
  PROVE  TellsOf(Answered(d, key, says), d, key, says)
<1> PICK kept : kept = IF says # "unknown" THEN None ELSE d.payload
  OBVIOUS
<1> DEFINE about == [about |-> key, says |-> says]
           unsure == ~(says # "unknown")
           d1 == [d EXCEPT !.attempt = 0]
           d2 == [d1 EXCEPT !.submitting = FALSE]
           d3 == [d2 EXCEPT !.uncertain = unsure]
           d4 == [d3 EXCEPT !.payload = kept]
           d5 == [d4 EXCEPT !.notice = about]
<1>1. Answered(d, key, says) = d5
  BY DEF Answered
<1>2. about \in [about : Nat \cup {NoKey}, says : Says \cup {None}]
  OBVIOUS
<1>3. kept \in Instruction \cup {None} /\ unsure \in BOOLEAN
  BY DEF Draft
<1> HIDE DEF about, unsure
<1>4. d1 \in Draft /\ d1.attempt = 0
  BY DEF Draft
<1> HIDE DEF d1
<1>5. d2 \in Draft /\ d2.attempt = 0 /\ d2.submitting = FALSE
  BY <1>4 DEF Draft
<1> HIDE DEF d2
<1>6. d3 \in Draft /\ d3.attempt = 0 /\ d3.submitting = FALSE
  BY <1>3, <1>5 DEF Draft
<1> HIDE DEF d3
<1>7. d4 \in Draft /\ d4.attempt = 0 /\ d4.submitting = FALSE /\ d4.payload = kept
  BY <1>3, <1>6 DEF Draft
<1> HIDE DEF d4
<1>8. d5 \in Draft /\ d5.attempt = 0 /\ d5.submitting = FALSE /\ d5.payload = kept
  BY <1>2, <1>7 DEF Draft
<1>9. d5.notice = [about |-> key, says |-> says]
  BY <1>7 DEF Draft, about
<1> HIDE DEF d5
<1> QED
  BY <1>1, <1>8, <1>9 DEF TellsOf

LEMMA PostEndsStep ==
  ASSUME ConsoleInv, NEW i \in DOMAIN posts, NEW says \in Says, PostEnds(i, says)
  PROVE  ConsoleInv'
<1> USE DEF ConsoleInv
<1> PICK p : p = posts[i].payload
  OBVIOUS
<1>1. p \in Instruction /\ p.b \in Bindings /\ p.key \in Nat /\ i # 0
  BY PayloadsAre DEF Instruction
<1>2. /\ posts' \in Seq(Post) /\ SamePayloads
      /\ \A j \in DOMAIN posts : /\ posts'[j].answer = posts[j].answer
                                 /\ j # i => posts'[j] = posts[j]
  BY PostEndsIs
<1>3. UNCHANGED <<server, page, cancelling, deletes>> /\ version' = version
  BY DEF PostEnds, page
<1>4. ServerTyped' /\ Fence' /\ epoch' = epoch
  BY <1>2, <1>3, FenceUntouched DEF server
<1>5. WritesTyped' /\ CancelsHold'
  BY <1>2, <1>3 DEF WritesTyped, CancelsHold
<1>6. ListTyped'
  <2>1. read' = read \/ read' = StartRead(FALSE)
    BY DEF PostEnds
  <2>2. /\ read' = [append |-> read'.append, on |-> read'.on, data |-> read'.data,
                    limit |-> read'.limit]
        /\ read'.data # None => Listed(read'.data)
    BY <2>1, StartReadIs DEF ListTyped
  <2> QED
    BY <1>3, <1>4, <2>2 DEF ListTyped, Listed, page
<1>7. ASSUME NEW b \in Bindings, drafts[b].attempt = i
      PROVE  Owns(i) /\ b = p.b
  BY <1>1, <1>7 DEF Rows, TellsTheLast, AttemptIsLast, Owns
<1>8. ASSUME NEW b \in Bindings, drafts[b].attempt # i
      PROVE  \A d : d = drafts[b] => TellsTheLast(b, d)'
  <2> SUFFICES ASSUME NEW d, d = drafts[b]
               PROVE  TellsTheLast(b, d)'
    OBVIOUS
  <2>1. d \in Draft /\ TellsTheLast(b, d)
    BY DEF Rows
  <2> QED
    BY <1>3, <1>8, <2>1, OthersWaitOn
<1>9. CASE ~Owns(i)
  <2>1. drafts' = drafts
    BY <1>9 DEF PostEnds
  <2>2. \A b \in Bindings : TellsTheLast(b, drafts[b])'
    BY <1>7, <1>8, <1>9, <2>1
  <2>3. Rows(drafts)'
    BY <2>1, <2>2 DEF Rows
  <2> QED
    BY <1>4, <1>5, <1>6, <2>3
<1>10. CASE Owns(i)
  <2> PICK d : d = drafts[p.b]
    OBVIOUS
  <2>1. d \in Draft /\ TellsTheLast(p.b, d) /\ d.attempt = i
    BY <1>1, <1>10 DEF Rows, Owns
  <2>2. d \in Draft /\ p.key \in Nat
    BY <1>1, <2>1
  <2>3. TellsOf(Answered(d, p.key, says), d, p.key, says)
    BY <2>2, AnsweredRow
  <2> PICK q : q = Answered(d, p.key, says)
    OBVIOUS
  <2>4. drafts' = [drafts EXCEPT ![p.b] = q]
    BY <1>10 DEF PostEnds, Applied
  <2>5. q.notice.about = p.key /\ q.notice.says = says
    BY <2>3 DEF TellsOf
  <2>6. /\ q \in Draft /\ q.attempt = 0 /\ q.submitting = FALSE
        /\ q.payload # None => q.payload = d.payload
    BY <2>3 DEF TellsOf
  <2>7. Newest(p.b, p.key)
    BY <1>1, <2>1 DEF TellsTheLast, AttemptIsLast
  <2>8. says # "unknown" => posts[i].answer = says /\ says # None
    BY DEF PostEnds
  <2>9. \A x \in DOMAIN posts : posts'[x].payload = posts[x].payload /\ posts'[x].answer = posts[x].answer
    BY <1>2 DEF SamePayloads
  <2>10. DOMAIN posts' = DOMAIN posts /\ \A x, k : (Newest(x, k)' <=> Newest(x, k)) /\ (Sent(k)' <=> Sent(k))
    BY <1>2, KeysStay DEF SamePayloads
  <2>11. ASSUME NEW e, e = q
         PROVE  TellsTheLast(p.b, e)'
    <3>1. FrozenIsLast(p.b, e)'
      BY <2>1, <2>6, <2>10, <2>11 DEF TellsTheLast, FrozenIsLast
    <3>2. AttemptIsLast(p.b, e)'
      BY <2>6, <2>11 DEF AttemptIsLast
    <3>3. NoticeIsLast(p.b, e)'
      BY <2>5, <2>6, <2>7, <2>8, <2>9, <2>10, <2>11 DEF NoticeIsLast
    <3> QED
      BY <3>1, <3>2, <3>3 DEF TellsTheLast
  <2>12. drafts' \in [Bindings -> Draft]
    BY <2>4, <2>6 DEF Rows
  <2>13. ASSUME NEW b \in Bindings
         PROVE  \A e : e = drafts'[b] => TellsTheLast(b, e)'
    <3>1. CASE b = p.b
      BY <1>1, <2>4, <2>11, <3>1 DEF Rows
    <3>2. CASE b # p.b
      <4>1. drafts'[b] = drafts[b] /\ drafts[b].attempt # i
        BY <1>7, <2>4, <3>2 DEF Rows
      <4> QED
        BY <1>8, <4>1
    <3> QED
      BY <3>1, <3>2
  <2>14. Rows(drafts)'
    BY <2>12, <2>13 DEF Rows
  <2> QED
    BY <1>4, <1>5, <1>6, <2>14
<1> QED
  BY <1>9, <1>10

LEMMA Appended ==
  ASSUME WritesTyped, NEW x \in Post, posts' = Append(posts, x)
  PROVE  /\ posts' \in Seq(Post) /\ Len(posts) + 1 \notin DOMAIN posts
         /\ DOMAIN posts' = DOMAIN posts \cup {Len(posts) + 1}
         /\ posts'[Len(posts) + 1] = x /\ \A j \in DOMAIN posts : posts'[j] = posts[j]
         /\ Keys' = Keys \cup {x.payload.key}
         /\ \A p : Sent(p)' <=> Sent(p) \/ p = x.payload
         /\ \A b, k : Newest(b, k)' <=> Newest(b, k) /\ (x.payload.b = b => x.payload.key <= k)
<1>1. /\ posts' \in Seq(Post) /\ Len(posts) + 1 \notin DOMAIN posts
      /\ DOMAIN posts' = DOMAIN posts \cup {Len(posts) + 1}
      /\ posts'[Len(posts) + 1] = x /\ \A j \in DOMAIN posts : posts'[j] = posts[j]
  BY PayloadsAre
<1>2. Keys' = Keys \cup {x.payload.key}
  BY <1>1 DEF Keys
<1>3. ASSUME NEW p
      PROVE  Sent(p)' <=> Sent(p) \/ p = x.payload
  BY <1>1 DEF Sent
<1>4. ASSUME NEW b, NEW k
      PROVE  Newest(b, k)' <=> Newest(b, k) /\ (x.payload.b = b => x.payload.key <= k)
  BY <1>1 DEF Newest
<1> QED
  BY <1>1, <1>2, <1>3, <1>4

\* A write of another row, or of what this row sent before: what the row tells stands.
LEMMA RowsSend ==
  ASSUME WritesTyped, NEW x \in Post, posts' = Append(posts, x), version' = version,
         NEW b \in Bindings, NEW d \in Draft, TellsTheLast(b, d),
         x.payload.b # b \/ Sent(x.payload)
  PROVE  TellsTheLast(b, d)'
<1>1. \A k : Newest(b, k) => Newest(b, k)'
  <2> SUFFICES ASSUME NEW k, Newest(b, k)
               PROVE  x.payload.b = b => x.payload.key <= k
    BY Appended
  <2> QED
    BY DEF Newest, Sent
<1>2. /\ \A p : Sent(p) => Sent(p)'
      /\ DOMAIN posts \subseteq DOMAIN posts' /\ \A j \in DOMAIN posts : posts'[j] = posts[j]
  BY Appended
<1>3. FrozenIsLast(b, d)'
  BY <1>1, <1>2 DEF TellsTheLast, FrozenIsLast
<1>4. AttemptIsLast(b, d)'
  BY <1>1, <1>2 DEF TellsTheLast, AttemptIsLast
<1>5. NoticeIsLast(b, d)'
  BY <1>1, <1>2 DEF TellsTheLast, NoticeIsLast
<1> QED
  BY <1>3, <1>4, <1>5 DEF TellsTheLast

\* A write leaves the browser: the key is the next one, or the instruction is known.
LEMMA SendStep ==
  ASSUME ConsoleInv, UNCHANGED <<server, page, cancelling, read, deletes>>,
         NEW b \in Bindings, NEW p \in Instruction, p.b = b, p.epoch <= epoch, Send(b, p),
         Sent(p) \/ p.key = Cardinality(Keys) + 1, version \in Version, version # None,
         NEW d \in Draft, drafts' = [drafts EXCEPT ![b] = d],
         d.submitting, d.attempt = Len(posts) + 1, d.payload = p,
         ~Sent(p) => d.notice.about = NoKey,
         Sent(p) => NoticeIsLast(b, d) /\ Newest(b, p.key)
  PROVE  ConsoleInv'
<1> USE DEF ConsoleInv
<1> DEFINE x == [payload |-> p, version |-> version, waiting |-> TRUE, answer |-> None, op |-> 0]
<1>1. x \in Post /\ posts' = Append(posts, x)
  BY DEF Post, Send
<1>2. x.payload = p /\ x.version = version /\ x.waiting
  OBVIOUS
<1> HIDE DEF x
<1>3. version' = version /\ epoch' = epoch /\ UNCHANGED <<up, rev, route, told, live, writes>>
  BY DEF page, server
<1>4. /\ posts' \in Seq(Post) /\ Len(posts) + 1 \notin DOMAIN posts
      /\ DOMAIN posts' = DOMAIN posts \cup {Len(posts) + 1}
      /\ posts'[Len(posts) + 1] = x /\ \A j \in DOMAIN posts : posts'[j] = posts[j]
      /\ Keys' = Keys \cup {p.key}
      /\ \A q : Sent(q)' <=> Sent(q) \/ q = p
      /\ \A c, k : Newest(c, k)' <=> Newest(c, k) /\ (p.b = c => p.key <= k)
  BY <1>1, <1>2, Appended
<1>5. p.key \in 1 .. MaxKeys /\ MaxKeys \in Nat
  BY ConsoleAssumption DEF Instruction
<1>6. PICK n \in 0 .. MaxKeys : Keys = 1 .. n /\ Cardinality(Keys) = n
  <2>1. PICK n \in 0 .. MaxKeys : Keys = 1 .. n
    BY DEF Fence, KeysInTurn
  <2>2. Cardinality(1 .. n) = n
    BY <2>1, FS_Interval
  <2> QED
    BY <2>1, <2>2
<1>7. ~Sent(p) => p.key = n + 1 /\ p.key \notin Keys
  BY <1>5, <1>6
<1>8. ServerTyped' /\ WritesTyped' /\ CancelsHold'
  BY <1>3, <1>4 DEF ServerTyped, WritesTyped, CancelsHold
<1>9. ListTyped'
  BY <1>3 DEF ListTyped, Listed, page
<1>10. MovesAreSent'
  BY <1>3, <1>4 DEF Fence, MovesAreSent
<1>11. WrittenIsOver'
  <2> SUFFICES ASSUME NEW i \in DOMAIN posts', NEW q, q = posts'[i].payload
               PROVE  q.epoch <= epoch /\ (writes[q.key] = 0 \/ (writes[q.key] = 1 /\ Over(q)'))
    BY <1>3 DEF WrittenIsOver
  <2>1. Over(q)' <=> Over(q)
    BY <1>3 DEF Over
  <2>2. CASE Sent(q)
    BY <2>1, <2>2 DEF Sent, Fence, WrittenIsOver
  <2>3. CASE ~Sent(q)
    <3>1. q = p
      BY <1>2, <1>4, <2>3 DEF Sent
    <3>2. writes[p.key] = 0
      BY <1>5, <1>7, <2>3, <3>1 DEF Fence, KeysInTurn
    <3> QED
      BY <3>1, <3>2
  <2> QED
    BY <2>2, <2>3
<1>12. KeysInTurn'
  <2>1. CASE Sent(p)
    <3>1. p.key \in Keys
      BY <2>1 DEF Sent, Keys
    <3> QED
      BY <1>3, <1>4, <3>1 DEF Fence, KeysInTurn
  <2>2. CASE ~Sent(p)
    <3>1. Keys' = 1 .. n + 1 /\ n + 1 \in 0 .. MaxKeys
      BY <1>4, <1>5, <1>6, <1>7, <2>2
    <3>2. \A k \in 1 .. MaxKeys \ Keys' : writes'[k] = 0
      BY <1>3, <1>4 DEF Fence, KeysInTurn
    <3> QED
      BY <3>1, <3>2 DEF KeysInTurn
  <2> QED
    BY <2>1, <2>2
<1>13. KeysStandForOneInstruction'
  <2>1. ASSUME NEW q, NEW r, Sent(q), Sent(r), q.key = r.key
        PROVE  q = r
    BY <2>1 DEF Sent, Fence, KeysStandForOneInstruction
  <2>2. ASSUME NEW q, Sent(q), q.key = p.key
        PROVE  q = p
    <3>1. CASE Sent(p)
      BY <2>1, <2>2, <3>1
    <3>2. CASE ~Sent(p)
      <4>1. q.key \in Keys
        BY <2>2 DEF Sent, Keys
      <4> QED
        BY <1>7, <2>2, <3>2, <4>1
    <3> QED
      BY <3>1, <3>2
  <2>3. \A i \in DOMAIN posts' : Sent(posts'[i].payload) \/ posts'[i].payload = p
    BY <1>2, <1>4 DEF Sent
  <2> QED
    BY <2>1, <2>2, <2>3 DEF KeysStandForOneInstruction
<1>14. ASSUME NEW c \in Bindings, c # b
       PROVE  \A e : e = drafts[c] => TellsTheLast(c, e)'
  <2> SUFFICES ASSUME NEW e, e = drafts[c]
               PROVE  TellsTheLast(c, e)'
    OBVIOUS
  <2>1. e \in Draft /\ TellsTheLast(c, e)
    BY DEF Rows
  <2> QED
    BY <1>1, <1>2, <1>3, <1>14, <2>1, RowsSend
<1>15. TellsTheLast(b, d)'
  <2>1. Newest(b, p.key)'
    <3>1. CASE Sent(p)
      BY <1>4, <1>5, <3>1
    <3>2. CASE ~Sent(p)
      <4>1. \A i \in DOMAIN posts : posts[i].payload.key \in 1 .. n
        BY <1>6, PayloadsAre
      <4>2. Newest(b, p.key)
        BY <1>7, <3>2, <4>1 DEF Newest
      <4> QED
        BY <1>4, <1>5, <4>2
    <3> QED
      BY <3>1, <3>2
  <2>2. FrozenIsLast(b, d)'
    BY <1>4, <2>1 DEF FrozenIsLast
  <2>3. AttemptIsLast(b, d)'
    <3>1. d.attempt \in DOMAIN posts' /\ posts'[d.attempt] = x /\ d.attempt # 0
      BY <1>4, PayloadsAre
    <3> QED
      BY <1>2, <1>3, <2>1, <3>1 DEF AttemptIsLast
  <2>4. NoticeIsLast(b, d)'
    <3>1. CASE Sent(p)
      <4>1. \A k : Newest(b, k) => Newest(b, k)'
        <5> SUFFICES ASSUME NEW k, Newest(b, k)
                     PROVE  p.b = b => p.key <= k
          BY <1>4
        <5> QED
          BY <3>1 DEF Newest, Sent
      <4>2. /\ DOMAIN posts \subseteq DOMAIN posts'
            /\ \A j \in DOMAIN posts : posts'[j] = posts[j]
        BY <1>4
      <4> QED
        BY <3>1, <4>1, <4>2 DEF NoticeIsLast
    <3>2. CASE ~Sent(p)
      BY <3>2 DEF NoticeIsLast
    <3> QED
      BY <3>1, <3>2
  <2> QED
    BY <2>2, <2>3, <2>4 DEF TellsTheLast
<1>16. Rows(drafts)'
  <2>1. drafts' \in [Bindings -> Draft]
    BY DEF Rows
  <2>2. ASSUME NEW c \in Bindings
        PROVE  \A e : e = drafts'[c] => TellsTheLast(c, e)'
    <3>1. CASE c = b
      BY <1>15, <3>1 DEF Rows
    <3>2. CASE c # b
      BY <1>14, <3>2 DEF Rows
    <3> QED
      BY <3>1, <3>2
  <2> QED
    BY <2>1, <2>2 DEF Rows
<1> QED
  BY <1>8, <1>9, <1>10, <1>11, <1>12, <1>13, <1>16 DEF Fence

LEMMA SubmitStep ==
  ASSUME ConsoleInv, NEW b \in Bindings, SubmitBindingMove(b)
  PROVE  ConsoleInv'
<1> USE DEF ConsoleInv
<1> PICK d : d = drafts[b]
  OBVIOUS
<1> PICK p : p = Payload(b)
  OBVIOUS
<1>1. d \in Draft /\ d.dst \in Elsewhere
  BY DEF Rows, SubmitBindingMove, Draft
<1>2. version \in Version /\ version # None /\ version.epoch <= epoch /\ b \in DOMAIN shown
  BY DEF SubmitBindingMove, ListTyped
<1>3. Cardinality(Keys) + 1 \in 1 .. MaxKeys
  <2>1. PICK n \in 0 .. MaxKeys : Keys = 1 .. n
    BY DEF Fence, KeysInTurn
  <2>2. Cardinality(1 .. n) = n
    BY <2>1, FS_Interval
  <2> QED
    BY <2>1, <2>2, ConsoleAssumption DEF SubmitBindingMove
<1>4. /\ p \in Instruction /\ p.b = b /\ p.epoch = version.epoch
      /\ p.key = Cardinality(Keys) + 1
  BY <1>1, <1>2, <1>3 DEF Payload, Instruction, Version, ListTyped
<1>5. ~Sent(p)
  <2>1. PICK n \in 0 .. MaxKeys : Keys = 1 .. n
    BY DEF Fence, KeysInTurn
  <2>2. Cardinality(1 .. n) = n
    BY <2>1, FS_Interval
  <2> QED
    <3>1. p.key \notin Keys
      BY <1>4, <2>1, <2>2
    <3> QED
      BY <3>1 DEF Sent, Keys
<1> DEFINE nothing == [about |-> NoKey, says |-> None]
           q == [d EXCEPT !.payload = p, !.built = version.epoch, !.retired = FALSE,
                          !.submitting = TRUE, !.uncertain = FALSE, !.attempt = Len(posts) + 1,
                          !.notice = nothing]
<1>6. drafts' = [drafts EXCEPT ![b] = q]
  BY DEF SubmitBindingMove
<1>7. nothing \in [about : Nat \cup {NoKey}, says : Says \cup {None}] /\ nothing.about = NoKey
  OBVIOUS
<1>8. version.epoch \in Nat /\ Len(posts) + 1 \in Nat
  BY <1>2, PayloadsAre DEF Version
<1> HIDE DEF nothing
<1>9. /\ q \in Draft /\ q.submitting /\ q.attempt = Len(posts) + 1 /\ q.payload = p
      /\ q.notice = nothing
  BY <1>1, <1>4, <1>7, <1>8 DEF Draft
<1> HIDE DEF q
<1> PICK e : e = q
  OBVIOUS
<1>10. UNCHANGED <<server, page, cancelling, read, deletes>> /\ Send(b, p)
  BY DEF SubmitBindingMove
<1> QED
  BY <1>2, <1>4, <1>5, <1>6, <1>7, <1>9, <1>10, SendStep

LEMMA RetryStep ==
  ASSUME ConsoleInv, NEW b \in Bindings, RetryBindingMove(b)
  PROVE  ConsoleInv'
<1> USE DEF ConsoleInv
<1> PICK d : d = drafts[b]
  OBVIOUS
<1> PICK p : p = d.payload
  OBVIOUS
<1>1. d \in Draft /\ TellsTheLast(b, d) /\ p # None /\ p \in Instruction
  BY DEF Rows, RetryBindingMove, Draft
<1>2. version \in Version /\ version # None
  BY DEF RetryBindingMove, ListTyped
<1>3. Sent(p) /\ p.b = b /\ Newest(b, p.key) /\ p.epoch <= epoch
  BY <1>1 DEF TellsTheLast, FrozenIsLast, Sent, Fence, WrittenIsOver
<1> DEFINE q == [d EXCEPT !.submitting = TRUE, !.attempt = Len(posts) + 1]
<1>4. drafts' = [drafts EXCEPT ![b] = q]
  BY DEF RetryBindingMove
<1>5. Len(posts) + 1 \in Nat
  BY PayloadsAre
<1>6. /\ q \in Draft /\ q.submitting /\ q.attempt = Len(posts) + 1 /\ q.payload = p
      /\ q.notice = d.notice
  BY <1>1, <1>5 DEF Draft
<1> HIDE DEF q
<1> PICK e : e = q
  OBVIOUS
<1>7. NoticeIsLast(b, e)
  BY <1>1, <1>6 DEF TellsTheLast, NoticeIsLast
<1>8. UNCHANGED <<server, page, cancelling, read, deletes>> /\ Send(b, p)
  BY DEF RetryBindingMove, Repeated
<1> QED
  BY <1>1, <1>2, <1>3, <1>4, <1>6, <1>7, <1>8, SendStep

-----------------------------------------------------------------------------
\* Calling a move off

\* Only the buttons and the cancels move.
LEMMA CancelsMove ==
  ASSUME ConsoleInv, UNCHANGED <<server, page, drafts, read, posts>>,
         deletes' \in Seq(Delete), CancelsHold'
  PROVE  ConsoleInv'
<1> USE DEF ConsoleInv
<1>1. ServerTyped' /\ Fence' /\ epoch' = epoch
  BY FenceUntouched DEF SamePayloads, server
<1>2. Rows(drafts)'
  BY RowsStay DEF page
<1>3. ListTyped' /\ WritesTyped'
  BY <1>1 DEF ListTyped, Listed, page, WritesTyped
<1> QED
  BY <1>1, <1>2, <1>3

LEMMA CancelStep ==
  ASSUME ConsoleInv, NEW o \in offered, CancelBindingMove(o)
  PROVE  ConsoleInv'
<1> USE DEF ConsoleInv
<1> DEFINE x == [op |-> o, waiting |-> TRUE, heard |-> FALSE]
<1>1. x \in Delete /\ x.waiting
  BY DEF Delete, ListTyped
<1>2. /\ deletes' = Append(deletes, x) /\ cancelling' = Put(cancelling, o, Len(deletes) + 1)
      /\ UNCHANGED <<server, page, drafts, read, posts>>
  BY DEF CancelBindingMove
<1> HIDE DEF x
<1>3. deletes \in Seq(Delete)
  BY DEF WritesTyped
<1>4. /\ deletes' \in Seq(Delete) /\ DOMAIN deletes' = DOMAIN deletes \cup {Len(deletes) + 1}
      /\ deletes'[Len(deletes) + 1] = x /\ \A j \in DOMAIN deletes : deletes'[j] = deletes[j]
  BY <1>1, <1>2, <1>3
<1>5. CancelsHold'
  BY <1>1, <1>2, <1>4 DEF CancelsHold, Put
<1> QED
  BY <1>2, <1>4, <1>5, CancelsMove

LEMMA CancelEndsStep ==
  ASSUME ConsoleInv, NEW i \in DOMAIN deletes, CancelEnds(i)
  PROVE  ConsoleInv'
<1> USE DEF ConsoleInv
<1> PICK r : r = deletes[i]
  OBVIOUS
<1> DEFINE q == [r EXCEPT !.waiting = FALSE]
<1>1. /\ deletes' = [deletes EXCEPT ![i] = q] /\ cancelling' = ReleasedByOwner(i)
      /\ UNCHANGED <<server, page, drafts, read, posts>>
  BY DEF CancelEnds
<1>2. deletes \in Seq(Delete) /\ r \in Delete
  BY DEF WritesTyped
<1>3. q \in Delete
  BY <1>2 DEF Delete
<1> HIDE DEF q
<1>4. /\ deletes' \in Seq(Delete) /\ DOMAIN deletes' = DOMAIN deletes
      /\ \A j \in DOMAIN deletes : j # i => deletes'[j] = deletes[j]
  BY <1>1, <1>2, <1>3, Replaced
<1>5. CancelsHold'
  BY <1>1, <1>4 DEF CancelsHold, ReleasedByOwner, Without
<1> QED
  BY <1>1, <1>4, <1>5, CancelsMove

-----------------------------------------------------------------------------
\* The theorems

LEMMA ConsoleInit == ASSUME Init PROVE ConsoleInv
<1>1. /\ posts = <<>> /\ deletes = <<>> /\ DOMAIN posts = {} /\ DOMAIN live = {}
      /\ DOMAIN told = {} /\ DOMAIN shown = {} /\ DOMAIN cancelling = {}
  BY DEF Init, EmptyMap
<1>2. \A b \in DOMAIN route : b \in Bindings /\ route[b] \in Route
  <2>1. PICK B \in SUBSET Bindings :
          route \in [B -> {[target |-> Here, rev |-> 1, busy |-> FALSE]}]
    BY DEF Init, Routes
  <2>2. [target |-> Here, rev |-> 1, busy |-> FALSE] \in Route
    BY DEF Route, Targets
  <2> QED
    BY <2>1, <2>2
<1>3. ServerTyped
  BY <1>1, <1>2 DEF Init, ServerTyped
<1>4. ListTyped
  BY <1>1 DEF Init, ListTyped, NoRead
<1>5. WritesTyped /\ CancelsHold
  BY <1>1 DEF WritesTyped, CancelsHold
<1>6. Fence
  <2>1. Keys = {} /\ 1 .. 0 = {} /\ 0 \in 0 .. MaxKeys
    BY <1>1, ConsoleAssumption DEF Keys
  <2>2. KeysInTurn
    BY <2>1 DEF KeysInTurn, Init
  <2> QED
    BY <1>1, <2>2 DEF Fence, MovesAreSent, WrittenIsOver, KeysStandForOneInstruction
<1>7. Rows(drafts)
  BY EmptyTells DEF Init, Rows
<1> QED
  BY <1>3, <1>4, <1>5, <1>6, <1>7 DEF ConsoleInv

LEMMA ConsoleStep == ASSUME ConsoleInv, [Next]_vars PROVE ConsoleInv'
<1>1. CASE UNCHANGED vars
  <2>1. UNCHANGED browser /\ UNCHANGED server
    BY <1>1 DEF vars, browser
  <2>2. ServerTyped' /\ Fence'
    BY <2>1, FenceUntouched DEF SamePayloads, browser
  <2>3. epoch' = epoch /\ epoch \in Nat
    BY <2>1 DEF server, ConsoleInv, ServerTyped
  <2> QED
    BY <2>1, <2>2, <2>3, PageStays DEF ConsoleInv
<1>2. ASSUME NEW i \in DOMAIN posts, Hear(i)
      PROVE  ConsoleInv'
  BY <1>2, HearStep
<1>3. ASSUME NEW i \in DOMAIN posts, NEW says \in Says, PostEnds(i, says)
      PROVE  ConsoleInv'
  BY <1>3, PostEndsStep
<1>4. ASSUME NEW i \in DOMAIN deletes, HearCancel(i) \/ CancelEnds(i)
      PROVE  ConsoleInv'
  BY <1>4, HearCancelStep, CancelEndsStep
<1>5. ASSUME NEW b \in DOMAIN route, RequestStarts(b) \/ RequestEnds(b) \/ Rerouted(b)
      PROVE  ConsoleInv'
  BY <1>5, RequestStartsStep, RequestEndsStep, ReroutedStep
<1>6. CASE Settles \/ Saved \/ Stops \/ Starts
  BY <1>6, SettlesStep, SavedStep, StopsStep, StartsStep
<1>7. CASE Poll \/ LoadMore \/ ReadGone
  BY <1>7, ReadSteps
<1>8. CASE Serve \/ ReadAnswered \/ Rebuilt
  BY <1>8, ServeStep, ReadAnsweredStep, RebuiltStep
<1>9. ASSUME NEW b \in Bindings, SubmitBindingMove(b) \/ RetryBindingMove(b)
      PROVE  ConsoleInv'
  BY <1>9, SubmitStep, RetryStep
<1>10. ASSUME NEW b \in Bindings, NEW t \in Elsewhere, Choose(b, t)
       PROVE  ConsoleInv'
  BY <1>10, ChooseStep
<1>11. ASSUME NEW o \in offered, CancelBindingMove(o)
       PROVE  ConsoleInv'
  BY <1>11, CancelStep
<1> QED
  BY <1>1, <1>2, <1>3, <1>4, <1>5, <1>6, <1>7, <1>8, <1>9, <1>10, <1>11 DEF Next

LEMMA ConsoleHolds == Spec => []ConsoleInv
<1> QED
  BY ConsoleInit, ConsoleStep, PTL DEF Spec

(* However often a decision is sent, and whatever the server has forgotten *)
(* of it, it writes a route once at most (load-balancing.js                *)
(* submitBindingMove, retryBindingMove; load-balancer-admin.ts             *)
(* moveBinding): what it wrote has outdated the versions it names.         *)
THEOREM DecisionsAreWrittenOnce == Spec => []DecisionsWriteOnce
<1>1. ConsoleInv => DecisionsWriteOnce
  <2> SUFFICES ASSUME ConsoleInv
               PROVE  DecisionsWriteOnce
    OBVIOUS
  <2>1. ASSUME NEW k \in 1 .. MaxKeys
        PROVE  writes[k] <= 1
    <3>1. CASE k \in Keys
      BY <3>1 DEF ConsoleInv, Fence, WrittenIsOver, Keys
    <3>2. CASE k \notin Keys
      BY <3>2 DEF ConsoleInv, Fence, KeysInTurn
    <3> QED
      BY <3>1, <3>2
  <2> QED
    BY <2>1 DEF ConsoleInv, ServerTyped, Fence, DecisionsWriteOnce
<1> QED
  BY <1>1, ConsoleHolds, PTL

(* A row and its buttons tell the last decision: no answer to an older     *)
(* one, of another list or surface, is shown for it, and nothing stays     *)
(* locked for an answer nobody waits for (load-balancing.js                *)
(* moveAttemptStillOwnsPage, detachPendingMoveWrites).                     *)
THEOREM RowsKeepToTheLastDecision == Spec => []RowsTellTheLastDecision
<1>1. ConsoleInv => RowsTellTheLastDecision
  <2> SUFFICES ASSUME ConsoleInv
               PROVE  RowsTellTheLastDecision
    OBVIOUS
  <2>1. ASSUME NEW b \in Bindings
        PROVE  TellsTheLast(b, drafts[b])
    BY DEF ConsoleInv, Rows
  <2>2. NoticesAreOfTheLastDecision
    BY <2>1 DEF NoticesAreOfTheLastDecision, TellsTheLast, NoticeIsLast, Newest
  <2>3. LocksAreHeldByWaiters
    BY <2>1 DEF LocksAreHeldByWaiters, TellsTheLast, AttemptIsLast, Owns, ConsoleInv, CancelsHold
  <2> QED
    BY <2>2, <2>3 DEF RowsTellTheLastDecision
<1> QED
  BY <1>1, ConsoleHolds, PTL
=============================================================================
