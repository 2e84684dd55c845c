--------------------------- MODULE MigrationStore ---------------------------
(***************************************************************************)
(* MigrationOperationStore (src/src/proxy/load-migration.ts): the bounded, *)
(* in-memory records behind moveBinding() and the idempotency receipts     *)
(* that let a retried submission repeat its first answer.                  *)
(*                                                                         *)
(* The routing gates are abstracted to their verdict, chosen freely: which *)
(* verdict a gate gives is the subject of module LoadBalancer, what the    *)
(* store makes of it is the subject here.  A submission whose key is held  *)
(* is replayed (same digest) or refused as a conflict (another digest);    *)
(* both change nothing, so neither they nor the digest appear.  Every      *)
(* action is one synchronous call of the event loop.                       *)
(***************************************************************************)
EXTENDS MigrationContract, Maps, Integers, FiniteSets

CONSTANTS
  Keys,        \* idempotency keys callers use
  NoKey,       \* a submission without one
  MaxRecords,  \* capacity of the records and, separately, of the receipts
  Retention,   \* how long a finished record or a lone receipt is kept
  MaxOps,      \* bound: submissions that open a record
  MaxTime      \* bound: the clock

ASSUME StoreAssumption ==
  /\ NoKey \notin Keys
  /\ MaxRecords \in Nat \ {0}
  /\ Retention \in Nat
  /\ MaxOps \in Nat
  /\ MaxTime \in Nat

VARIABLES
  now,       \* the pair's clock
  nextOp,    \* operation ids handed out so far, plus one
  records,   \* operation id -> record
  receipts   \* idempotency key -> first answer

vars == <<now, nextOp, records, receipts>>

NoOp == 0
OpIds == 1 .. MaxOps
Times == 0 .. MaxTime

\* endedAt stands for the code's `endedAt ?? createdAt`.
Record == [key : Keys \cup {NoKey}, state : MigrationState,
           createdAt : Times, endedAt : Times]
Receipt == [answeredAt : Times, op : OpIds \cup {NoOp},
            answer : {"already_there", "rejected", "applied", "pending_boundary"}]

Full(f) == Cardinality(DOMAIN f) >= MaxRecords

\* The #live set: records that may still move.
Live(rs) == {o \in DOMAIN rs : rs[o].state \notin Terminal}

-----------------------------------------------------------------------------
(* Making room.  Map iteration order breaks ties of age in the code; here  *)
(* any of the oldest may go.  Neither map ever exceeds MaxRecords           *)
(* (Capacity), so the code's loops drop at most one entry.                  *)

Finished(rs) == DOMAIN rs \ Live(rs)

OldestFinished(rs) ==
  {o \in Finished(rs) : \A p \in Finished(rs) : rs[o].createdAt <= rs[p].createdAt}

\* Mutant: any answer may be given up, also that of an intent that may still move.
FinishedReceiptsOrNot(rs, rc) == DOMAIN rc

\* Answers that may be given up: those whose intent is finished, or that have none.
FinishedReceipts(rs, rc) == {k \in DOMAIN rc : rc[k].op \notin Live(rs)}

OldestFinishedReceipt(rs, rc) ==
  {k \in FinishedReceipts(rs, rc) :
     \A j \in FinishedReceipts(rs, rc) : rc[k].answeredAt <= rc[j].answeredAt}

\* Mutant: a record dropped for room or for age leaves its receipt behind.
ReceiptsOfNone(rc, ops) == {}

ReceiptsOf(rc, ops) == {k \in DOMAIN rc : rc[k].op \in ops}

\* What records may be left after #evictFinished, as the set of operations dropped.
Evictable(rs) ==
  IF Full(rs) /\ Finished(rs) # {} THEN {{o} : o \in OldestFinished(rs)} ELSE {{}}

\* #storeReceipt for a key the index does not hold: the possible results.
StoreReceipt(rs, rc, k, receipt) ==
  IF ~ Full(rc)
  THEN {Put(rc, k, receipt)}
  ELSE IF FinishedReceipts(rs, rc) = {}
  THEN {rc}
  ELSE {Put(Without(rc, {old}), k, receipt) : old \in OldestFinishedReceipt(rs, rc)}

\* recordAnswer: a submission without a key has nothing to be retried by.
RecordAnswer(rs, rc, k, receipt) ==
  IF k = NoKey THEN {rc} ELSE StoreReceipt(rs, rc, k, receipt)

CanRecordAnswer(k) ==
  \/ k \in DOMAIN receipts
  \/ ~ Full(receipts)
  \/ FinishedReceipts(records, receipts) # {}

-----------------------------------------------------------------------------
Init ==
  /\ now = 0
  /\ nextOp = 1
  /\ records = EmptyMap
  /\ receipts = EmptyMap

\* Mutant: the key is evaluated again before it is looked up.
SubmitAlreadyThereAgain(k) ==
  /\ CanRecordAnswer(k)
  /\ receipts' \in StoreReceipt(records, receipts, k,
                     [answeredAt |-> now, op |-> NoOp, answer |-> "already_there"])
  /\ UNCHANGED <<now, nextOp, records>>

\* moveBinding() on a binding already at the destination: no record, but the answer
\* is bound to its key, and refused outright when it could not be.
SubmitAlreadyThere(k) ==
  /\ k \notin DOMAIN receipts
  /\ CanRecordAnswer(k)
  /\ receipts' \in StoreReceipt(records, receipts, k,
                     [answeredAt |-> now, op |-> NoOp, answer |-> "already_there"])
  /\ UNCHANGED <<now, nextOp, records>>

\* moveBinding() past the no-op test: open() makes room or refuses, the verdict moves
\* the new record out of "requested" in the same call, and recordAnswer() keeps it.
SubmitMove(k, verdict) ==
  /\ nextOp <= MaxOps
  /\ k \notin DOMAIN receipts
  /\ \E gone \in Evictable(records) :
       LET kept == Without(records, gone)
           keptReceipts == Without(receipts, ReceiptsOf(receipts, gone))
           opened == Put(kept, nextOp,
                       [key |-> k, state |-> verdict,
                        createdAt |-> now, endedAt |-> now])
       IN  /\ ~ Full(kept)
           /\ records' = opened
           /\ receipts' \in RecordAnswer(opened, keptReceipts, k,
                     [answeredAt |-> now, op |-> nextOp, answer |-> verdict])
  /\ nextOp' = nextOp + 1
  /\ UNCHANGED now

\* apply, observe, cancel, expire, expireAfterApply: #transition refuses what the
\* contract does not allow, and stamps the end of a record that stops moving.
Transition(o, to) ==
  /\ IsMigrationTransitionAllowed(records[o].state, to)
  /\ records' = [records EXCEPT ![o].state = to, ![o].endedAt = IF to \in Terminal THEN now ELSE @]
  /\ UNCHANGED <<now, nextOp, receipts>>

\* dropExpiredRecords(): records and receipts past the window let go together.
DropExpiredRecords ==
  LET cutoff == now - Retention
      oldRecords == {o \in DOMAIN records \ Live(records) : records[o].endedAt <= cutoff}
      oldLone == {k \in DOMAIN receipts :
                    receipts[k].op = NoOp /\ receipts[k].answeredAt <= cutoff}
  IN  /\ records' = Without(records, oldRecords)
      /\ receipts' = Without(receipts, oldLone \cup ReceiptsOf(receipts, oldRecords))
      /\ UNCHANGED <<now, nextOp>>

\* dropAll(): the pair stopped.
DropAll ==
  /\ records' = EmptyMap
  /\ receipts' = EmptyMap
  /\ UNCHANGED <<now, nextOp>>

Tick ==
  /\ now < MaxTime
  /\ now' = now + 1
  /\ UNCHANGED <<nextOp, records, receipts>>

Next ==
  \/ \E k \in Keys : SubmitAlreadyThere(k)
  \/ \E k \in Keys \cup {NoKey}, verdict \in MigrationTransitions["requested"] : SubmitMove(k, verdict)
  \/ \E o \in DOMAIN records, to \in MigrationState : Transition(o, to)
  \/ DropExpiredRecords
  \/ DropAll
  \/ Tick

Spec == Init /\ [][Next]_vars

-----------------------------------------------------------------------------
\* Both maps are partial functions over the ids handed out and the keys in use.
TypeOK ==
  /\ now \in Times
  /\ nextOp \in 1 .. MaxOps + 1
  /\ DOMAIN records \subseteq 1 .. nextOp - 1
  /\ \A o \in DOMAIN records : records[o] \in Record
  /\ DOMAIN receipts \subseteq Keys
  /\ \A k \in DOMAIN receipts : receipts[k] \in Receipt

\* The records and the receipts each stay within their capacity: open() and
\* #storeReceipt() make room before they add (load-migration.ts 470-474, 797-804).
Capacity ==
  /\ Cardinality(DOMAIN records) <= MaxRecords
  /\ Cardinality(DOMAIN receipts) <= MaxRecords

\* The answer of an intent that may still move is never forgotten, by the clock or
\* for room, so a retry of its key can never be evaluated afresh and move the route a
\* second time (load-migration.ts 700-702, 785-796).
LiveIntentAnswerHeld ==
  \A o \in Live(records) :
    records[o].key # NoKey =>
      /\ records[o].key \in DOMAIN receipts
      /\ receipts[records[o].key].op = o

\* A receipt attached to a record exists only while that record does, and is that
\* record's own answer: the two indexes let go of one instruction
\* together (load-migration.ts 697-700, 828-846).
ReceiptFollowsRecord ==
  \A k \in DOMAIN receipts :
    receipts[k].op # NoOp =>
      /\ receipts[k].op \in DOMAIN records
      /\ records[receipts[k].op].key = k

\* A submission that opened a record always gets its answer remembered although it
\* never asks canRecordAnswer() first: the argument of load-migration.ts 565-568.
OpenedMoveIsRemembered ==
  [][\A o \in DOMAIN records' \ DOMAIN records :
       records'[o].key # NoKey =>
         /\ records'[o].key \in DOMAIN receipts'
         /\ receipts'[records'[o].key].op = o]_vars

(* The records and receipts keep the promise of IdempotentMove: a key is   *)
(* answered once, and its answer is held while its move may go on, however *)
(* full the store and whatever was dropped (load-migration.ts 440-560,     *)
(* 697-702, 785-846).                                                      *)
Promise == INSTANCE IdempotentMove WITH
  Ops <- OpIds,
  told <- [k \in DOMAIN receipts |-> [answer |-> receipts[k].answer, op |-> receipts[k].op]],
  live <- [o \in Live(records) |-> [key |-> records[o].key, state |-> records[o].state]]

KeepsItsPromise == Promise!Spec

=============================================================================
