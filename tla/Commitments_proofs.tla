------------------------- MODULE Commitments_proofs -------------------------
(***************************************************************************)
(* What the server said it keeps, whatever fails and whoever repeats.      *)
(*                                                                         *)
(* ConfigApply: what is committed is what a restart reads, a write changes *)
(* only its own section, and between operations the listeners serve what   *)
(* is committed.                                                           *)
(*                                                                         *)
(* MigrationStore, for every capacity, retention window and set of keys:   *)
(* the store keeps its bounds, never forgets the answer of an intent that  *)
(* may still move, and always has room for the answer of a submission that *)
(* opened a record - the cardinality argument that the comment on          *)
(* recordAnswer() makes.  From these follows that it implements            *)
(* IdempotentMove.                                                         *)
(***************************************************************************)
EXTENDS ConfigApply, MigrationStore, FiniteSetTheorems, TLAPS

-----------------------------------------------------------------------------
(* What is committed.                                                      *)

OpFields == {"stage", "section", "base", "next", "stop", "start", "reload",
             "stoppedOld", "startedNew", "reloadedOld", "failed"}

\* The operation that runs was composed from what is committed, and only its section differs.
OpIsCurrent ==
  op # Idle =>
    /\ DOMAIN op = OpFields /\ op.stage \in {"apply", "saved", "rollback"}
    /\ up /\ op.base = config
    /\ DOMAIN op.next = Sections
    /\ \A section \in Sections : section # op.section => op.next[section] = config[section]

\* The file is one rename ahead of the memory at most.
FileInv ==
  /\ DOMAIN file = Sections /\ DOMAIN config = Sections
  /\ up /\ (op = Idle \/ op.stage # "saved") => file = config
  /\ op # Idle /\ op.stage = "saved" => file = op.next

CommitInv == OpIsCurrent /\ FileInv

LEMMA CommitInit == ApplyInit => CommitInv
  BY DEF ApplyInit, CommitInv, OpIsCurrent, FileInv, Sections

\* A step of an operation that leaves the process, both configurations and what the
\* operation was composed from alone.
LEMMA CommitKept ==
  ASSUME CommitInv, op # Idle, op.stage # "saved", UNCHANGED <<up, file, config>>,
         op'.stage \in {"apply", "rollback"}, DOMAIN op' = OpFields, op' # Idle,
         op'.base = op.base, op'.next = op.next, op'.section = op.section
  PROVE  CommitInv'
  BY DEF CommitInv, OpIsCurrent, FileInv

LEMMA IdleHasNoFields == DOMAIN Idle # OpFields
<1>1. DOMAIN Idle = {"stage"}
  BY DEF Idle
<1>2. "base" \in OpFields /\ "base" # "stage"
  BY DEF OpFields
<1> QED
  BY <1>1, <1>2

\* The calls of an apply and of its rollback, whose only trace on the operation is in its
\* own lists and its stage.
CallSteps ==
  \/ CallFails \/ SaveFails
  \/ \E p \in PairIds :
       \/ Stop(p) \/ Start(p) \/ Reload(p)
       \/ UndoStart(p) \/ UndoReload(p) \/ UndoStop(p) \/ UndoFails(p)

LEMMA CallsKeep ==
  ASSUME CommitInv, CallSteps
  PROVE  /\ op # Idle /\ op.stage \in {"apply", "rollback"}
         /\ UNCHANGED <<up, file, config, queue>>
         /\ DOMAIN op' = OpFields /\ op' # Idle /\ op'.stage \in {"apply", "rollback"}
         /\ op'.base = op.base /\ op'.next = op.next /\ op'.section = op.section
<1>0. op.stage \in {"apply", "rollback"}
  <2>1. ASSUME CallFails \/ SaveFails
        PROVE  op.stage = "apply"
    BY <2>1 DEF CallFails, SaveFails, ToSave, Applying
  <2>2. ASSUME NEW p \in PairIds, Stop(p) \/ Start(p) \/ Reload(p)
        PROVE  op.stage = "apply"
    BY <2>2 DEF Stop, Start, Reload, Applying
  <2>3. ASSUME NEW p \in PairIds, UndoStart(p) \/ UndoReload(p) \/ UndoStop(p) \/ UndoFails(p)
        PROVE  op.stage = "rollback"
    BY <2>3 DEF UndoStart, UndoReload, UndoStop, UndoFails, RollingBack
  <2> QED
    BY <2>1, <2>2, <2>3 DEF CallSteps
<1>1. op # Idle
  BY <1>0 DEF Idle
<1>2. DOMAIN op = OpFields /\ op.stage \in {"apply", "saved", "rollback"}
  BY <1>1 DEF CommitInv, OpIsCurrent
<1> USE DEF OpFields
<1>3. CASE CallFails \/ SaveFails
  BY <1>1, <1>2, <1>3, IdleHasNoFields DEF CallFails, SaveFails, ToSave, Applying
<1>4. ASSUME NEW p \in PairIds, Stop(p) \/ Start(p) \/ Reload(p)
      PROVE  /\ op.stage = "apply" /\ UNCHANGED <<up, file, config, queue>>
             /\ DOMAIN op' = OpFields /\ op'.stage = op.stage
             /\ op'.base = op.base /\ op'.next = op.next /\ op'.section = op.section
  BY <1>2, <1>4 DEF Stop, Start, Reload, Applying
<1>5. ASSUME NEW p \in PairIds, UndoStart(p) \/ UndoReload(p) \/ UndoStop(p) \/ UndoFails(p)
      PROVE  /\ op.stage = "rollback" /\ UNCHANGED <<up, file, config, queue>>
             /\ DOMAIN op' = OpFields /\ op'.stage = op.stage
             /\ op'.base = op.base /\ op'.next = op.next /\ op'.section = op.section
  BY <1>2, <1>5 DEF UndoStart, UndoReload, UndoStop, UndoFails, RollingBack
<1> QED
  BY <1>1, <1>3, <1>4, <1>5, IdleHasNoFields DEF CallSteps

LEMMA CommitNext ==
  ASSUME CommitInv, [ApplyNext]_applyVars
  PROVE  CommitInv'
<1> USE DEF CommitInv, OpIsCurrent, FileInv
<1>1. CASE CallSteps
  BY <1>1, CallsKeep, CommitKept
<1>2. CASE Begin
  <2>1. PICK next \in {Composed(Head(queue))} :
          /\ DOMAIN op' = OpFields /\ op'.stage = "apply" /\ op'.section = Head(queue).section
          /\ op'.base = config /\ op'.next = next
    BY <1>2 DEF Begin, OpFields
  <2>2. DOMAIN next = Sections
    BY <2>1 DEF Composed
  <2>3. \A section \in Sections : section # Head(queue).section => next[section] = config[section]
    BY <2>1 DEF Composed
  <2>4. up /\ op = Idle /\ UNCHANGED <<up, file, config>>
    BY <1>2 DEF Begin
  <2>5. op' # Idle
    BY <2>1, IdleHasNoFields
  <2> QED
    BY <2>1, <2>2, <2>3, <2>4, <2>5
<1>3. CASE Save
  <2>1. op # Idle
    BY <1>3 DEF Save, ToSave, Applying, Idle
  <2>2. /\ DOMAIN op' = OpFields /\ op'.stage = "saved"
        /\ op'.base = op.base /\ op'.next = op.next /\ op'.section = op.section
    BY <1>3, <2>1 DEF Save, OpFields
  <2>3. op' # Idle
    BY <2>2, IdleHasNoFields
  <2> QED
    BY <1>3, <2>1, <2>2, <2>3 DEF Save
<1>4. CASE Commit
  <2>1. op # Idle
    BY <1>4 DEF Commit, Idle
  <2> QED
    BY <1>4, <2>1 DEF Commit
<1>5. CASE RolledBack
  <2>1. op # Idle /\ op.stage = "rollback"
    BY <1>5 DEF RolledBack, RollingBack, Idle
  <2> QED
    BY <1>5, <2>1 DEF RolledBack
<1>6. ASSUME NEW section, NEW value, Enqueue(section, value)
      PROVE  CommitInv'
  BY <1>6 DEF Enqueue
<1>7. ASSUME \/ \E list \in Offers : ReplacePairs(list)
             \/ \E model \in Summaries : UpdateSummaryModel(model)
             \/ \E p \in PairIds, enabled \in BOOLEAN : SetPairEnabled(p, enabled)
      PROVE  CommitInv'
  BY <1>6, <1>7 DEF ReplacePairs, UpdateSummaryModel, SetPairEnabled
<1>8. CASE Gone
  BY <1>8 DEF Gone
<1>9. CASE Boot
  BY <1>9 DEF Boot
<1>10. CASE UNCHANGED applyVars
  BY <1>10 DEF applyVars
<1> QED
  BY <1>1, <1>2, <1>3, <1>4, <1>5, <1>7, <1>8, <1>9, <1>10
     DEF ApplyNext, Apply, CallSteps, Crash, Shutdown

\* A restart reads what is committed, save for the moment between the rename and the end
\* of the save (proxy-manager.ts 244-246).
THEOREM FileStaysCommitted == ApplySpec => []FileIsCommitted
<1>1. CommitInv => FileIsCommitted
  BY DEF CommitInv, FileInv, OpIsCurrent, FileIsCommitted, Idle
<1> QED
  BY <1>1, CommitInit, CommitNext, PTL DEF ApplySpec

\* A commit changes the section of the operation that commits and no other
\* (proxy-manager.ts 184-202).
THEOREM SectionsStayComposed == ApplySpec => SectionsCompose
<1> DEFINE OnlyItsSection ==
      up /\ config' # config =>
        \A section \in Sections : config'[section] # config[section] => op.section = section
<1>1. ASSUME CommitInv, ApplyNext
      PROVE  OnlyItsSection
  <2> SUFFICES ASSUME up, config' # config
               PROVE  \A section \in Sections :
                        config'[section] # config[section] => op.section = section
    OBVIOUS
  <2>1. Commit
    <3>1. \A section, value : ~ Enqueue(section, value)
      BY DEF Enqueue
    <3>2. ~ CallSteps
      BY <1>1, CallsKeep
    <3> QED
      BY <1>1, <3>1, <3>2 DEF ApplyNext, Apply, CallSteps, ReplacePairs, UpdateSummaryModel, SetPairEnabled,
         Begin, Save, RolledBack, Crash, Shutdown, Gone, Boot
  <2>2. op # Idle
    BY <2>1 DEF Commit, Idle
  <2> QED
    BY <1>1, <2>1, <2>2 DEF Commit, CommitInv, OpIsCurrent
<1>2. CommitInv /\ [ApplyNext]_applyVars => [OnlyItsSection]_applyVars
  BY <1>1
<1>3. ApplySpec => [][OnlyItsSection]_applyVars
  BY <1>2, CommitInit, CommitNext, PTL DEF ApplySpec
<1> QED
  BY <1>3 DEF SectionsCompose

-----------------------------------------------------------------------------
(* What the listeners serve.                                               *)

\* Between operations.
ServesConfig ==
  /\ Running \subseteq DOMAIN config.pairs
  /\ \A p \in Running \ astray : serving[p] = config.pairs[p]

Earlier == op.base.pairs
Later == op.next.pairs
Touched == op.startedNew \cup op.reloadedOld

\* What the lists of an operation hold, on the way forth and on the way back.
Noted ==
  /\ op.stoppedOld \subseteq DOMAIN Earlier
  /\ op.startedNew \subseteq Added(Earlier, Later) \cup Rebound(Earlier, Later)
  /\ op.reloadedOld \subseteq Reloaded(Earlier, Later)

\* A pair the operation has not come to, or has put back, serves what is committed.
Untouched ==
  /\ Running \subseteq DOMAIN Earlier \cup op.startedNew
  /\ \A p \in Running \ (Touched \cup astray) : serving[p] = Earlier[p]

\* A pair it has come to serves what it asks for, and none that has to change is left out.
Forth ==
  /\ \A p \in Touched : p \in Running /\ serving[p] = Later[p]
  /\ op.start \subseteq Added(Earlier, Later) \cup Rebound(Earlier, Later) /\ op.start \subseteq DOMAIN Later
  /\ op.reload \subseteq Reloaded(Earlier, Later)
  /\ op.stop \subseteq DOMAIN Earlier \cap (Removed(Earlier, Later) \cup Rebound(Earlier, Later))
  /\ Running \cap (Removed(Earlier, Later) \cup Rebound(Earlier, Later)) \subseteq op.stop \cup op.startedNew
  /\ Reloaded(Earlier, Later) \subseteq op.reload \cup op.reloadedOld
  /\ op.stoppedOld \cap Running \subseteq op.startedNew
  /\ op.stoppedOld \subseteq Removed(Earlier, Later) \cup Rebound(Earlier, Later)
  /\ op.stop # {} => Touched = {}
  /\ op.stage = "saved" => op.stop = {} /\ op.start = {} /\ op.reload = {}

ServeInv ==
  /\ ~ up => op = Idle /\ serving = EmptyMap
  /\ op = Idle => ServesConfig
  /\ op # Idle => Noted /\ Untouched
  /\ op # Idle /\ op.stage # "rollback" => Forth

LEMMA ServeInit == ApplyInit => ServeInv
  BY DEF ApplyInit, ServeInv, ServesConfig, Running, EmptyMap

LEMMA ServeBegin ==
  ASSUME CommitInv, ServeInv, Begin
  PROVE  ServeInv'
<1>1. op = Idle /\ up /\ up' /\ UNCHANGED <<serving, astray>> /\ ServesConfig
  BY DEF Begin, ServeInv
<1>2. PICK next \in {Composed(Head(queue))} :
        op' = [stage  |-> "apply", section |-> Head(queue).section,
               base   |-> config, next |-> next,
               stop   |-> Running \cap
                            (Removed(config.pairs, next.pairs) \cup Rebound(config.pairs, next.pairs)),
               start  |-> {p \in Added(config.pairs, next.pairs) \cup Rebound(config.pairs, next.pairs) :
                             next.pairs[p].enabled},
               reload |-> Reloaded(config.pairs, next.pairs),
               stoppedOld |-> {}, startedNew |-> {}, reloadedOld |-> {}, failed |-> {}]
  BY DEF Begin
<1>3. op' # Idle /\ op'.stage = "apply"
  <2>1. DOMAIN op' = OpFields /\ op'.stage = "apply"
    BY <1>2 DEF OpFields
  <2> QED
    BY <2>1, IdleHasNoFields
<1>4. Earlier' = config.pairs /\ Later' = next.pairs
  BY <1>2 DEF Earlier, Later
<1>5. Noted' /\ Untouched'
  BY <1>1, <1>2, <1>4 DEF Noted, Untouched, Touched, ServesConfig, Running
<1>6. Forth'
  BY <1>1, <1>2, <1>3, <1>4
     DEF Forth, Touched, ServesConfig, Running, Added, Rebound, Updated, Removed
<1> QED
  BY <1>1, <1>3, <1>5, <1>6 DEF ServeInv

\* The facts every call of an operation starts from.
LEMMA AtCall ==
  ASSUME CommitInv, ServeInv, CallSteps
  PROVE  /\ op # Idle /\ Noted /\ Untouched /\ (op.stage = "apply" => Forth)
         /\ up /\ up' /\ op' # Idle /\ DOMAIN op = OpFields
         /\ Earlier' = Earlier /\ Later' = Later
<1>1. /\ op # Idle /\ op.stage \in {"apply", "rollback"} /\ UNCHANGED up
      /\ op' # Idle /\ op'.base = op.base /\ op'.next = op.next
  BY CallsKeep
<1>2. up /\ DOMAIN op = OpFields
  BY <1>1 DEF CommitInv, OpIsCurrent
<1> QED
  BY <1>1, <1>2 DEF ServeInv, Earlier, Later

LEMMA ServeForth ==
  ASSUME CommitInv, ServeInv, NEW p \in PairIds, Stop(p) \/ Start(p) \/ Reload(p)
  PROVE  ServeInv'
<1>1. /\ op # Idle /\ Noted /\ Untouched /\ (op.stage = "apply" => Forth)
      /\ up /\ up' /\ op' # Idle /\ DOMAIN op = OpFields
      /\ Earlier' = Earlier /\ Later' = Later
  BY AtCall DEF CallSteps
<1>2. Forth /\ op.stage = "apply" /\ op'.stage = "apply" /\ UNCHANGED astray
  BY <1>1 DEF Stop, Start, Reload, Applying, OpFields
<1> SUFFICES Noted' /\ Untouched' /\ Forth'
  BY <1>1 DEF ServeInv
<1>3. CASE Stop(p)
  <2>1. /\ p \in op.stop /\ Running' = Running \ {p} /\ \A q \in Running' : serving'[q] = serving[q]
        /\ op'.stop = op.stop \ {p} /\ op'.stoppedOld = op.stoppedOld \cup {p}
        /\ op'.start = op.start /\ op'.reload = op.reload
        /\ op'.startedNew = op.startedNew /\ op'.reloadedOld = op.reloadedOld
    BY <1>1, <1>3 DEF Stop, StopPair, Without, Running, OpFields
  <2>2. Touched = {} /\ Touched' = {}
    BY <1>2, <2>1 DEF Forth, Touched
  <2> QED
    BY <1>1, <1>2, <2>1, <2>2 DEF Noted, Untouched, Forth, Touched
<1>4. CASE Start(p)
  <2>1. /\ op.stop = {} /\ p \in op.start
        /\ op'.stop = op.stop /\ op'.stoppedOld = op.stoppedOld
        /\ op'.start = op.start \ {p} /\ op'.reload = op.reload
        /\ op'.startedNew = op.startedNew \cup {p} /\ op'.reloadedOld = op.reloadedOld
        /\ serving' = IF p \in Running THEN serving ELSE Put(serving, p, Later[p])
    BY <1>1, <1>4 DEF Start, StartPair, After, Later, OpFields
  <2>2. p \in Running => p \in op.startedNew
    BY <1>1, <1>2, <2>1 DEF Forth, Untouched, Added
  <2>3. Running' = Running \cup {p} /\ \A q \in Running \ {p} : serving'[q] = serving[q]
    BY <2>1 DEF Put, Running
  <2>4. serving'[p] = Later[p]
    BY <1>2, <2>1, <2>2 DEF Forth, Touched, Put, Running
  <2>5. Touched' = Touched \cup {p}
    BY <2>1 DEF Touched
  <2> QED
    BY <1>1, <1>2, <2>1, <2>3, <2>4, <2>5 DEF Noted, Untouched, Forth
<1>5. CASE Reload(p)
  <2>1. /\ op.stop = {} /\ op.start = {} /\ p \in op.reload
        /\ op'.stop = op.stop /\ op'.stoppedOld = op.stoppedOld
        /\ op'.start = op.start /\ op'.reload = op.reload \ {p}
        /\ op'.startedNew = op.startedNew /\ op'.reloadedOld = op.reloadedOld \cup {p}
        /\ serving' = Put(serving, p, Later[p])
    BY <1>1, <1>5 DEF Reload, ReloadPair, After, Later, OpFields
  <2>2. /\ Running' = Running \cup {p} /\ serving'[p] = Later[p]
        /\ \A q \in Running \ {p} : serving'[q] = serving[q]
    BY <2>1 DEF Put, Running
  <2>3. p \in Reloaded(Earlier, Later) /\ p \in DOMAIN Earlier
          /\ p \notin Removed(Earlier, Later) \cup Rebound(Earlier, Later)
    BY <1>2, <2>1 DEF Forth, Reloaded, Updated, Removed
  <2>4. Touched' = Touched \cup {p}
    BY <2>1 DEF Touched
  <2> QED
    BY <1>1, <1>2, <2>1, <2>2, <2>3, <2>4 DEF Noted, Untouched, Forth
<1> QED
  BY <1>3, <1>4, <1>5

LEMMA ServeBack ==
  ASSUME CommitInv, ServeInv, NEW p \in PairIds,
         UndoStart(p) \/ UndoReload(p) \/ UndoStop(p) \/ UndoFails(p)
  PROVE  ServeInv'
<1>1. /\ op # Idle /\ Noted /\ Untouched
      /\ up /\ up' /\ op' # Idle /\ DOMAIN op = OpFields
      /\ Earlier' = Earlier /\ Later' = Later
  BY AtCall DEF CallSteps
<1>2. op.stage = "rollback" /\ op'.stage = "rollback"
  BY <1>1 DEF UndoStart, UndoReload, UndoStop, UndoFails, RollingBack, OpFields
<1> SUFFICES Noted' /\ Untouched'
  BY <1>1, <1>2 DEF ServeInv
<1>3. CASE UndoStart(p)
  <2>1. /\ Running' = Running \ {p} /\ (\A q \in Running' : serving'[q] = serving[q])
        /\ op'.startedNew = op.startedNew \ {p} /\ op'.reloadedOld = op.reloadedOld
        /\ op'.stoppedOld = op.stoppedOld /\ astray' = astray
    BY <1>1, <1>3 DEF UndoStart, StopPair, Without, Running, OpFields
  <2> QED
    BY <1>1, <2>1 DEF Noted, Untouched, Touched
<1>4. CASE UndoReload(p)
  <2>1. /\ p \in op.reloadedOld
        /\ serving' = Put(serving, p, Earlier[p])
        /\ op'.startedNew = op.startedNew /\ op'.reloadedOld = op.reloadedOld \ {p}
        /\ op'.stoppedOld = op.stoppedOld /\ astray' = astray
    BY <1>1, <1>4 DEF UndoReload, ReloadPair, Before, Earlier, OpFields
  <2>2. /\ Running' = Running \cup {p} /\ serving'[p] = Earlier[p]
        /\ \A q \in Running \ {p} : serving'[q] = serving[q]
    BY <2>1 DEF Put, Running
  <2>3. p \in DOMAIN Earlier
    BY <1>1, <2>1 DEF Noted, Reloaded, Updated
  <2> QED
    BY <1>1, <2>1, <2>2, <2>3 DEF Noted, Untouched, Touched
<1>5. CASE UndoStop(p)
  <2>1. /\ p \in op.stoppedOld /\ op.startedNew = {} /\ op.reloadedOld = {}
        /\ serving' = IF p \in Running THEN serving ELSE Put(serving, p, Earlier[p])
        /\ op'.startedNew = {} /\ op'.reloadedOld = {}
        /\ op'.stoppedOld = op.stoppedOld \ {p} /\ astray' = astray
    BY <1>1, <1>5 DEF UndoStop, StartPair, Before, Earlier, OpFields
  <2>2. /\ Running' = Running \cup {p} /\ (p \notin Running => serving'[p] = Earlier[p])
        /\ \A q \in Running : serving'[q] = serving[q]
    BY <2>1 DEF Put, Running
  <2>3. p \in DOMAIN Earlier
    BY <1>1, <2>1 DEF Noted
  <2> QED
    BY <1>1, <2>1, <2>2, <2>3 DEF Noted, Untouched, Touched
<1>6. CASE UndoFails(p)
  <2>1. /\ op'.startedNew = op.startedNew /\ op'.reloadedOld = op.reloadedOld \ {p}
        /\ op'.stoppedOld \subseteq op.stoppedOld
        /\ astray' = astray \cup {p} /\ serving' = serving
    BY <1>1, <1>6 DEF UndoFails, OpFields
  <2> QED
    BY <1>1, <2>1 DEF Noted, Untouched, Touched, Running
<1> QED
  BY <1>3, <1>4, <1>5, <1>6

LEMMA ServeCommit ==
  ASSUME CommitInv, ServeInv, Commit
  PROVE  ServeInv'
<1>1. op # Idle /\ op.stage = "saved"
  BY DEF Commit, Idle
<1>2. Noted /\ Untouched /\ Forth
  BY <1>1 DEF ServeInv
<1>3. op.stop = {} /\ op.reload = {}
  BY <1>1, <1>2 DEF Forth
<1>4. /\ config'.pairs = Later /\ op' = Idle /\ up' /\ serving' = serving /\ Running' = Running
      /\ astray' = astray \ (op.stoppedOld \cup op.startedNew \cup op.reloadedOld)
  BY DEF Commit, Later, Running
<1>5. ASSUME NEW p \in Running, p \notin Touched
      PROVE  p \in DOMAIN Earlier /\ p \in DOMAIN Later /\ Earlier[p] = Later[p]
  <2>1. p \in DOMAIN Earlier
    BY <1>2, <1>5 DEF Untouched, Touched
  <2>2. p \notin Removed(Earlier, Later) /\ p \notin Rebound(Earlier, Later)
          /\ p \notin Reloaded(Earlier, Later)
    BY <1>2, <1>3, <1>5 DEF Forth, Touched
  <2> QED
    BY <2>1, <2>2 DEF Removed, Reloaded, Updated
<1>6. ASSUME NEW p \in Running, p \notin Touched, p \notin astray'
      PROVE  serving[p] = Later[p]
  <2>1. p \notin op.stoppedOld
    BY <1>2, <1>6 DEF Forth, Touched
  <2>2. p \notin astray
    BY <1>4, <1>6, <2>1 DEF Touched
  <2> QED
    BY <1>2, <1>5, <1>6, <2>2 DEF Untouched
<1>7. \A p \in Touched : p \in DOMAIN Later /\ serving[p] = Later[p]
  BY <1>2 DEF Forth, Noted, Touched, Added, Rebound, Reloaded, Updated
<1> QED
  BY <1>4, <1>5, <1>6, <1>7 DEF ServeInv, ServesConfig

LEMMA ServeNext ==
  ASSUME CommitInv, ServeInv, [ApplyNext]_applyVars
  PROVE  ServeInv'
<1>1. CASE \E p \in PairIds : Stop(p) \/ Start(p) \/ Reload(p)
  BY <1>1, ServeForth
<1>2. CASE \E p \in PairIds : UndoStart(p) \/ UndoReload(p) \/ UndoStop(p) \/ UndoFails(p)
  BY <1>2, ServeBack
<1>3. CASE CallFails \/ SaveFails
  <2>1. /\ op # Idle /\ Noted /\ Untouched
        /\ up /\ up' /\ op' # Idle /\ DOMAIN op = OpFields
        /\ Earlier' = Earlier /\ Later' = Later
    BY <1>3, AtCall DEF CallSteps
  <2>2. op' = [op EXCEPT !.stage = "rollback"] /\ UNCHANGED <<serving, astray>>
    BY <1>3 DEF CallFails, SaveFails
  <2>3. /\ op'.stage = "rollback" /\ op'.stoppedOld = op.stoppedOld
        /\ op'.startedNew = op.startedNew /\ op'.reloadedOld = op.reloadedOld
    BY <2>1, <2>2 DEF OpFields
  <2>4. Noted' /\ Untouched'
    BY <2>1, <2>2, <2>3 DEF Noted, Untouched, Touched, Running
  <2> QED
    BY <2>1, <2>3, <2>4 DEF ServeInv
<1>4. CASE Save
  <2>1. op # Idle /\ op.stage = "apply" /\ op.stop = {} /\ op.start = {} /\ op.reload = {} /\ up /\ up'
    BY <1>4 DEF Save, ToSave, Applying, Idle
  <2>2. Noted /\ Untouched /\ Forth /\ DOMAIN op = OpFields
    BY <2>1 DEF ServeInv, CommitInv, OpIsCurrent
  <2>3. /\ op'.stage = "saved" /\ DOMAIN op' = OpFields /\ UNCHANGED <<serving, astray>>
        /\ op'.base = op.base /\ op'.next = op.next
        /\ op'.stop = op.stop /\ op'.start = op.start /\ op'.reload = op.reload
        /\ op'.stoppedOld = op.stoppedOld
        /\ op'.startedNew = op.startedNew /\ op'.reloadedOld = op.reloadedOld
    BY <1>4, <2>2 DEF Save, OpFields
  <2>4. op' # Idle /\ Earlier' = Earlier /\ Later' = Later /\ Running' = Running /\ Touched' = Touched
    BY <2>3, IdleHasNoFields DEF Earlier, Later, Running, Touched
  <2>5. Noted' /\ Untouched'
    BY <2>2, <2>3, <2>4 DEF Noted, Untouched
  <2>6. Forth'
    BY <2>1, <2>2, <2>3, <2>4 DEF Forth
  <2> QED
    BY <2>1, <2>4, <2>5, <2>6 DEF ServeInv
<1>5. CASE RolledBack
  <2>1. op # Idle /\ up /\ up' /\ op' = Idle /\ op.startedNew = {} /\ op.reloadedOld = {}
    BY <1>5 DEF RolledBack, RollingBack, Undone, Idle
  <2>2. op.base = config /\ UNCHANGED <<config, serving, astray>>
    BY <1>5, <2>1 DEF RolledBack, CommitInv, OpIsCurrent
  <2>3. Untouched
    BY <2>1 DEF ServeInv
  <2>4. ServesConfig'
    BY <2>1, <2>2, <2>3 DEF Untouched, Touched, ServesConfig, Running, Earlier
  <2> QED
    BY <2>1, <2>4 DEF ServeInv
<1>6. CASE Gone
  BY <1>6 DEF Gone, ServeInv, ServesConfig, Running, EmptyMap
<1>7. CASE Boot
  <2>1. up' /\ op = Idle /\ op' = Idle /\ config' = file
    BY <1>7 DEF Boot, ServeInv
  <2>2. ServesConfig'
    BY <1>7, <2>1 DEF Boot, ServesConfig, Running
  <2> QED
    BY <2>1, <2>2 DEF ServeInv
<1>8. ASSUME UNCHANGED <<up, config, op, serving, astray>>
      PROVE  ServeInv'
  BY <1>8 DEF ServeInv, ServesConfig, Noted, Untouched, Forth, Touched, Earlier, Later, Running
<1>9. ASSUME NEW section, NEW value, Enqueue(section, value)
      PROVE  ServeInv'
  BY <1>8, <1>9 DEF Enqueue
<1>10. ASSUME \/ \E list \in Offers : ReplacePairs(list)
              \/ \E model \in Summaries : UpdateSummaryModel(model)
              \/ \E p \in PairIds, enabled \in BOOLEAN : SetPairEnabled(p, enabled)
       PROVE  ServeInv'
  BY <1>9, <1>10 DEF ReplacePairs, UpdateSummaryModel, SetPairEnabled
<1>11. CASE UNCHANGED applyVars
  BY <1>8, <1>11 DEF applyVars
<1> QED
  BY <1>1, <1>2, <1>3, <1>4, <1>5, <1>6, <1>7, <1>10, <1>11, ServeBegin, ServeCommit
     DEF ApplyNext, Apply, Crash, Shutdown

\* Whatever call of an apply or of its rollback fails: between operations every listener
\* belongs to a committed pair and serves it, unless the rollback gave up on it
\* (proxy-manager.ts 204-283).
THEOREM ListenersServeTheCommitted == ApplySpec => []ServesWhatIsCommitted
<1>1. ServeInv => ServesWhatIsCommitted
  BY DEF ServeInv, ServesConfig, ServesWhatIsCommitted
<1> QED
  BY <1>1, CommitInit, CommitNext, ServeInit, ServeNext, PTL DEF ApplySpec

-----------------------------------------------------------------------------
(* The store of moves.                                                     *)

\* TypeOK, Capacity, LiveIntentAnswerHeld and ReceiptFollowsRecord are inductive
\* together once the receipts are known to be finitely many (Keys need not be).
StoreInv ==
  /\ TypeOK
  /\ IsFiniteSet(DOMAIN receipts)
  /\ Capacity
  /\ LiveIntentAnswerHeld
  /\ ReceiptFollowsRecord

\* A set of operation ids handed out so far is finite, whatever part of it is held.
LEMMA RecordsFinite ==
  ASSUME TypeOK, StoreAssumption, NEW S \in SUBSET (DOMAIN records)
  PROVE  IsFiniteSet(S)
<1>1. nextOp - 1 \in Nat
  BY DEF TypeOK, StoreAssumption
<1>2. IsFiniteSet(1 .. nextOp - 1)
  BY <1>1, FS_Interval
<1>3. S \subseteq 1 .. nextOp - 1
  BY DEF TypeOK
<1> QED
  BY <1>2, <1>3, FS_Subset

\* Adding or replacing one entry costs at most one place.
LEMMA PutCardinality ==
  ASSUME NEW f, NEW x, NEW v, IsFiniteSet(DOMAIN f)
  PROVE  /\ DOMAIN Put(f, x, v) = DOMAIN f \cup {x}
         /\ IsFiniteSet(DOMAIN Put(f, x, v))
         /\ Cardinality(DOMAIN Put(f, x, v)) \in Nat
         /\ Cardinality(DOMAIN f) \in Nat
         /\ Cardinality(DOMAIN Put(f, x, v)) <= Cardinality(DOMAIN f) + 1
<1>1. DOMAIN Put(f, x, v) = DOMAIN f \cup {x}
  BY DEF Put
<1>2. /\ IsFiniteSet(DOMAIN f \cup {x})
      /\ Cardinality(DOMAIN f \cup {x}) =
           IF x \in DOMAIN f THEN Cardinality(DOMAIN f) ELSE Cardinality(DOMAIN f) + 1
  BY FS_AddElement
<1>3. Cardinality(DOMAIN f) \in Nat
  BY FS_CardinalityType
<1>4. /\ Cardinality(DOMAIN f \cup {x}) \in Nat
      /\ Cardinality(DOMAIN f \cup {x}) <= Cardinality(DOMAIN f) + 1
  BY <1>2, <1>3
<1> QED
  BY <1>1, <1>2, <1>3, <1>4

\* Dropping entries only makes room.
LEMMA WithoutCardinality ==
  ASSUME NEW f, NEW S, IsFiniteSet(DOMAIN f)
  PROVE  /\ DOMAIN Without(f, S) = DOMAIN f \ S
         /\ IsFiniteSet(DOMAIN Without(f, S))
         /\ Cardinality(DOMAIN Without(f, S)) \in Nat
         /\ Cardinality(DOMAIN f) \in Nat
         /\ Cardinality(DOMAIN Without(f, S)) <= Cardinality(DOMAIN f)
<1>1. DOMAIN Without(f, S) = DOMAIN f \ S
  BY DEF Without
<1> QED
  BY <1>1, FS_Subset, FS_CardinalityType

\* Giving up one held entry frees exactly its place.
LEMMA WithoutOne ==
  ASSUME NEW f, IsFiniteSet(DOMAIN f), NEW x \in DOMAIN f
  PROVE  Cardinality(DOMAIN Without(f, {x})) = Cardinality(DOMAIN f) - 1
<1>1. DOMAIN Without(f, {x}) = DOMAIN f \ {x}
  BY DEF Without
<1> QED
  BY <1>1, FS_RemoveElement

\* Whatever #storeReceipt leaves, it leaves within the capacity: every answer it
\* drops was finished, and every answer it keeps is the one that was there.
LEMMA StoreReceiptEffect ==
  ASSUME StoreAssumption, NEW rs, NEW rc, NEW k, NEW receipt,
         IsFiniteSet(DOMAIN rc), Cardinality(DOMAIN rc) <= MaxRecords,
         NEW rc2 \in StoreReceipt(rs, rc, k, receipt)
  PROVE  /\ IsFiniteSet(DOMAIN rc2)
         /\ Cardinality(DOMAIN rc2) <= MaxRecords
         /\ \A j \in DOMAIN rc2 : \/ j = k /\ rc2[j] = receipt
                                  \/ j \in DOMAIN rc /\ rc2[j] = rc[j]
         /\ \A j \in DOMAIN rc \ {k} :
              (j \in DOMAIN rc2 /\ rc2[j] = rc[j]) \/ j \in FinishedReceipts(rs, rc)
         /\ ~ Full(rc) \/ FinishedReceipts(rs, rc) # {} => k \in DOMAIN rc2 /\ rc2[k] = receipt
<1>1. CASE ~ Full(rc)
  <2>1. rc2 = Put(rc, k, receipt)
    BY <1>1 DEF StoreReceipt
  <2>2. Cardinality(DOMAIN rc) \in Nat /\ Cardinality(DOMAIN rc) < MaxRecords
    BY <1>1, FS_CardinalityType DEF Full, StoreAssumption
  <2>3. /\ IsFiniteSet(DOMAIN Put(rc, k, receipt))
        /\ Cardinality(DOMAIN Put(rc, k, receipt)) \in Nat
        /\ Cardinality(DOMAIN Put(rc, k, receipt)) <= Cardinality(DOMAIN rc) + 1
    BY PutCardinality
  <2>4. IsFiniteSet(DOMAIN rc2) /\ Cardinality(DOMAIN rc2) <= MaxRecords
    BY <2>1, <2>2, <2>3 DEF StoreAssumption
  <2> QED
    BY <2>1, <2>4 DEF Put
<1>2. CASE Full(rc) /\ FinishedReceipts(rs, rc) = {}
  <2>1. rc2 = rc
    BY <1>2 DEF StoreReceipt
  <2> QED
    BY <1>2, <2>1
<1>3. CASE Full(rc) /\ FinishedReceipts(rs, rc) # {}
  <2>1. PICK old \in OldestFinishedReceipt(rs, rc) :
          rc2 = Put(Without(rc, {old}), k, receipt)
    BY <1>3 DEF StoreReceipt
  <2>2. old \in DOMAIN rc /\ old \in FinishedReceipts(rs, rc)
    BY DEF OldestFinishedReceipt, FinishedReceipts
  <2>3. /\ IsFiniteSet(DOMAIN Without(rc, {old}))
        /\ Cardinality(DOMAIN Without(rc, {old})) = Cardinality(DOMAIN rc) - 1
        /\ Cardinality(DOMAIN rc) \in Nat
    BY <2>2, WithoutCardinality, WithoutOne
  <2>4. /\ IsFiniteSet(DOMAIN rc2)
        /\ Cardinality(DOMAIN rc2) \in Nat
        /\ Cardinality(DOMAIN rc2) <= Cardinality(DOMAIN Without(rc, {old})) + 1
    BY <2>1, <2>3, PutCardinality
  <2>5. Cardinality(DOMAIN rc2) <= MaxRecords
    BY <2>3, <2>4 DEF StoreAssumption
  <2> QED
    BY <1>3, <2>1, <2>2, <2>4, <2>5 DEF Put, Without
<1> QED
  BY <1>1, <1>2, <1>3

\* The claim of load-migration.ts 565-568: while fewer records than MaxRecords were held
\* before this submission opened its own, an index that could give nothing up is not full.
\* An answer that cannot go belongs to a live record, and no two share one.
LEMMA RoomForAnswer ==
  ASSUME StoreAssumption, NEW kept, NEW rc, NEW o, NEW v,
         IsFiniteSet(DOMAIN kept), Cardinality(DOMAIN kept) < MaxRecords,
         IsFiniteSet(DOMAIN rc),
         \A k \in DOMAIN rc : rc[k].op # NoOp =>
            rc[k].op \in DOMAIN kept /\ kept[rc[k].op].key = k,
         NoOp \notin DOMAIN kept, o # NoOp
  PROVE  ~ Full(rc) \/ FinishedReceipts(Put(kept, o, v), rc) # {}
<1> SUFFICES ASSUME Full(rc), FinishedReceipts(Put(kept, o, v), rc) = {}
             PROVE  FALSE
  OBVIOUS
<1>1. \A k \in DOMAIN rc : rc[k].op \in DOMAIN kept /\ kept[rc[k].op].key = k
  <2>1. \A k \in DOMAIN rc : rc[k].op \in DOMAIN Put(kept, o, v)
    BY DEF FinishedReceipts, Live
  <2>2. NoOp \notin DOMAIN Put(kept, o, v)
    BY DEF Put
  <2> QED
    BY <2>1, <2>2
<1> DEFINE intentOf == [k \in DOMAIN rc |-> rc[k].op]
<1>2. intentOf \in Injection(DOMAIN rc, DOMAIN kept)
  BY <1>1 DEF Injection, IsInjective
<1>3. Cardinality(DOMAIN rc) <= Cardinality(DOMAIN kept)
  BY <1>2, FS_Injection
<1>4. Cardinality(DOMAIN rc) \in Nat /\ Cardinality(DOMAIN kept) \in Nat
  BY FS_CardinalityType
<1> QED
  BY <1>3, <1>4 DEF Full, StoreAssumption

\* A submission that opened a record finds room for its answer (load-migration.ts 565-568).
LEMMA MoveHasRoom ==
  ASSUME StoreAssumption, StoreInv, nextOp <= MaxOps, NEW gone \in Evictable(records),
         ~ Full(Without(records, gone)), NEW record
  PROVE  \/ ~ Full(Without(receipts, ReceiptsOf(receipts, gone)))
         \/ FinishedReceipts(Put(Without(records, gone), nextOp, record),
                             Without(receipts, ReceiptsOf(receipts, gone))) # {}
<1> DEFINE kept == Without(records, gone)
<1> DEFINE keptReceipts == Without(receipts, ReceiptsOf(receipts, gone))
<1>1. nextOp # NoOp /\ NoOp \notin DOMAIN records
  BY DEF StoreInv, TypeOK, NoOp, StoreAssumption
<1>2. /\ DOMAIN kept = DOMAIN records \ gone
      /\ \A o \in DOMAIN kept : kept[o] = records[o]
      /\ DOMAIN keptReceipts = DOMAIN receipts \ ReceiptsOf(receipts, gone)
      /\ \A j \in DOMAIN keptReceipts : keptReceipts[j] = receipts[j]
  BY DEF Without
<1>3. IsFiniteSet(DOMAIN kept) /\ Cardinality(DOMAIN kept) \in Nat /\ IsFiniteSet(DOMAIN keptReceipts)
  <2>1. IsFiniteSet(DOMAIN records) /\ IsFiniteSet(DOMAIN receipts)
    BY RecordsFinite DEF StoreInv
  <2> QED
    BY <2>1, WithoutCardinality
<1>4. Cardinality(DOMAIN kept) < MaxRecords
  BY <1>3 DEF Full, StoreAssumption
<1>5. \A j \in DOMAIN keptReceipts : keptReceipts[j].op # NoOp =>
        /\ keptReceipts[j].op \in DOMAIN kept
        /\ kept[keptReceipts[j].op].key = j
  BY <1>2 DEF StoreInv, ReceiptFollowsRecord, ReceiptsOf
<1>6. NoOp \notin DOMAIN kept
  BY <1>1, <1>2
<1> HIDE DEF kept, keptReceipts
<1>7. ~ Full(keptReceipts) \/ FinishedReceipts(Put(kept, nextOp, record), keptReceipts) # {}
  BY <1>1, <1>3, <1>4, <1>5, <1>6, RoomForAnswer
<1> QED
  BY <1>7 DEF kept, keptReceipts

\* What a submission that opens a record does to the store, for every verdict: the
\* bounds hold, no other answer of a live intent is lost, and its own answer is kept.
LEMMA SubmitMoveStep ==
  ASSUME StoreAssumption, StoreInv, NEW k \in Keys \cup {NoKey},
         NEW verdict \in MigrationTransitions["requested"], SubmitMove(k, verdict)
  PROVE  /\ StoreInv'
         /\ DOMAIN records' \ DOMAIN records = {nextOp}
         /\ records'[nextOp].key = k
         /\ k # NoKey => k \in DOMAIN receipts' /\ receipts'[k].op = nextOp
<1> DEFINE receipt == [answeredAt |-> now, op |-> nextOp, answer |-> verdict]
           record == [key |-> k, state |-> verdict, createdAt |-> now, endedAt |-> now]
<1>1. PICK gone \in Evictable(records) :
        /\ ~ Full(Without(records, gone))
        /\ records' = Put(Without(records, gone), nextOp, record)
        /\ receipts' \in RecordAnswer(records', Without(receipts, ReceiptsOf(receipts, gone)), k, receipt)
  BY DEF SubmitMove
<1> DEFINE kept == Without(records, gone)
           keptReceipts == Without(receipts, ReceiptsOf(receipts, gone))
<1>2. /\ nextOp' = nextOp + 1 /\ now' = now /\ nextOp <= MaxOps /\ k \notin DOMAIN receipts
  BY DEF SubmitMove
<1>3. nextOp \in Nat /\ nextOp \in OpIds /\ nextOp # NoOp /\ nextOp \notin DOMAIN records
  BY <1>2 DEF StoreInv, TypeOK, OpIds, NoOp, StoreAssumption
<1>4. gone \cap Live(records) = {}
  BY <1>1 DEF Evictable, OldestFinished, Finished, Live
<1>5. /\ DOMAIN kept = DOMAIN records \ gone
      /\ \A o \in DOMAIN kept : kept[o] = records[o]
      /\ DOMAIN keptReceipts = DOMAIN receipts \ ReceiptsOf(receipts, gone)
      /\ \A j \in DOMAIN keptReceipts : keptReceipts[j] = receipts[j]
  BY DEF Without
<1>6. /\ IsFiniteSet(DOMAIN kept) /\ IsFiniteSet(DOMAIN keptReceipts)
      /\ Cardinality(DOMAIN kept) \in Nat
      /\ Cardinality(DOMAIN kept) < MaxRecords
      /\ Cardinality(DOMAIN keptReceipts) <= MaxRecords
  <2>1. IsFiniteSet(DOMAIN records)
    BY RecordsFinite DEF StoreInv
  <2>2. /\ IsFiniteSet(DOMAIN kept)
        /\ Cardinality(DOMAIN kept) \in Nat
    BY <2>1, WithoutCardinality
  <2>3. /\ IsFiniteSet(DOMAIN keptReceipts)
        /\ Cardinality(DOMAIN keptReceipts) \in Nat
        /\ Cardinality(DOMAIN receipts) \in Nat
        /\ Cardinality(DOMAIN keptReceipts) <= Cardinality(DOMAIN receipts)
    BY WithoutCardinality DEF StoreInv
  <2>4. Cardinality(DOMAIN receipts) <= MaxRecords
    BY DEF StoreInv, Capacity
  <2> QED
    BY <1>1, <2>2, <2>3, <2>4 DEF Full, StoreAssumption
<1>7. /\ DOMAIN records' = DOMAIN kept \cup {nextOp}
      /\ records'[nextOp] = record
      /\ \A o \in DOMAIN kept : records'[o] = records[o]
  BY <1>1, <1>3, <1>5 DEF Put
<1>8. \A j \in DOMAIN keptReceipts : keptReceipts[j].op # NoOp =>
        /\ keptReceipts[j].op \in DOMAIN kept
        /\ kept[keptReceipts[j].op].key = j
  BY <1>5 DEF StoreInv, ReceiptFollowsRecord, ReceiptsOf
<1>9. ~ Full(keptReceipts) \/ FinishedReceipts(records', keptReceipts) # {}
  <2> HIDE DEF record
  <2>1. ~ Full(keptReceipts) \/ FinishedReceipts(Put(kept, nextOp, record), keptReceipts) # {}
    BY <1>1, <1>2, MoveHasRoom
  <2> QED
    BY <1>1, <2>1
<1> HIDE DEF kept, keptReceipts
\* The index after recordAnswer(), for a submission with and without a key.
<1>10. /\ IsFiniteSet(DOMAIN receipts')
       /\ Cardinality(DOMAIN receipts') <= MaxRecords
       /\ \A j \in DOMAIN receipts' :
            \/ k # NoKey /\ j = k /\ receipts'[j] = receipt
            \/ j \in DOMAIN keptReceipts /\ receipts'[j] = keptReceipts[j]
       /\ \A j \in DOMAIN keptReceipts \ {k} :
            \/ j \in DOMAIN receipts' /\ receipts'[j] = keptReceipts[j]
            \/ j \in FinishedReceipts(records', keptReceipts)
       /\ k # NoKey => k \in DOMAIN receipts' /\ receipts'[k] = receipt
  <2>1. CASE k = NoKey
    <3>1. receipts' = keptReceipts
      BY <1>1, <2>1 DEF RecordAnswer, keptReceipts
    <3> QED
      BY <2>1, <3>1, <1>6
  <2>2. CASE k # NoKey
    <3>1. receipts' \in StoreReceipt(records', keptReceipts, k, receipt)
      BY <1>1, <2>2 DEF RecordAnswer, keptReceipts
    <3> HIDE DEF receipt
    <3> QED
      BY <2>2, <3>1, <1>6, <1>9, StoreReceiptEffect
  <2> QED
    BY <2>1, <2>2
<1>11. TypeOK'
  <2>1. record \in Record
    BY <1>3 DEF StoreInv, TypeOK, Record, MigrationTransitions, MigrationState, Terminal
  <2>2. receipt \in Receipt
    BY <1>3 DEF StoreInv, TypeOK, Receipt, MigrationTransitions, MigrationState, Terminal
  <2>3. DOMAIN receipts' \subseteq Keys /\ \A j \in DOMAIN receipts' : receipts'[j] \in Receipt
    BY <1>5, <1>10, <2>2 DEF StoreInv, TypeOK
  <2>4. DOMAIN records' \subseteq 1 .. nextOp' - 1
    BY <1>2, <1>3, <1>5, <1>7 DEF StoreInv, TypeOK
  <2>5. \A o \in DOMAIN records' : records'[o] \in Record
    BY <1>5, <1>7, <2>1 DEF StoreInv, TypeOK
  <2>6. now' \in Times /\ nextOp' \in 1 .. MaxOps + 1
    BY <1>2, <1>3 DEF StoreInv, TypeOK, StoreAssumption
  <2> QED
    BY <2>3, <2>4, <2>5, <2>6 DEF TypeOK
<1>12. Capacity'
  <2>1. /\ Cardinality(DOMAIN kept \cup {nextOp}) =
             IF nextOp \in DOMAIN kept THEN Cardinality(DOMAIN kept)
                                       ELSE Cardinality(DOMAIN kept) + 1
    BY <1>6, FS_AddElement
  <2>2. Cardinality(DOMAIN records') <= MaxRecords
    BY <1>6, <1>7, <2>1 DEF StoreAssumption
  <2> QED
    BY <1>10, <2>2 DEF Capacity
<1>13. LiveIntentAnswerHeld'
  <2> SUFFICES ASSUME NEW o \in Live(records'), records'[o].key # NoKey
               PROVE  /\ records'[o].key \in DOMAIN receipts'
                      /\ receipts'[records'[o].key].op = o
    BY DEF LiveIntentAnswerHeld, Live
  <2>1. CASE o = nextOp
    BY <1>7, <1>10, <2>1
  <2>2. CASE o # nextOp
    <3>1. o \in DOMAIN kept /\ o \in Live(records) /\ records'[o] = records[o]
      BY <1>5, <1>7, <2>2 DEF Live
    <3>2. /\ records[o].key \in DOMAIN receipts
          /\ receipts[records[o].key].op = o
      BY <3>1 DEF StoreInv, LiveIntentAnswerHeld
    <3>3. records[o].key \in DOMAIN keptReceipts
      BY <1>4, <1>5, <3>1, <3>2 DEF ReceiptsOf
    <3>4. records[o].key \notin FinishedReceipts(records', keptReceipts)
      BY <1>5, <3>1, <3>2, <3>3 DEF FinishedReceipts
    <3> QED
      BY <1>2, <1>5, <1>10, <3>1, <3>2, <3>3, <3>4
  <2> QED
    BY <2>1, <2>2
<1>14. ReceiptFollowsRecord'
  BY <1>5, <1>7, <1>8, <1>10 DEF ReceiptFollowsRecord
<1>15. DOMAIN records' \ DOMAIN records = {nextOp}
  BY <1>3, <1>5, <1>7
<1> QED
  BY <1>7, <1>10, <1>11, <1>12, <1>13, <1>14, <1>15 DEF StoreInv

\* The answer of a move that needed no write opens no record and costs no live answer.
LEMMA SubmitAlreadyThereStep ==
  ASSUME StoreAssumption, StoreInv, NEW k \in Keys, SubmitAlreadyThere(k)
  PROVE  StoreInv'
<1> DEFINE receipt == [answeredAt |-> now, op |-> NoOp, answer |-> "already_there"]
<1>1. /\ receipts' \in StoreReceipt(records, receipts, k, receipt)
      /\ k \notin DOMAIN receipts
      /\ UNCHANGED <<now, nextOp, records>>
  BY DEF SubmitAlreadyThere
<1>2. /\ IsFiniteSet(DOMAIN receipts) /\ Cardinality(DOMAIN receipts) <= MaxRecords
  BY DEF StoreInv, Capacity
<1>3. receipt \in Receipt
  BY DEF StoreInv, TypeOK, Receipt
<1>4. receipt.op = NoOp
  OBVIOUS
<1> HIDE DEF receipt
<1>5. /\ IsFiniteSet(DOMAIN receipts')
      /\ Cardinality(DOMAIN receipts') <= MaxRecords
      /\ \A j \in DOMAIN receipts' : \/ j = k /\ receipts'[j] = receipt
                                     \/ j \in DOMAIN receipts /\ receipts'[j] = receipts[j]
      /\ \A j \in DOMAIN receipts \ {k} :
           \/ j \in DOMAIN receipts' /\ receipts'[j] = receipts[j]
           \/ j \in FinishedReceipts(records, receipts)
  BY <1>1, <1>2, StoreReceiptEffect
<1>6. TypeOK'
  BY <1>1, <1>3, <1>5 DEF StoreInv, TypeOK
<1>7. Capacity'
  BY <1>1, <1>5 DEF StoreInv, Capacity
<1>8. LiveIntentAnswerHeld'
  <2> SUFFICES ASSUME NEW o \in Live(records), records[o].key # NoKey
               PROVE  /\ records[o].key \in DOMAIN receipts'
                      /\ receipts'[records[o].key].op = o
    BY <1>1 DEF LiveIntentAnswerHeld, Live
  <2>1. /\ records[o].key \in DOMAIN receipts
        /\ receipts[records[o].key].op = o
    BY DEF StoreInv, LiveIntentAnswerHeld
  <2>2. records[o].key \notin FinishedReceipts(records, receipts)
    BY <2>1 DEF FinishedReceipts
  <2> QED
    BY <1>1, <1>5, <2>1, <2>2
<1>9. ReceiptFollowsRecord'
  BY <1>1, <1>4, <1>5 DEF StoreInv, ReceiptFollowsRecord
<1> QED
  BY <1>5, <1>6, <1>7, <1>8, <1>9 DEF StoreInv

\* A record only moves along the contract, so one that may still move was live before.
LEMMA TransitionStep ==
  ASSUME StoreAssumption, StoreInv, NEW o \in DOMAIN records, NEW to \in MigrationState,
         Transition(o, to)
  PROVE  StoreInv'
<1>1. /\ records' = [records EXCEPT ![o].state = to,
                                    ![o].endedAt = IF to \in Terminal THEN now ELSE @]
      /\ UNCHANGED <<now, nextOp, receipts>>
      /\ to \in MigrationTransitions[records[o].state]
  BY DEF Transition, IsMigrationTransitionAllowed
<1>2. /\ DOMAIN records' = DOMAIN records
      /\ \A p \in DOMAIN records : p # o => records'[p] = records[p]
      /\ records'[o] \in Record /\ records'[o].key = records[o].key
  BY <1>1 DEF StoreInv, TypeOK, Record
<1>3. Live(records') \subseteq Live(records)
  <2>1. records[o].state \in MigrationState
    BY DEF StoreInv, TypeOK, Record
  <2>2. records[o].state \notin Terminal
    BY <1>1, <2>1 DEF MigrationTransitions, Terminal, MigrationState
  <2> QED
    BY <1>2, <2>2 DEF Live
<1>4. TypeOK'
  BY <1>1, <1>2 DEF StoreInv, TypeOK
<1>5. Capacity'
  BY <1>1, <1>2 DEF StoreInv, Capacity
<1>6. LiveIntentAnswerHeld'
  BY <1>1, <1>2, <1>3 DEF StoreInv, LiveIntentAnswerHeld, Live
<1>7. ReceiptFollowsRecord'
  BY <1>1, <1>2 DEF StoreInv, ReceiptFollowsRecord
<1> QED
  BY <1>1, <1>4, <1>5, <1>6, <1>7 DEF StoreInv

\* The sweep drops only finished records, each together with its answer.
LEMMA DropExpiredStep ==
  ASSUME StoreAssumption, StoreInv, DropExpiredRecords
  PROVE  StoreInv'
<1>1. PICK oldRecords \in SUBSET (DOMAIN records \ Live(records)), oldLone \in SUBSET DOMAIN receipts :
        /\ \A j \in oldLone : j \in DOMAIN receipts /\ receipts[j].op = NoOp
        /\ records' = Without(records, oldRecords)
        /\ receipts' = Without(receipts, oldLone \cup ReceiptsOf(receipts, oldRecords))
        /\ UNCHANGED <<now, nextOp>>
  <2> DEFINE cutoff == now - Retention
             aged == {o \in DOMAIN records \ Live(records) : records[o].endedAt <= cutoff}
             lone == {k \in DOMAIN receipts : receipts[k].op = NoOp /\ receipts[k].answeredAt <= cutoff}
  <2>1. /\ records' = Without(records, aged)
        /\ receipts' = Without(receipts, lone \cup ReceiptsOf(receipts, aged))
        /\ UNCHANGED <<now, nextOp>>
    BY DEF DropExpiredRecords
  <2>2. aged \in SUBSET (DOMAIN records \ Live(records))
    OBVIOUS
  <2>3. lone \in SUBSET DOMAIN receipts /\ \A j \in lone : j \in DOMAIN receipts /\ receipts[j].op = NoOp
    OBVIOUS
  <2> HIDE DEF aged, lone
  <2> QED
    BY <2>1, <2>2, <2>3
<1> DEFINE goneReceipts == oldLone \cup ReceiptsOf(receipts, oldRecords)
<1>2. /\ DOMAIN records' = DOMAIN records \ oldRecords
      /\ \A o \in DOMAIN records' : records'[o] = records[o]
      /\ DOMAIN receipts' = DOMAIN receipts \ goneReceipts
      /\ \A j \in DOMAIN receipts' : receipts'[j] = receipts[j]
  BY <1>1 DEF Without
<1>3. TypeOK'
  BY <1>1, <1>2 DEF StoreInv, TypeOK
<1>4. IsFiniteSet(DOMAIN receipts') /\ Capacity'
  <2>1. IsFiniteSet(DOMAIN records) /\ IsFiniteSet(DOMAIN receipts)
    BY RecordsFinite DEF StoreInv
  <2>2. /\ Cardinality(DOMAIN records') \in Nat
        /\ Cardinality(DOMAIN records) \in Nat
        /\ Cardinality(DOMAIN records') <= Cardinality(DOMAIN records)
    BY <1>1, <2>1, WithoutCardinality
  <2>3. /\ IsFiniteSet(DOMAIN receipts')
        /\ Cardinality(DOMAIN receipts') \in Nat
        /\ Cardinality(DOMAIN receipts) \in Nat
        /\ Cardinality(DOMAIN receipts') <= Cardinality(DOMAIN receipts)
    BY <1>1, <2>1, WithoutCardinality
  <2> QED
    BY <2>2, <2>3 DEF StoreInv, Capacity, StoreAssumption
<1>5. LiveIntentAnswerHeld'
  <2> SUFFICES ASSUME NEW o \in Live(records'), records'[o].key # NoKey
               PROVE  /\ records'[o].key \in DOMAIN receipts'
                      /\ receipts'[records'[o].key].op = o
    BY DEF LiveIntentAnswerHeld, Live
  <2>1. o \in Live(records) /\ records'[o] = records[o] /\ o \in DOMAIN records /\ o \notin oldRecords
    BY <1>2 DEF Live
  <2>2. records[o].key \in DOMAIN receipts /\ receipts[records[o].key].op = o
    BY <2>1 DEF StoreInv, LiveIntentAnswerHeld
  <2>3. o # NoOp
    BY <2>1 DEF StoreInv, TypeOK, NoOp
  <2>4. records[o].key \notin goneReceipts
    BY <1>1, <2>1, <2>2, <2>3 DEF ReceiptsOf
  <2> QED
    BY <1>2, <2>1, <2>2, <2>4
<1>6. ReceiptFollowsRecord'
  <2> SUFFICES ASSUME NEW j \in DOMAIN receipts', receipts'[j].op # NoOp
               PROVE  /\ receipts'[j].op \in DOMAIN records'
                      /\ records'[receipts'[j].op].key = j
    BY DEF ReceiptFollowsRecord
  <2>1. j \in DOMAIN receipts /\ receipts'[j] = receipts[j] /\ j \notin goneReceipts
    BY <1>2
  <2>2. receipts[j].op \in DOMAIN records /\ records[receipts[j].op].key = j
    BY <2>1 DEF StoreInv, ReceiptFollowsRecord
  <2>3. receipts[j].op \notin oldRecords
    BY <2>1 DEF ReceiptsOf
  <2> QED
    BY <1>2, <2>1, <2>2, <2>3
<1> QED
  BY <1>3, <1>4, <1>5, <1>6 DEF StoreInv

\* A pair stop forgets everything at once.
LEMMA EmptyStoreInv ==
  ASSUME StoreAssumption, now \in Times, nextOp \in 1 .. MaxOps + 1,
         records = EmptyMap, receipts = EmptyMap
  PROVE  StoreInv
<1>1. DOMAIN records = {} /\ DOMAIN receipts = {}
  BY DEF EmptyMap
<1>2. IsFiniteSet({}) /\ Cardinality({}) = 0
  BY FS_EmptySet
<1> QED
  BY <1>1, <1>2 DEF StoreInv, TypeOK, Capacity, LiveIntentAnswerHeld, ReceiptFollowsRecord,
                    Live, StoreAssumption

\* One step per operation of the store.
LEMMA StoreInvStep ==
  ASSUME StoreAssumption, StoreInv, [Next]_vars
  PROVE  StoreInv'
<1>1. ASSUME NEW k \in Keys, SubmitAlreadyThere(k) PROVE StoreInv'
  BY <1>1, SubmitAlreadyThereStep
<1>2. ASSUME NEW k \in Keys \cup {NoKey}, NEW verdict \in MigrationTransitions["requested"],
             SubmitMove(k, verdict)
      PROVE  StoreInv'
  BY <1>2, SubmitMoveStep
<1>3. ASSUME NEW o \in DOMAIN records, NEW to \in MigrationState, Transition(o, to)
      PROVE  StoreInv'
  BY <1>3, TransitionStep
<1>4. CASE DropExpiredRecords
  BY <1>4, DropExpiredStep
<1>5. CASE DropAll
  <2>1. /\ DOMAIN records' = {} /\ DOMAIN receipts' = {}
        /\ now' = now /\ nextOp' = nextOp
    BY <1>5 DEF DropAll, EmptyMap
  <2>2. IsFiniteSet({}) /\ Cardinality({}) = 0
    BY FS_EmptySet
  <2> QED
    BY <2>1, <2>2 DEF StoreInv, TypeOK, Capacity, LiveIntentAnswerHeld, ReceiptFollowsRecord,
                      Live, StoreAssumption
<1>6. CASE Tick
  <2>1. now' \in Times /\ UNCHANGED <<nextOp, records, receipts>>
    BY <1>6 DEF Tick, StoreInv, TypeOK, Times, StoreAssumption
  <2> QED
    BY <2>1 DEF StoreInv, TypeOK, Capacity, LiveIntentAnswerHeld, ReceiptFollowsRecord, Live
<1>7. CASE UNCHANGED vars
  BY <1>7 DEF vars, StoreInv, TypeOK, Capacity, LiveIntentAnswerHeld, ReceiptFollowsRecord, Live
<1> QED
  BY <1>1, <1>2, <1>3, <1>4, <1>5, <1>6, <1>7 DEF Next

\* The store of a runtime that just started.
LEMMA StoreInvInit ==
  ASSUME StoreAssumption, Init
  PROVE  StoreInv
<1>1. now \in Times /\ nextOp \in 1 .. MaxOps + 1
  BY DEF Init, Times, StoreAssumption
<1> QED
  BY <1>1, EmptyStoreInv DEF Init

\* Type correctness of the store, for every capacity, window and set of keys.
THEOREM StoreTypeCorrect == Spec => []TypeOK
<1>1. StoreInv => TypeOK
  BY DEF StoreInv
<1> QED
  BY <1>1, StoreInvInit, StoreInvStep, StoreAssumption, PTL DEF Spec

\* Neither index ever outgrows its capacity (load-migration.ts 470-474, 797-804).
THEOREM StoreStaysBounded == Spec => []Capacity
<1>1. StoreInv => Capacity
  BY DEF StoreInv
<1> QED
  BY <1>1, StoreInvInit, StoreInvStep, StoreAssumption, PTL DEF Spec

\* The answer of an intent that may still move is held for as long as it may move, so a
\* retry of its key is never evaluated afresh (load-migration.ts 700-702).
THEOREM LiveIntentsKeepTheirAnswer == Spec => []LiveIntentAnswerHeld
<1>1. StoreInv => LiveIntentAnswerHeld
  BY DEF StoreInv
<1> QED
  BY <1>1, StoreInvInit, StoreInvStep, StoreAssumption, PTL DEF Spec

\* A receipt never outlives the record it answers for.
THEOREM ReceiptsFollowRecords == Spec => []ReceiptFollowsRecord
<1>1. StoreInv => ReceiptFollowsRecord
  BY DEF StoreInv
<1> QED
  BY <1>1, StoreInvInit, StoreInvStep, StoreAssumption, PTL DEF Spec

\* A submission that opened a record never loses its answer for lack of room, although
\* recordAnswer() does not ask: the comment at load-migration.ts 565-568 is right.
THEOREM OpenedMovesAreRemembered == Spec => OpenedMoveIsRemembered
<1> DEFINE Remembered ==
      \A o \in DOMAIN records' \ DOMAIN records :
        records'[o].key # NoKey =>
          /\ records'[o].key \in DOMAIN receipts'
          /\ receipts'[records'[o].key].op = o
<1>1. ASSUME StoreAssumption, StoreInv, Next PROVE Remembered
  <2>1. ASSUME NEW k \in Keys \cup {NoKey}, NEW verdict \in MigrationTransitions["requested"],
               SubmitMove(k, verdict)
        PROVE  Remembered
    BY <1>1, <2>1, SubmitMoveStep
  <2>2. ASSUME NEW k \in Keys, SubmitAlreadyThere(k) PROVE Remembered
    BY <2>2 DEF SubmitAlreadyThere
  <2>3. ASSUME NEW o \in DOMAIN records, NEW to \in MigrationState, Transition(o, to)
        PROVE  Remembered
    BY <2>3 DEF Transition
  <2>4. CASE DropExpiredRecords
    BY <2>4 DEF DropExpiredRecords, Without
  <2>5. CASE DropAll
    BY <2>5 DEF DropAll, EmptyMap
  <2>6. CASE Tick
    BY <2>6 DEF Tick
  <2> QED
    BY <1>1, <2>1, <2>2, <2>3, <2>4, <2>5, <2>6 DEF Next
<1>2. StoreAssumption /\ StoreInv /\ [Next]_vars => [Remembered]_vars
  BY <1>1
<1> QED
  BY <1>2, StoreInvInit, StoreInvStep, StoreAssumption, PTL DEF Spec, OpenedMoveIsRemembered

-----------------------------------------------------------------------------
(* The refinement of IdempotentMove.                                       *)

\* What the promise sees of the store: the answers, and the moves that may go on.
Told(rc) == [k \in DOMAIN rc |-> [answer |-> rc[k].answer, op |-> rc[k].op]]
LiveMoves(rs) == [o \in Live(rs) |-> [key |-> rs[o].key, state |-> rs[o].state]]

\* Answers that may be given up.
Given(gone) ==
  gone \in SUBSET {j \in DOMAIN Told(receipts) :
                     Told(receipts)[j].op \notin DOMAIN LiveMoves(records)}

\* The promise speaks of the same maps and of the same contract.
LEMMA SameMaps ==
  /\ \A f, x, v : Promise!Put(f, x, v) = Put(f, x, v)
  /\ \A f, S : Promise!Without(f, S) = Without(f, S)
  /\ Promise!EmptyMap = EmptyMap
  /\ Promise!Terminal = Terminal /\ Promise!MigrationState = MigrationState
  /\ Promise!MigrationTransitions = MigrationTransitions
  /\ \A s, to : Promise!IsMigrationTransitionAllowed(s, to) = IsMigrationTransitionAllowed(s, to)
<1>1. /\ \A f, x, v : Promise!Put(f, x, v) = Put(f, x, v)
      /\ \A f, S : Promise!Without(f, S) = Without(f, S)
  BY DEF Promise!Put, Put, Promise!Without, Without
<1>2. Promise!EmptyMap = EmptyMap
  BY DEF Promise!EmptyMap, EmptyMap
<1>3. Promise!Terminal = Terminal /\ Promise!MigrationState = MigrationState
  BY DEF Promise!Terminal, Terminal, Promise!MigrationState, MigrationState
<1>4. Promise!MigrationTransitions = MigrationTransitions
  BY <1>3, Zenon DEF Promise!MigrationTransitions, MigrationTransitions
<1>5. \A s, to : Promise!IsMigrationTransitionAllowed(s, to) = IsMigrationTransitionAllowed(s, to)
  BY <1>4 DEF Promise!IsMigrationTransitionAllowed, IsMigrationTransitionAllowed
<1> QED
  BY <1>1, <1>2, <1>3, <1>4, <1>5

\* Each action of the promise, over what it sees of the store.
LEMMA PromiseNoMove ==
  ASSUME NEW k, k \notin DOMAIN Told(receipts), NEW gone, Given(gone),
         Told(receipts') = Put(Without(Told(receipts), gone), k, [answer |-> "already_there", op |-> NoOp]),
         LiveMoves(records') = LiveMoves(records)
  PROVE  Promise!NoMove(k)
  BY SameMaps DEF Promise!NoMove, Promise!Forgettable, Told, LiveMoves, Given

\* Stop
LEMMA PromiseStop == ASSUME Told(receipts') = EmptyMap, LiveMoves(records') = EmptyMap PROVE Promise!Stop
  BY SameMaps DEF Promise!Stop, Told, LiveMoves

\* Forget
LEMMA PromiseForget ==
  ASSUME NEW gone, Given(gone), Told(receipts') = Without(Told(receipts), gone),
         LiveMoves(records') = LiveMoves(records)
  PROVE  Promise!Forget
  BY SameMaps DEF Promise!Forget, Promise!Forgettable, Told, LiveMoves, Given

\* Move
LEMMA PromiseMove ==
  ASSUME NEW k, NEW o, NEW answer, k \notin DOMAIN Told(receipts), NEW gone, Given(gone),
         o \notin DOMAIN LiveMoves(records), \A j \in DOMAIN Told(receipts) : Told(receipts)[j].op # o,
         answer \in MigrationTransitions["requested"],
         Told(receipts') = IF k = NoKey THEN Without(Told(receipts), gone)
                           ELSE Put(Without(Told(receipts), gone), k, [answer |-> answer, op |-> o]),
         LiveMoves(records') = IF answer \in Terminal THEN LiveMoves(records)
             ELSE Put(LiveMoves(records), o, [key |-> k, state |-> answer])
  PROVE  Promise!Move(k, o, answer)
  BY SameMaps DEF Promise!Move, Promise!Forgettable, Promise!Fresh, Told, LiveMoves, Given

\* Advance
LEMMA PromiseAdvance ==
  ASSUME NEW o, NEW to, IsMigrationTransitionAllowed(LiveMoves(records)[o].state, to),
         LiveMoves(records') = IF to \in Terminal THEN Without(LiveMoves(records), {o})
                               ELSE [LiveMoves(records) EXCEPT ![o].state = to],
         Told(receipts') = Told(receipts)
  PROVE  Promise!Advance(o, to)
  BY SameMaps DEF Promise!Advance, Told, LiveMoves

\* An answer remembered: whatever gave way to it could be given up.
LEMMA StoredAnswer ==
  ASSUME StoreAssumption, NEW rs, NEW rc, NEW k, NEW receipt, k \notin DOMAIN rc,
         ~ Full(rc) \/ FinishedReceipts(rs, rc) # {},
         NEW rc2 \in StoreReceipt(rs, rc, k, receipt)
  PROVE  \E gone \in SUBSET FinishedReceipts(rs, rc) : rc2 = Put(Without(rc, gone), k, receipt)
<1>1. CASE ~ Full(rc)
  <2>1. rc2 = Put(rc, k, receipt)
    BY <1>1 DEF StoreReceipt
  <2>2. Put(rc, k, receipt) = Put(Without(rc, {}), k, receipt)
    BY DEF Put, Without
  <2> QED
    BY <2>1, <2>2
<1>2. CASE Full(rc)
  <2>1. PICK old \in OldestFinishedReceipt(rs, rc) : rc2 = Put(Without(rc, {old}), k, receipt)
    BY <1>2 DEF StoreReceipt
  <2> QED
    BY <2>1 DEF OldestFinishedReceipt
<1> QED
  BY <1>1, <1>2

\* What IdempotentMove sees of an index that gave up some answers.
LEMMA ToldWithout ==
  ASSUME NEW rc, NEW gone
  PROVE  Told(Without(rc, gone)) = Without(Told(rc), gone)
  BY DEF Told, Without

\* The same, of one that took one in.
LEMMA ToldPut ==
  ASSUME NEW rc, NEW k, NEW receipt
  PROVE  Told(Put(rc, k, receipt)) = Put(Told(rc), k, [answer |-> receipt.answer, op |-> receipt.op])
  BY DEF Told, Put

\* moveBinding() on a binding at its destination is a NoMove.
LEMMA AlreadyThereKeepsPromise ==
  ASSUME StoreAssumption, StoreInv, NEW k \in Keys, SubmitAlreadyThere(k)
  PROVE  Promise!Next
<1> DEFINE receipt == [answeredAt |-> now, op |-> NoOp, answer |-> "already_there"]
<1>1. /\ receipts' \in StoreReceipt(records, receipts, k, receipt)
      /\ k \notin DOMAIN receipts /\ CanRecordAnswer(k) /\ records' = records
  BY DEF SubmitAlreadyThere
<1>2. ~ Full(receipts) \/ FinishedReceipts(records, receipts) # {}
  BY <1>1 DEF CanRecordAnswer
<1>3. receipt.answer = "already_there" /\ receipt.op = NoOp
  OBVIOUS
<1> HIDE DEF receipt
<1>4. PICK gone \in SUBSET FinishedReceipts(records, receipts) :
        receipts' = Put(Without(receipts, gone), k, receipt)
  BY <1>1, <1>2, StoredAnswer
<1>5. Told(receipts') = Put(Without(Told(receipts), gone), k, [answer |-> "already_there", op |-> NoOp])
  BY <1>3, <1>4, ToldWithout, ToldPut
<1>6. Given(gone)
  BY <1>4 DEF Given, FinishedReceipts, Told, LiveMoves
<1>7. Promise!NoMove(k)
  BY <1>1, <1>5, <1>6, PromiseNoMove DEF Told
<1> QED
  BY <1>7 DEF Promise!Next

\* moveBinding() past the no-op test is a Move.
LEMMA SubmitMoveKeepsPromise ==
  ASSUME StoreAssumption, StoreInv, NEW k \in Keys \cup {NoKey},
         NEW verdict \in MigrationTransitions["requested"], SubmitMove(k, verdict)
  PROVE  Promise!Next
<1> DEFINE receipt == [answeredAt |-> now, op |-> nextOp, answer |-> verdict]
<1> DEFINE record == [key |-> k, state |-> verdict, createdAt |-> now, endedAt |-> now]
<1>1. PICK gone \in Evictable(records) :
        /\ ~ Full(Without(records, gone))
        /\ records' = Put(Without(records, gone), nextOp, record)
        /\ receipts' \in RecordAnswer(records', Without(receipts, ReceiptsOf(receipts, gone)), k, receipt)
  BY DEF SubmitMove
<1> DEFINE kept == Without(records, gone)
<1> DEFINE keptReceipts == Without(receipts, ReceiptsOf(receipts, gone))
<1>2. nextOp <= MaxOps /\ k \notin DOMAIN receipts
  BY DEF SubmitMove
<1>3. /\ nextOp \in OpIds /\ nextOp # NoOp /\ nextOp \notin DOMAIN records
      /\ verdict \in MigrationState
  BY <1>2 DEF StoreInv, TypeOK, OpIds, NoOp, StoreAssumption, MigrationTransitions, MigrationState, Terminal
<1>4. gone \cap Live(records) = {}
  BY <1>1 DEF Evictable, OldestFinished, Finished, Live
<1>5. DOMAIN records' = (DOMAIN records \ gone) \cup {nextOp} /\ records'[nextOp] = record
      /\ \A o \in DOMAIN records \ gone : records'[o] = records[o]
  BY <1>1, <1>3 DEF Put, Without
<1>6. /\ Live(records') = Live(records) \cup (IF verdict \in Terminal THEN {} ELSE {nextOp})
      /\ \A o \in Live(records) : records'[o] = records[o]
      /\ nextOp \notin Live(records)
  <2>1. record.state = verdict
    OBVIOUS
  <2> HIDE DEF record
  <2> QED
    BY <1>3, <1>4, <1>5, <2>1 DEF Live
<1>7. LiveMoves(records') = IF verdict \in Terminal THEN LiveMoves(records)
             ELSE Put(LiveMoves(records), nextOp, [key |-> k, state |-> verdict])
  <2>1. CASE verdict \in Terminal
    BY <1>6, <2>1 DEF LiveMoves
  <2>2. CASE verdict \notin Terminal
    BY <1>5, <1>6, <2>2 DEF LiveMoves, Put
  <2> QED
    BY <2>1, <2>2
<1>8. keptReceipts = Without(receipts, ReceiptsOf(receipts, gone))
      /\ DOMAIN keptReceipts \subseteq DOMAIN receipts
      /\ \A j \in DOMAIN keptReceipts : keptReceipts[j] = receipts[j]
  BY DEF Without
<1>9. k # NoKey => ~ Full(keptReceipts) \/ FinishedReceipts(records', keptReceipts) # {}
  <2> HIDE DEF record
  <2>1. \/ ~ Full(keptReceipts)
        \/ FinishedReceipts(Put(kept, nextOp, record), keptReceipts) # {}
    BY <1>1, <1>2, MoveHasRoom
  <2> QED
    BY <1>1, <2>1
<1> HIDE DEF keptReceipts
<1>10. /\ receipt.answer = verdict /\ receipt.op = nextOp
  OBVIOUS
<1> HIDE DEF receipt, record
<1>11. PICK given : /\ Given(given)
                    /\ receipts' = IF k = NoKey THEN Without(receipts, given)
                                   ELSE Put(Without(receipts, given), k, receipt)
  <2>1. ReceiptsOf(receipts, gone) \subseteq DOMAIN receipts /\ Given(ReceiptsOf(receipts, gone))
    BY <1>4 DEF Given, ReceiptsOf, Told, LiveMoves
  <2>2. CASE k = NoKey
    BY <1>1, <2>1, <2>2 DEF RecordAnswer
  <2>3. CASE k # NoKey
    <3>1. receipts' \in StoreReceipt(records', keptReceipts, k, receipt)
      BY <1>1, <2>3 DEF RecordAnswer, keptReceipts
    <3>2. PICK old \in SUBSET FinishedReceipts(records', keptReceipts) :
            receipts' = Put(Without(keptReceipts, old), k, receipt)
      BY <1>2, <1>8, <1>9, <2>3, <3>1, StoredAnswer
    <3> DEFINE given == ReceiptsOf(receipts, gone) \cup old
    <3>3. Without(keptReceipts, old) = Without(receipts, given)
      BY <1>8 DEF Without
    <3>4. Given(given)
      BY <1>6, <1>8, <2>1, <3>2 DEF Given, FinishedReceipts, Told, LiveMoves
    <3> QED
      BY <2>3, <3>2, <3>3, <3>4
  <2> QED
    BY <2>2, <2>3
<1>12. Told(receipts') = IF k = NoKey THEN Without(Told(receipts), given)
                         ELSE Put(Without(Told(receipts), given), k, [answer |-> verdict, op |-> nextOp])
  BY <1>10, <1>11, ToldWithout, ToldPut
<1>13. /\ nextOp \notin DOMAIN LiveMoves(records) /\ k \notin DOMAIN Told(receipts)
       /\ \A j \in DOMAIN Told(receipts) : Told(receipts)[j].op # nextOp
  <2>1. \A j \in DOMAIN receipts : receipts[j].op # nextOp
    BY <1>3 DEF StoreInv, ReceiptFollowsRecord
  <2> QED
    BY <1>2, <1>6, <2>1 DEF Told, LiveMoves
<1>14. Promise!Move(k, nextOp, verdict)
  BY <1>7, <1>11, <1>12, <1>13, PromiseMove
<1>15. verdict \in Promise!MigrationState
  BY <1>3, SameMaps
<1> QED
  BY <1>3, <1>14, <1>15 DEF Promise!Next

\* A transition advances the move, or ends it.
LEMMA TransitionKeepsPromise ==
  ASSUME StoreAssumption, StoreInv, NEW o \in DOMAIN records, NEW to \in MigrationState, Transition(o, to)
  PROVE  Promise!Next
<1> DEFINE end == IF to \in Terminal THEN now ELSE records[o].endedAt
<1>1. /\ records' = [records EXCEPT ![o].state = to, ![o].endedAt = end]
      /\ IsMigrationTransitionAllowed(records[o].state, to) /\ receipts' = receipts
  BY DEF Transition
<1>2. records[o] \in Record
  BY DEF StoreInv, TypeOK
<1>3. o \in Live(records)
  BY <1>1, <1>2 DEF Live, IsMigrationTransitionAllowed, MigrationTransitions, MigrationState, Terminal, Record
<1> HIDE DEF end
<1>4. /\ DOMAIN records' = DOMAIN records
      /\ records'[o].state = to /\ records'[o].key = records[o].key
      /\ \A p \in DOMAIN records \ {o} : records'[p] = records[p]
  BY <1>1, <1>2 DEF Record
<1>5. Live(records') = IF to \in Terminal THEN Live(records) \ {o} ELSE Live(records)
  BY <1>3, <1>4 DEF Live
<1>6. LiveMoves(records') = IF to \in Terminal THEN Without(LiveMoves(records), {o})
                            ELSE [LiveMoves(records) EXCEPT ![o].state = to]
  <2>1. CASE to \in Terminal
    BY <1>4, <1>5, <2>1 DEF LiveMoves, Without, Live
  <2>2. CASE to \notin Terminal
    <3>1. \A p \in Live(records) :
            [key |-> records'[p].key, state |-> records'[p].state]
              = IF p = o THEN [key |-> records[p].key, state |-> to]
                ELSE [key |-> records[p].key, state |-> records[p].state]
      BY <1>4 DEF Live
    <3>2. LiveMoves(records') = [p \in Live(records) |->
            IF p = o THEN [key |-> records[p].key, state |-> to]
            ELSE [key |-> records[p].key, state |-> records[p].state]]
      BY <1>5, <2>2, <3>1 DEF LiveMoves
    <3>3. [LiveMoves(records) EXCEPT ![o].state = to] = [p \in Live(records) |->
            IF p = o THEN [key |-> records[p].key, state |-> to]
            ELSE [key |-> records[p].key, state |-> records[p].state]]
      <4> DEFINE f == LiveMoves(records)
      <4>1. /\ f = [p \in Live(records) |-> f[p]]
            /\ \A p \in Live(records) : f[p] = [key |-> records[p].key, state |-> records[p].state]
        BY DEF LiveMoves
      <4>2. [f[o] EXCEPT !.state = to] = [key |-> records[o].key, state |-> to]
        BY <1>3, <4>1
      <4> HIDE DEF f
      <4>3. [f EXCEPT ![o].state = to] = [p \in Live(records) |-> IF p = o THEN [f[o] EXCEPT !.state = to] ELSE f[p]]
        BY <1>3, <4>1
      <4>4. \A p \in Live(records) :
              (IF p = o THEN [f[o] EXCEPT !.state = to] ELSE f[p])
                = IF p = o THEN [key |-> records[p].key, state |-> to]
                  ELSE [key |-> records[p].key, state |-> records[p].state]
        BY <4>1, <4>2
      <4>5. [f EXCEPT ![o].state = to] = [p \in Live(records) |->
            IF p = o THEN [key |-> records[p].key, state |-> to]
            ELSE [key |-> records[p].key, state |-> records[p].state]]
        BY <4>3, <4>4, Zenon
      <4> QED
        BY <4>5 DEF f
    <3> QED
      BY <2>2, <3>2, <3>3
  <2> QED
    BY <2>1, <2>2
<1>7. LiveMoves(records)[o].state = records[o].state /\ DOMAIN LiveMoves(records) = Live(records)
  BY <1>3 DEF LiveMoves
<1>8. Promise!Advance(o, to)
  BY <1>1, <1>6, <1>7, PromiseAdvance
<1>9. to \in Promise!MigrationState
  BY SameMaps
<1> QED
  BY <1>3, <1>8, <1>9 DEF Promise!Next

\* The sweep forgets what is over.
LEMMA DropKeepsPromise ==
  ASSUME StoreAssumption, StoreInv, DropExpiredRecords
  PROVE  Promise!Next
<1> DEFINE oldRecords == {o \in DOMAIN records \ Live(records) : records[o].endedAt <= now - Retention}
<1> DEFINE oldLone == {k \in DOMAIN receipts :
                         receipts[k].op = NoOp /\ receipts[k].answeredAt <= now - Retention}
<1> DEFINE gone == oldLone \cup ReceiptsOf(receipts, oldRecords)
<1>1. records' = Without(records, oldRecords) /\ receipts' = Without(receipts, gone)
  BY DEF DropExpiredRecords
<1>2. oldRecords \subseteq DOMAIN records \ Live(records) /\ NoOp \notin Live(records)
  BY DEF StoreInv, TypeOK, NoOp, Live
<1>3. Given(gone)
  <2>1. /\ oldLone \subseteq DOMAIN receipts /\ \A k \in oldLone : receipts[k].op = NoOp
    OBVIOUS
  <2> HIDE DEF oldRecords, oldLone
  <2> QED
    BY <1>2, <2>1 DEF Given, ReceiptsOf, Told, LiveMoves
<1> HIDE DEF oldRecords, gone
<1>4. LiveMoves(records') = LiveMoves(records)
  <2>1. Live(records') = Live(records) /\ \A o \in Live(records) : records'[o] = records[o]
    BY <1>1, <1>2 DEF Live, Without
  <2> QED
    BY <2>1 DEF LiveMoves
<1>5. Promise!Forget
  BY <1>1, <1>3, <1>4, PromiseForget, ToldWithout
<1> QED
  BY <1>5 DEF Promise!Next

\* The store keeps the promise of IdempotentMove: every step of it is a step of the promise
\* or leaves what the promise talks about alone, for every capacity, window and set of keys.
THEOREM StoreKeepsItsPromise == Spec => KeepsItsPromise
<1>1. Init => Promise!Init
  <2> SUFFICES ASSUME Init PROVE Promise!Init
    OBVIOUS
  <2>1. Told(receipts) = EmptyMap /\ LiveMoves(records) = EmptyMap
    BY DEF Init, EmptyMap, Told, LiveMoves, Live
  <2> QED
    BY <2>1, SameMaps DEF Promise!Init, Told, LiveMoves
<1>2. StoreAssumption /\ StoreInv /\ [Next]_vars => [Promise!Next]_<<Told(receipts), LiveMoves(records)>>
  <2> SUFFICES ASSUME StoreAssumption, StoreInv, [Next]_vars,
                      ~ UNCHANGED <<Told(receipts), LiveMoves(records)>>
               PROVE  Promise!Next
    OBVIOUS
  <2>1. ASSUME NEW k \in Keys, SubmitAlreadyThere(k) PROVE Promise!Next
    BY <2>1, AlreadyThereKeepsPromise
  <2>2. ASSUME NEW k \in Keys \cup {NoKey}, NEW verdict \in MigrationTransitions["requested"],
               SubmitMove(k, verdict)
        PROVE  Promise!Next
    BY <2>2, SubmitMoveKeepsPromise
  <2>3. ASSUME NEW o \in DOMAIN records, NEW to \in MigrationState, Transition(o, to)
        PROVE  Promise!Next
    BY <2>3, TransitionKeepsPromise
  <2>4. CASE DropExpiredRecords
    BY <2>4, DropKeepsPromise
  <2>5. CASE DropAll
    <3>1. Told(receipts') = EmptyMap /\ LiveMoves(records') = EmptyMap
      BY <2>5 DEF DropAll, EmptyMap, Told, LiveMoves, Live
    <3> QED
      BY <3>1, PromiseStop DEF Promise!Next
  <2>6. CASE Tick \/ UNCHANGED vars
    BY <2>6 DEF Tick, vars, Told, LiveMoves, Live
  <2> QED
    BY <2>1, <2>2, <2>3, <2>4, <2>5, <2>6 DEF Next
<1>3. <<Told(receipts), LiveMoves(records)>> = <<
         [k \in DOMAIN receipts |-> [answer |-> receipts[k].answer, op |-> receipts[k].op]],
         [o \in Live(records) |-> [key |-> records[o].key, state |-> records[o].state]]>>
  BY DEF Told, LiveMoves
<1> QED
  BY <1>1, <1>2, StoreInvInit, StoreInvStep, StoreAssumption, PTL
     DEF Spec, KeepsItsPromise, Promise!Spec, Told, LiveMoves

=============================================================================
