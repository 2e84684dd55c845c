---------------------------- MODULE ConfigEditor ----------------------------
(***************************************************************************)
(* The form of the administration page in which pairs, their targets and   *)
(* their load balancing groups are edited                                  *)
(* (src/src/admin/static/modules/proxy-config.js, load-balancing.js), and  *)
(* the configuration it is loaded from and saved to                        *)
(* (config-schema.ts, config-normalizer.ts, config-preservation.ts behind  *)
(* routes/pairs.ts).                                                       *)
(*                                                                         *)
(* What the controls show is one thing (`form`), the objects behind them   *)
(* another (`pairs`): controls are read into the objects when something    *)
(* needs them, objects are painted when their shape changes.  Saves,       *)
(* switches and price imports are answered while the user goes on.         *)
(*                                                                         *)
(* ConfigApply shows that a write is applied whole or not at all: here it  *)
(* is one step.  Of a pair's and a target's text fields one stands for     *)
(* all, of a price rule its pattern.  One page is open.                    *)
(***************************************************************************)
EXTENDS Page, Maps, Sequences, FiniteSets, SequencesExt

CONSTANTS
  ProxyIds, TargetIds, GroupIds,   \* the ids in use and those the page may draw
  Urls, Fresh,    \* what a text field may hold; what it holds in a new target
  Trimmed(_),     \* what the server makes of it
  Models, Patterns,   \* names a model box and a price rule may be given
  Catalog,        \* what a price import may answer, sequences of patterns
  Keys,           \* <<pair, target>> -> what someone wrote into the file by hand for it
  Openings,         \* configurations the page may be opened on
  MaxActs,        \* what the user and the network do
  MaxCalls        \* calls the page makes

ASSUME EditorAssumption ==
  /\ {MaxActs, MaxCalls} \subseteq Nat
  /\ Fresh \in Urls /\ None \notin Urls /\ Trimmed(Fresh) = Fresh
  /\ "" \in Models /\ "" \in Patterns
  /\ \A v \in Urls : Trimmed(v) \in Urls /\ Trimmed(Trimmed(v)) = Trimmed(v)
  /\ \A answer \in Catalog : answer \in Seq(ToSet(answer))

\* A target's id is unique in its pair.
Places == ProxyIds \X TargetIds

Rules == Patterns \cup UNION {ToSet(answer) : answer \in Catalog}
TargetConfig ==
  [id : TargetIds, url : Urls, on : BOOLEAN, prices : Seq(Rules),
   key : {None} \cup {Keys[place] : place \in Places}]
LoadBalancerGroup == [id : GroupIds, members : Seq([target : TargetIds, model : Models])]
ProxyPair ==
  [id : ProxyIds, enabled : BOOLEAN, targets : Seq(TargetConfig), default : TargetIds,
   groups : Seq(LoadBalancerGroup)]

VARIABLES
  committed,  \* the server's configuration
  writes,      \* writes that wait for their turn there
  pairs,      \* state.pairs
  form,       \* what the controls show
  drag,       \* targetDrag
  calls,      \* on their way, there or back
  typed,      \* history: <<pair, target>> -> what the user last wrote, until an answer carried it
  doubted,    \* history: pairs whose switch overlapped another write, or got no answer
  drawn,      \* history: ids that were ever in use; those the page makes never come again
  acts, made  \* spent

server == <<committed, writes>>
history == <<typed, doubted>>
Lists == {pairs, committed} \cup {c.body : c \in {d \in calls : d.kind = "put"}}
formVars == <<server, pairs, form, drag, calls, history, drawn, acts, made>>

IdsOf(s) == {s[i].id : i \in DOMAIN s}
IndexOf(s, id) == CHOOSE i \in DOMAIN s : s[i].id = id

-----------------------------------------------------------------------------
\* The server

\* targetConfigSchema, loadBalancerGroupSchema, proxyConfigFileSchema: what a save is refused for.
UniqueIds(s) == Cardinality(IdsOf(s)) = Len(s)
ValidTarget(target) == IsInjective(target.prices) /\ "" \notin ToSet(target.prices)
ValidGroup(group, targets) ==
  LET members == {group.members[m].target : m \in DOMAIN group.members}
  IN  /\ group.members # <<>> /\ Cardinality(members) = Len(group.members)
      /\ members \subseteq IdsOf(targets)
      /\ \A s, t \in members : targets[IndexOf(targets, s)].prices = targets[IndexOf(targets, t)].prices
ValidList(list) ==
  /\ UniqueIds(list)
  /\ \A i \in DOMAIN list :
       /\ list[i].targets # <<>> /\ UniqueIds(list[i].targets) /\ UniqueIds(list[i].groups)
       /\ \A j \in DOMAIN list[i].targets : ValidTarget(list[i].targets[j])
       /\ \A k \in DOMAIN list[i].groups : ValidGroup(list[i].groups[k], list[i].targets)

\* normalizeDefaultTargetId: a default that is no target of the pair gives way to the first.
DefaultOf(pair) ==
  IF pair.targets = <<>> \/ pair.default \in IdsOf(pair.targets) THEN pair.default ELSE pair.targets[1].id

\* normalizeProxyPair, normalizeTargetConfig, of what the schema knows: a field it does not know
\* is gone.
ParsedTarget(target) == [target EXCEPT !.url = Trimmed(target.url), !.key = None]
ParsedPair(pair) ==
  [pair EXCEPT !.default = DefaultOf(pair),
               !.targets = [j \in DOMAIN pair.targets |-> ParsedTarget(pair.targets[j])]]
Parsed(list) == [i \in DOMAIN list |-> ParsedPair(list[i])]

\* Mutant: the fields that stay are those of the configuration that is replaced.
PreservedFromFile(parsed, source) ==
  [i \in DOMAIN parsed |-> [parsed[i] EXCEPT !.targets =
     [j \in DOMAIN @ |-> [@[j] EXCEPT !.key =
        IF i \in DOMAIN committed /\ j \in DOMAIN committed[i].targets
          THEN committed[i].targets[j].key ELSE None]]]]

\* preserveConfigFileFields: each object takes back what the one at its place came with.
Preserved(parsed, source) ==
  [i \in DOMAIN parsed |-> [parsed[i] EXCEPT !.targets =
     [j \in DOMAIN @ |-> [@[j] EXCEPT !.key = source[i].targets[j].key]]]]

\* validateProxyConfigFile, of a body that materializeProxyConfigFile once made.
Stored(body) == Preserved(Parsed(body), body)

\* What the page is opened on was validated and normalised when it was read from the file.
ASSUME OpeningAssumption ==
  \A list \in Openings :
    /\ list \in Seq(ProxyPair) /\ ValidList(list)
    /\ \A i \in DOMAIN list :
         /\ list[i].default = DefaultOf(list[i])
         /\ \A j \in DOMAIN list[i].targets :
              /\ list[i].targets[j].url = Trimmed(list[i].targets[j].url)
              /\ list[i].targets[j].key = Keys[<<list[i].id, list[i].targets[j].id>>]
    /\ \A place \in Places : Keys[place] # None =>
         \E i \in DOMAIN list : \E j \in DOMAIN list[i].targets :
           place = <<list[i].id, list[i].targets[j].id>>

Switched(list, id, on) == [i \in DOMAIN list |-> IF list[i].id = id THEN [list[i] EXCEPT !.enabled = on] ELSE list[i]]

-----------------------------------------------------------------------------
\* Objects and controls

NewTarget(id) == [id |-> id, url |-> Fresh, on |-> TRUE, prices |-> <<>>, key |-> None]
NewPair(id, target) ==
  [id |-> id, enabled |-> FALSE, targets |-> <<NewTarget(target)>>, default |-> target, groups |-> <<>>]

\* lbGroupCard: a box per target, ticked for a member, and a model box per ticked member.
GroupCard(group, targets) ==
  LET ticked == {t \in IdsOf(targets) : \E m \in DOMAIN group.members : group.members[m].target = t}
  IN [ticked |-> ticked,
      model  |-> [t \in ticked |-> (CHOOSE m \in ToSet(group.members) : m.target = t).model]]

\* renderTarget: the default target's box is ticked and cannot be unticked.
TargetCard(target, pair) ==
  [url |-> target.url, on |-> target.on \/ pair.default = target.id, prices |-> target.prices]

\* renderPairs
Card(pair) ==
  [switch  |-> pair.enabled,
   radio   |-> IF pair.default \in IdsOf(pair.targets) THEN IndexOf(pair.targets, pair.default) ELSE 0,
   targets |-> [j \in DOMAIN pair.targets |-> TargetCard(pair.targets[j], pair)],
   groups  |-> [k \in DOMAIN pair.groups |-> GroupCard(pair.groups[k], pair.targets)]]
PaintedForm(list) == [i \in DOMAIN list |-> Card(list[i])]

\* lbCollectMembers: the members there were keep their order, new ones follow in the boxes' order.
Members(card, previous, targets) ==
  LET kept == Keeping(previous, {m \in ToSet(previous) : m.target \in card.ticked})
      new  == Keeping(targets, {t \in ToSet(targets) :
                t.id \in card.ticked /\ \A m \in ToSet(previous) : m.target # t.id})
      Read(t) == [target |-> t, model |-> card.model[t]]
  IN  [m \in DOMAIN kept |-> Read(kept[m].target)] \o [n \in DOMAIN new |-> Read(new[n].id)]

\* collectGroups
CollectedGroup(group, card, targets) == [group EXCEPT !.members = Members(card, @, targets)]

\* collectPairs, of one card; the switch of a pair is not among the controls it reads.
CollectedPair(pair, card) ==
  LET default == IF card.radio = 0 THEN pair.default ELSE pair.targets[card.radio].id
      Read(target, shown) == [target EXCEPT !.url = shown.url, !.prices = shown.prices,
                                            !.on = shown.on \/ target.id = default]
      targets == [j \in DOMAIN pair.targets |-> Read(pair.targets[j], card.targets[j])]
      groups  == [k \in DOMAIN pair.groups |-> CollectedGroup(pair.groups[k], card.groups[k], pair.targets)]
  IN [pair EXCEPT !.default = default, !.targets = targets, !.groups = groups]

\* Mutant: it is.
CollectedWithSwitch ==
  [i \in DOMAIN pairs |-> [CollectedPair(pairs[i], form[i]) EXCEPT !.enabled = form[i].switch]]

Collected == [i \in DOMAIN pairs |-> CollectedPair(pairs[i], form[i])]

\* The cards of a pair as they stand in the page, which a drag has begun to reorder.
InPage(i) ==
  IF drag # None /\ drag.seen /\ drag.pair = i THEN drag.order ELSE [j \in DOMAIN form[i].targets |-> j]

\* formSignature: the values of the controls in the order of the page, and nothing of whose they are.
FormSignature ==
  [i \in DOMAIN form |->
     [switch  |-> form[i].switch,
      targets |-> [n \in DOMAIN InPage(i) |->
                     <<form[i].targets[InPage(i)[n]], form[i].radio = InPage(i)[n]>>],
      groups  |-> [k \in DOMAIN form[i].groups |->
        <<[j \in DOMAIN pairs[i].targets |-> pairs[i].targets[j].id \in form[i].groups[k].ticked],
          [m \in DOMAIN Members(form[i].groups[k], pairs[i].groups[k].members, pairs[i].targets) |->
             Members(form[i].groups[k], pairs[i].groups[k].members, pairs[i].targets)[m].model]>>]]]

-----------------------------------------------------------------------------
FormInit ==
  /\ committed \in Openings /\ writes = <<>>
  /\ pairs = committed /\ form = PaintedForm(pairs) /\ drag = None
  /\ calls = {} /\ doubted = {} /\ typed = [place \in Places |-> None]
  /\ drawn = IdsOf(pairs) \cup UNION {IdsOf(pairs[i].targets) \cup IdsOf(pairs[i].groups) : i \in DOMAIN pairs}
  /\ acts = 0 /\ made = 0

\* A render leaves the cards of a running drag behind.
Unseen == IF drag = None THEN None ELSE [drag EXCEPT !.seen = FALSE]
Paints(list) == pairs' = list /\ form' = PaintedForm(list) /\ drag' = Unseen

\* The user has both hands for one thing.
Acts == drag = None /\ acts < MaxActs /\ acts' = acts + 1
EditsOnly == UNCHANGED <<server, calls, doubted, made>>

\* Controls that are typed into or clicked; nothing is read from them yet.
TypeUrl(i, j, v) ==
  /\ Acts /\ EditsOnly /\ form[i].targets[j].url # v
  /\ form' = [form EXCEPT ![i].targets[j].url = v]
  /\ typed' = [typed EXCEPT ![<<pairs[i].id, pairs[i].targets[j].id>>] = v]
  /\ UNCHANGED <<pairs, drag>>

TypePattern(i, j, n, v) ==
  /\ Acts /\ EditsOnly /\ form[i].targets[j].prices[n] # v
  /\ form' = [form EXCEPT ![i].targets[j].prices[n] = v]
  /\ UNCHANGED <<pairs, drag, typed>>

TypeModel(i, k, t, v) ==
  /\ Acts /\ EditsOnly /\ form[i].groups[k].model[t] # v
  /\ form' = [form EXCEPT ![i].groups[k].model[t] = v]
  /\ UNCHANGED <<pairs, drag, typed>>

ToggleTarget(i, j) ==
  /\ Acts /\ EditsOnly /\ pairs[i].default # pairs[i].targets[j].id
  /\ form' = [form EXCEPT ![i].targets[j].on = ~ @]
  /\ UNCHANGED <<pairs, drag, typed>>

\* refreshLbCards: a ticked target gets a model box, with the model it is a member with if it is.
Tick(i, k, t) ==
  LET card == form[i].groups[k]
      member == {m \in ToSet(pairs[i].groups[k].members) : m.target = t}
      model == IF member = {} THEN "" ELSE (CHOOSE m \in member : TRUE).model
  IN  /\ Acts /\ EditsOnly
      /\ form' = [form EXCEPT ![i].groups[k] =
           IF t \in card.ticked
             THEN [ticked |-> card.ticked \ {t}, model |-> Without(card.model, {t})]
             ELSE [ticked |-> card.ticked \cup {t}, model |-> Put(card.model, t, model)]]
      /\ UNCHANGED <<pairs, drag, typed>>

\* Operations on the shape: the controls are read, the objects changed, everything painted.
Reshapes(list) == Acts /\ EditsOnly /\ Paints(list) /\ UNCHANGED typed

ChooseDefault(i, j) ==
  /\ form[i].radio # j
  /\ Acts /\ EditsOnly /\ UNCHANGED typed
  /\ LET read == CollectedPair(pairs[i], [form[i] EXCEPT !.radio = j])
     IN  Paints([Collected EXCEPT ![i] = read])

\* A new id
Draws(ids) == drawn \cap ids = {} /\ drawn' = drawn \cup ids

AddPair == \E id \in ProxyIds, t \in TargetIds :
  /\ Draws({id, t})
  /\ Acts /\ EditsOnly /\ UNCHANGED typed
  /\ Paints(Append(Collected, NewPair(id, t)))

\* The objects of a pair that left are no longer those of the page.
Strayed(c, gone) == IF c.kind = "import" /\ c.pair \in gone THEN [c EXCEPT !.stray = TRUE] ELSE c

RemovePair(i) ==
  /\ Acts /\ Paints(RemoveAt(Collected, i))
  /\ calls' = {Strayed(c, {pairs[i].id}) : c \in calls}
  /\ UNCHANGED <<server, history, made>>

AddTarget(i) == \E t \in TargetIds :
  /\ Draws({t})
  /\ Acts /\ EditsOnly /\ UNCHANGED typed
  /\ Paints([Collected EXCEPT ![i].targets = Append(@, NewTarget(t))])

\* withoutMember
Leaving(group, t) == [group EXCEPT !.members = Keeping(@, {m \in ToSet(@) : m.target # t})]

\* Mutant: a pair may keep a default it no longer has.
WithoutTargetOnly(pair, j) ==
  LET groups == [k \in DOMAIN pair.groups |-> Leaving(pair.groups[k], pair.targets[j].id)]
  IN [pair EXCEPT !.targets = RemoveAt(pair.targets, j), !.groups = groups]

WithoutTarget(pair, j) ==
  LET gone    == pair.targets[j].id
      targets == RemoveAt(pair.targets, j)
      default == IF pair.default = gone THEN targets[1].id ELSE pair.default
      groups  == [k \in DOMAIN pair.groups |-> Leaving(pair.groups[k], gone)]
  IN [pair EXCEPT !.targets = targets, !.default = default, !.groups = groups]

RemoveTarget(i, j) ==
  /\ Len(pairs[i].targets) > 1
  /\ Reshapes([Collected EXCEPT ![i] = WithoutTarget(@, j)])

AddGroup(i) == \E g \in GroupIds :
  /\ Draws({g})
  /\ Acts /\ EditsOnly /\ UNCHANGED typed
  /\ Paints([Collected EXCEPT ![i].groups = Append(@, [id |-> g, members |-> <<>>])])
RemoveGroup(i, k) == Reshapes([Collected EXCEPT ![i].groups = RemoveAt(@, k)])

AddRule(i, j) == Reshapes([Collected EXCEPT ![i].targets[j].prices = Append(@, "")])
RemoveRule(i, j, n) == Reshapes([Collected EXCEPT ![i].targets[j].prices = RemoveAt(@, n)])
SwapRules(i, j, n) ==
  /\ n < Len(form[i].targets[j].prices)
  /\ Reshapes([Collected EXCEPT ![i].targets[j].prices =
                 [m \in DOMAIN @ |-> @[IF m = n THEN n + 1 ELSE IF m = n + 1 THEN n ELSE m]]])

\* moveTargetCardByKey
MoveByKey(i, j) ==
  /\ j < Len(pairs[i].targets)
  /\ Reshapes([Collected EXCEPT ![i].targets =
                 [m \in DOMAIN @ |-> @[IF m = j THEN j + 1 ELSE IF m = j + 1 THEN j ELSE m]]])

\* Another language: what the controls show is read, painted in it and put back.
SwitchLanguage ==
  /\ Acts /\ EditsOnly /\ pairs # Collected
  /\ pairs' = Collected /\ UNCHANGED <<form, drag, typed>>

-----------------------------------------------------------------------------
\* A drag of a target card

StartDrag(i) ==
  /\ Len(pairs[i].targets) > 1
  /\ Acts /\ EditsOnly
  /\ pairs' = Collected
  /\ drag' = [pair |-> i, order |-> [j \in DOMAIN pairs[i].targets |-> j], seen |-> TRUE]
  /\ UNCHANGED <<form, typed>>

\* moveTargetCardToPointer: the card takes the place of another, in the row it was taken from.
DragOver(from, to) ==
  /\ drag # None /\ acts < MaxActs /\ acts' = acts + 1
  /\ from # to
  /\ drag' = [drag EXCEPT !.order = InsertAt(RemoveAt(@, from), to, @[from])]
  /\ EditsOnly /\ UNCHANGED <<pairs, form, typed>>

Ordered(targets) ==
  LET known == Keeping(drag.order, DOMAIN targets) IN [n \in DOMAIN known |-> targets[known[n]]]

\* commitTargetDrag
Drop ==
  /\ drag # None
  /\ drag' = None
  /\ IF drag.pair \in DOMAIN pairs /\ Len(Ordered(pairs[drag.pair].targets)) = Len(pairs[drag.pair].targets)
       THEN LET list == [pairs EXCEPT ![drag.pair].targets = Ordered(@)]
            IN  pairs' = list /\ form' = PaintedForm(list)
       ELSE UNCHANGED <<pairs, form>>
  /\ EditsOnly /\ UNCHANGED <<typed, acts>>

\* cancelTargetDrag, of one that began to move.
CancelDrag ==
  /\ drag # None
  /\ drag' = None /\ form' = PaintedForm(pairs)
  /\ EditsOnly /\ UNCHANGED <<pairs, typed, acts>>

-----------------------------------------------------------------------------
\* Calls of the page

Calls(c) == made < MaxCalls /\ made' = made + 1 /\ calls' = calls \cup {c}
Switches == {c \in calls : c.kind = "switch"}

\* savePairs up to its await; `then` is the switch that comes after it, from the toggle of a pair.
PutCall(shown, then) ==
  [kind |-> "put", body |-> Collected, then |-> then, signature |-> shown, typed |-> typed,
   n |-> made, heard |-> TRUE, at |-> "sent", answer |-> None]

SavePairs ==
  /\ Acts /\ Calls(PutCall(FormSignature, None))
  /\ pairs' = Collected
  /\ doubted' = doubted \cup {c.pair : c \in Switches}
  /\ UNCHANGED <<server, form, drag, typed>>

\* The box has its new state before anything is done about it.
ToggleSwitch(i) ==
  LET on == ~ form[i].switch
      then == [pair |-> pairs[i].id, on |-> on]
  IN  /\ Acts /\ Calls(PutCall([FormSignature EXCEPT ![i].switch = on], then))
      /\ pairs' = Collected /\ form' = [form EXCEPT ![i].switch = on]
      /\ doubted' = doubted \cup {c.pair : c \in Switches}
      /\ UNCHANGED <<server, drag, typed>>

\* The object and the place of the card are remembered, not which target it is.
Import(i, j) ==
  /\ Acts
  /\ Calls([kind |-> "import", pair |-> pairs[i].id, index |-> j, stray |-> FALSE,
            n |-> made, heard |-> TRUE, at |-> "sent", answer |-> None])
  /\ pairs' = Collected
  /\ UNCHANGED <<server, form, drag, history>>

\* An answer, or what it answers, is lost; or the page was left, which lets go of all.
Lets(gone) ==
  /\ gone # {}
  /\ calls' = {IF c \in gone THEN [c EXCEPT !.heard = FALSE] ELSE c : c \in calls}
  /\ doubted' = doubted \cup {c.pair : c \in {d \in gone : d.kind = "switch"}}
Lost(c) == c.heard /\ acts < MaxActs /\ acts' = acts + 1 /\ Lets({c})
           /\ UNCHANGED <<server, pairs, form, drag, typed, made>>

\* dispose, and init when the page is shown again.
LeaveAndReturn ==
  /\ acts < MaxActs /\ acts' = acts + 1
  /\ Lets({c \in calls : c.heard})
  /\ pairs' = Collected /\ drag' = None
  /\ form' = IF drag = None THEN form ELSE PaintedForm(Collected)
  /\ UNCHANGED <<server, typed, made>>

-----------------------------------------------------------------------------
\* What the server makes of them, in any order

Becomes(c, answer) == calls' = (calls \ {c}) \cup {[c EXCEPT !.at = "done", !.answer = answer]}
Waits(c, list) == calls' = (calls \ {c}) \cup {[c EXCEPT !.at = "queued"]} /\ writes' = Append(writes, [n |-> c.n, list |-> list])
Refused == None

\* replacePairs
PutServed(c) ==
  /\ c.kind = "put" /\ c.at = "sent"
  /\ IF ValidList(Parsed(c.body)) THEN Waits(c, Stored(c.body)) ELSE Becomes(c, Refused) /\ UNCHANGED writes
  /\ UNCHANGED <<committed, pairs, form, drag, history, acts, made>>

\* setPairEnabled: the list it replaces is the one of this moment.
SwitchServed(c) ==
  /\ c.kind = "switch" /\ c.at = "sent"
  /\ IF c.pair \notin IdsOf(committed) THEN Becomes(c, Refused) /\ UNCHANGED writes
     ELSE IF committed[IndexOf(committed, c.pair)].enabled = c.on THEN Becomes(c, c.on) /\ UNCHANGED writes
     ELSE Waits(c, Switched(committed, c.pair, c.on))
  /\ UNCHANGED <<committed, pairs, form, drag, history, acts, made>>

\* POST /api/model-prices/import
ImportServed(c) ==
  /\ c.kind = "import" /\ c.at = "sent"
  /\ \E answer \in Catalog \cup {Refused} : Becomes(c, answer)
  /\ UNCHANGED <<server, pairs, form, drag, history, acts, made>>

\* A write whose turn it is, applied or, when an address is taken, refused.
Applied ==
  /\ writes # <<>>
  /\ writes' = Tail(writes)
  /\ LET c == CHOOSE d \in calls : d.n = Head(writes).n
         list == Head(writes).list
     IN \/ committed' = list /\ Becomes(c, IF c.kind = "put" THEN list ELSE c.on)
        \/ UNCHANGED committed /\ Becomes(c, Refused)
  /\ UNCHANGED <<pairs, form, drag, history, acts, made>>

\* ConfigRepository.load, after a restart: what was committed is read from the file.
Restart ==
  /\ writes = <<>> /\ acts < MaxActs /\ acts' = acts + 1
  /\ \E c \in calls : c.at # "done"
  /\ committed' = Stored(committed)
  /\ calls' = {IF c.at = "done" THEN c ELSE [c EXCEPT !.at = "done", !.answer = Refused] : c \in calls}
  /\ doubted' = doubted \cup {c.pair : c \in {d \in calls : d.kind = "switch" /\ d.at # "done"}}
  /\ UNCHANGED <<writes, pairs, form, drag, typed, made>>

-----------------------------------------------------------------------------
\* Answers

\* Nobody is there any more to hear it.
Unheard(c) ==
  /\ c.at = "done" /\ ~ c.heard
  /\ calls' = calls \ {c}
  /\ UNCHANGED <<server, pairs, form, drag, history, acts, made>>

Heard(c, kind) == c.kind = kind /\ c.at = "done" /\ c.heard

\* Mutant: the form becomes what was saved.
AdoptsAlways(c) == TRUE

\* The answer replaces the form if that still shows what was sent.
Adopts(c) == FormSignature = c.signature

\* The values do not say whose they are: with other targets in the places of those that were
\* sent, a form may show the same, and what was done to it since is lost (history: forgotten).
InPlace == [i \in DOMAIN pairs |-> [n \in DOMAIN InPage(i) |-> <<pairs[i].id, pairs[i].targets[InPage(i)[n]].id>>]]
Sent(c) == [i \in DOMAIN c.body |-> [j \in DOMAIN c.body[i].targets |-> <<c.body[i].id, c.body[i].targets[j].id>>]]

Told(c) ==
  [place \in Places |->
     IF typed[place] = c.typed[place] \/ InPlace # Sent(c) THEN None ELSE typed[place]]

\* savePairs after its await, and the switch that waited for it.
PutArrives(c) ==
  /\ Heard(c, "put") /\ c.answer # Refused
  /\ LET stay == {IF Adopts(c) THEN Strayed(d, ProxyIds) ELSE d : d \in calls \ {c}}
     IN  IF c.then = None THEN calls' = stay /\ UNCHANGED <<made, doubted>>
         ELSE /\ calls' = stay \cup {[kind |-> "switch", pair |-> c.then.pair, on |-> c.then.on,
                                      n |-> made, heard |-> TRUE, at |-> "sent", answer |-> None]}
              /\ made' = made + 1
              /\ doubted' = IF \E d \in calls \ {c} : d.kind # "import"
                              THEN doubted \cup {c.then.pair} \cup {d.pair : d \in Switches} ELSE doubted
  /\ IF Adopts(c) THEN Paints(c.answer) /\ typed' = Told(c)
     ELSE pairs' = Collected /\ UNCHANGED <<form, drag, typed>>
  /\ UNCHANGED <<server, acts>>

\* The switch and the lamp of the pair, wherever its card is now.
SwitchArrives(c) ==
  /\ Heard(c, "switch") /\ c.answer # Refused
  /\ calls' = calls \ {c}
  /\ IF c.pair \in IdsOf(pairs)
       THEN LET i == IndexOf(pairs, c.pair)
            IN  pairs' = Switched(pairs, c.pair, c.answer) /\ form' = [form EXCEPT ![i].switch = c.answer]
       ELSE UNCHANGED <<pairs, form>>
  /\ UNCHANGED <<server, drag, history, acts, made>>

\* Rules for models that have none yet are put at the end.
Imported(rules, answer) ==
  LET after[n \in 0..Len(answer)] ==
        IF n = 0 THEN rules
        ELSE IF answer[n] \in ToSet(after[n - 1]) THEN after[n - 1] ELSE Append(after[n - 1], answer[n])
  IN  after[Len(answer)]

ImportArrives(c) ==
  /\ Heard(c, "import") /\ c.answer # Refused
  /\ calls' = calls \ {c}
  /\ IF c.stray THEN Paints(Collected)
     ELSE LET i == IndexOf(pairs, c.pair)
          IN  IF c.index \in DOMAIN pairs[i].targets
                THEN Paints([Collected EXCEPT ![i].targets[c.index].prices = Imported(@, c.answer)])
                ELSE pairs' = Collected /\ UNCHANGED <<form, drag>>
  /\ UNCHANGED <<server, history, acts, made>>

\* A toast tells of it, and that is all: the box that was ticked stays as it is.
Fails(c) ==
  /\ c.at = "done" /\ c.heard /\ c.answer = Refused
  /\ calls' = calls \ {c}
  /\ doubted' = IF c.kind = "switch" THEN doubted \cup {c.pair} ELSE doubted
  /\ UNCHANGED <<server, pairs, form, drag, typed, acts, made>>

-----------------------------------------------------------------------------
EditsTarget(i, j) ==
  \/ \E v \in Urls : TypeUrl(i, j, v)
  \/ ToggleTarget(i, j)
  \/ ChooseDefault(i, j)
  \/ RemoveTarget(i, j)
  \/ MoveByKey(i, j)
  \/ Import(i, j)
  \/ AddRule(i, j)
  \/ \E n \in DOMAIN form[i].targets[j].prices :
       \/ \E v \in Patterns : TypePattern(i, j, n, v)
       \/ RemoveRule(i, j, n)
       \/ SwapRules(i, j, n)

EditsGroup(i, k) ==
  \/ \E t \in IdsOf(pairs[i].targets) : Tick(i, k, t)
  \/ \E t \in form[i].groups[k].ticked, v \in Models : TypeModel(i, k, t, v)
  \/ RemoveGroup(i, k)

Adds ==
  \/ AddPair
  \/ \E i \in DOMAIN pairs : AddTarget(i) \/ AddGroup(i)

Edits ==
  \/ SwitchLanguage
  \/ \E i \in DOMAIN pairs :
       \/ RemovePair(i)
       \/ StartDrag(i)
       \/ ToggleSwitch(i)
       \/ \E j \in DOMAIN pairs[i].targets : EditsTarget(i, j)
       \/ \E k \in DOMAIN pairs[i].groups : EditsGroup(i, k)

Drags ==
  \/ drag # None /\ \E from, to \in DOMAIN drag.order : DragOver(from, to)
  \/ Drop
  \/ CancelDrag

Answers(c) ==
  \/ PutServed(c)
  \/ SwitchServed(c)
  \/ ImportServed(c)
  \/ PutArrives(c)
  \/ SwitchArrives(c)
  \/ ImportArrives(c)
  \/ Fails(c)
  \/ Unheard(c)
  \/ Lost(c)

Goes ==
  \/ Edits
  \/ Drags
  \/ SavePairs
  \/ LeaveAndReturn
  \/ Applied
  \/ Restart
  \/ \E c \in calls : Answers(c)

FormNext ==
  \/ Adds
  \/ Goes /\ UNCHANGED drawn

FormSpec == FormInit /\ [][FormNext]_formVars

-----------------------------------------------------------------------------
\* What a target's field was last given is what it shows, through every render, reordering and
\* late answer, until an answer came that had it, or one to a form that showed the same with
\* other targets in its places (savePairs, formSignature).
NothingTypedIsLost ==
  \A i \in DOMAIN pairs : \A j \in DOMAIN pairs[i].targets :
    LET last == typed[<<pairs[i].id, pairs[i].targets[j].id>>]
    IN  last # None => form[i].targets[j].url = last

EnabledIn(list, p) == list[IndexOf(list, p)].enabled

\* A pair is switched by its switch: a save turns none on or off, unless its switch and another
\* write were under way together or its switch got no answer.
OnlyTheSwitchSwitches ==
  [][\A p \in IdsOf(committed) \cap IdsOf(committed') :
       EnabledIn(committed, p) # EnabledIn(committed', p) =>
         p \in doubted \/ \E c \in Switches : c.pair = p /\ c.n = Head(writes).n]_formVars

\* What someone wrote into the file by hand stays with its target, wherever that is moved, in
\* every list that is held or on its way.
KeysStayWithTheirTarget ==
  \A list \in Lists \cup {writes[q].list : q \in DOMAIN writes} :
    \A i \in DOMAIN list : \A j \in DOMAIN list[i].targets :
      list[i].targets[j].key = Keys[<<list[i].id, list[i].targets[j].id>>]

NoneTwice(prices) ==
  \A a, b \in DOMAIN prices : a # b => prices[a] # prices[b] \/ prices[a] \in Patterns
WellFormed(pair) ==
  /\ \E target \in ToSet(pair.targets) : target.id = pair.default /\ target.on
  /\ \A k \in DOMAIN pair.groups : \A m \in ToSet(pair.groups[k].members) : m.target \in IdsOf(pair.targets)
  /\ \A target \in ToSet(pair.targets) : NoneTwice(target.prices)

\* What the page sends has a default target that is enabled, members that exist and, except for
\* what the user typed, no price twice; the server checks the first of these nowhere.
SentIsWellFormed ==
  \A c \in calls : c.kind = "put" => \A i \in DOMAIN c.body : WellFormed(c.body[i])

=============================================================================
