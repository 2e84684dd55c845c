---------------------------- MODULE PairRuntime ----------------------------
(***************************************************************************)
(* One proxy pair at run time (src/src/proxy/proxy-runtime-registry.ts):   *)
(* its listener, the generations of its pipeline, the log services they    *)
(* write to, the drains of superseded generations and the requests that    *)
(* run on all of them, with the write queues behind the services           *)
(* (src/src/logging/traffic-log-service.ts, write-queue.ts).               *)
(*                                                                         *)
(* A log service is found by its key (log root and redaction); a root has  *)
(* one queue, whichever services write to it.  A generation is the map     *)
(* from the keys of its targets to services.  Calls of the registry come   *)
(* one at a time, as the manager's apply queue makes them.  A request is   *)
(* its handler: where it is, whose generation it runs on, which key its    *)
(* next record goes to and whether its connection is open.  A handler that *)
(* ended may come again as another request.                                *)
(***************************************************************************)
EXTENDS Maps, Integers, Sequences, FiniteSets, Functions

CONSTANTS
  Requests,
  Keys,          \* logServiceKey: log root and redaction
  Roots,         \* log roots
  NoKey,         \* before a target is selected
  RootOf,        \* key -> its log root
  Offers,        \* sets of keys: what the targets of a configuration log to
  MaxGens,       \* bound: pipelines built
  MaxServices    \* bound: log services built

ASSUME RuntimeAssumption ==
  /\ NoKey \notin Keys
  /\ RootOf \in [Keys -> Roots]
  /\ Offers \subseteq SUBSET Keys \ {{}} /\ \A c \in Offers : IsFiniteSet(c)
  /\ MaxGens \in Nat /\ MaxServices \in Nat

VARIABLES
  runtime,       \* state machine of the pair
  stopping,      \* how far stopPair is: "no", "waiting", "forced", "logs"
  current,       \* generation new requests get, 0 while there are no resources
  gens,          \* generations: [logs: key -> service, first: generation its start made]
  logServices,   \* entry.logServices
  services,      \* every service built: [key, state, left]
  drains,        \* superseded generations: [gen, services, phase]
  req,           \* the handlers
  queue          \* root -> writes that wait, each of a service and a request

vars == <<runtime, stopping, current, gens, logServices, services, drains, req, queue>>

NoRequest == [pc |-> "idle", gen |-> 0, key |-> NoKey, conn |-> FALSE]

Init ==
  /\ runtime = "stopped" /\ stopping = "no" /\ current = 0
  /\ gens = <<>> /\ logServices = EmptyMap /\ services = <<>> /\ drains = {}
  /\ req = [r \in Requests |-> NoRequest]
  /\ queue = [o \in Roots |-> <<>>]

-----------------------------------------------------------------------------
\* TrafficLogService and SerialWriteQueue

RootOfService(s) == RootOf[services[s].key]

\* #enqueue: a closed service drops the write.
Write(r, g, k) ==
  LET s == gens[g].logs[k] IN
  queue' = IF services[s].state = "open"
           THEN [queue EXCEPT ![RootOf[k]] = Append(@, [service |-> s, request |-> r])]
           ELSE queue

\* A handler awaits its write: it goes on once no write of its waits.
Written(r) == \A o \in Roots : \A i \in DOMAIN queue[o] : queue[o][i].request # r

\* Mutant: the database is closed without waiting for the queue.
CloseAtOnce(S, now) ==
  [s \in DOMAIN now |-> IF s \in S /\ now[s].state = "open"
                        THEN [now[s] EXCEPT !.state = "closing"] ELSE now[s]]

\* close(): no more writes; drain() waits for what is in the queue now, whoever wrote it.
Close(S, now) ==
  [s \in DOMAIN now |->
     IF s \in S /\ now[s].state = "open"
     THEN [now[s] EXCEPT !.state = "closing", !.left = Len(queue[RootOf[now[s].key]])]
     ELSE now[s]]

\* The queue of a root takes its next operation.  It saves a record or fails; a failure is
\* logged and changes nothing here.
Save(o) ==
  /\ queue[o] # <<>>
  /\ queue' = [queue EXCEPT ![o] = Tail(@)]
  /\ services' = [s \in DOMAIN services |->
                    IF RootOfService(s) = o /\ services[s].state = "closing" /\ services[s].left > 0
                    THEN [services[s] EXCEPT !.left = @ - 1] ELSE services[s]]
  /\ UNCHANGED <<runtime, stopping, current, gens, logServices, drains, req>>

Closed(s) ==
  /\ services[s].state = "closing" /\ services[s].left = 0
  /\ services' = [services EXCEPT ![s].state = "closed"]
  /\ UNCHANGED <<runtime, stopping, current, gens, logServices, drains, req, queue>>

AllClosed(S) == \A s \in S : services[s].state = "closed"

\* #compileTargets: services by key, those of the entry used again.
MissingKeys(c) == c \ DOMAIN logServices

Compilations(c) ==
  {m \in [c -> 1..(Len(services) + Cardinality(c))] :
     /\ \A k \in c : IF k \in DOMAIN logServices THEN m[k] = logServices[k]
                                                 ELSE m[k] > Len(services)
     /\ {m[k] : k \in MissingKeys(c)} = Len(services) + 1 .. Len(services) + Cardinality(MissingKeys(c))}

Built(ks, m) ==
  services \o [i \in 1..Cardinality(ks) |->
                 [key |-> CHOOSE k \in ks : m[k] = Len(services) + i, state |-> "open", left |-> 0]]

\* Mutant: every service of the old configuration counts as superseded.
SupersededWhole(c) == Range(logServices)

Superseded(c) == {logServices[k] : k \in DOMAIN logServices \ c}

-----------------------------------------------------------------------------
\* ActiveRequestRegistry and the handler of a request

Active(g) == {r \in Requests : req[r].gen = g}

\* Requests whose response has not ended and whose connection is there.
Connected == {r \in Requests : req[r].conn}

\* abortAll.  A request that waits for its engine will answer an error and not be switched; one
\* that is not sent yet learns of it when it is.
Aborted(p) == IF p.pc = "sent" THEN [p EXCEPT !.pc = "switched"] ELSE p
Abort(S) == [r \in Requests |-> IF r \in S THEN Aborted(req[r]) ELSE req[r]]
Destroy(S) == [r \in Requests |-> IF r \in S THEN [Aborted(req[r]) EXCEPT !.conn = FALSE]
                                             ELSE req[r]]

KeysOf(r) == DOMAIN gens[req[r].gen].logs
OneTarget(g) == Cardinality(DOMAIN gens[g].logs) = 1

Handled == UNCHANGED <<runtime, stopping, current, gens, logServices, services, drains>>

\* A pair with one target logs the request before its body is read.
Arrive(r) ==
  /\ req[r].pc = "idle" /\ runtime = "running" /\ current # 0
  /\ IF OneTarget(current)
     THEN \E k \in DOMAIN gens[current].logs :
            /\ req' = [req EXCEPT ![r] = [pc |-> "receiving", gen |-> current, key |-> k,
                                         conn |-> TRUE]]
            /\ Write(r, current, k)
     ELSE /\ req' = [req EXCEPT ![r] = [NoRequest EXCEPT !.pc = "reading", !.gen = current,
                                                       !.conn = TRUE]]
          /\ UNCHANGED queue
  /\ Handled

Received(r) ==
  /\ req[r].pc = "receiving" /\ Written(r)
  /\ IF OneTarget(req[r].gen)
     THEN req' = [req EXCEPT ![r].pc = "reading"] /\ UNCHANGED queue
     ELSE req' = [req EXCEPT ![r].pc = "logging"] /\ Write(r, req[r].gen, req[r].key)
  /\ Handled

\* The body is there and a target is selected; the next record says the response is awaited,
\* with several targets after one that says the request was received.
Select(r) ==
  /\ req[r].pc = "reading"
  /\ \E k \in KeysOf(r) :
       /\ req' = [req EXCEPT ![r].pc = IF OneTarget(req[r].gen) THEN "logging" ELSE "receiving",
                             ![r].key = k]
       /\ Write(r, req[r].gen, k)
  /\ Handled

\* No node is usable: the client has its 503 and the refusal is logged as finished.
Refuse(r) ==
  /\ req[r].pc = "reading"
  /\ \E k \in KeysOf(r) :
       /\ req' = [req EXCEPT ![r].pc = "storing", ![r].key = k, ![r].conn = FALSE]
       /\ Write(r, req[r].gen, k)
  /\ Handled

\* The body is too large or the client leaves: the handler ends without another record.
BodyFails(r) ==
  /\ req[r].pc = "reading"
  /\ req' = [req EXCEPT ![r] = NoRequest]
  /\ UNCHANGED queue /\ Handled

Dispatch(r) ==
  /\ req[r].pc = "logging" /\ Written(r)
  /\ req' = [req EXCEPT ![r].pc = "sent"]
  /\ UNCHANGED queue /\ Handled

\* One switch to another node, which may log elsewhere.
Failover(r) ==
  /\ req[r].pc = "sent"
  /\ \E k \in KeysOf(r) : req' = [req EXCEPT ![r].pc = "switched", ![r].key = k]
  /\ UNCHANGED queue /\ Handled

\* The response is complete, or an error was answered: the client sees its end.
Answer(r) ==
  /\ req[r].pc \in {"sent", "switched"}
  /\ req' = [req EXCEPT ![r].pc = "answered", ![r].conn = FALSE]
  /\ UNCHANGED queue /\ Handled

\* Only then is the record finished and written.
Store(r) ==
  /\ req[r].pc = "answered"
  /\ req' = [req EXCEPT ![r].pc = "storing"]
  /\ Write(r, req[r].gen, req[r].key)
  /\ Handled

End(r) ==
  /\ req[r].pc = "storing" /\ Written(r)
  /\ req' = [req EXCEPT ![r] = NoRequest]
  /\ UNCHANGED queue /\ Handled

ClientLeaves(r) ==
  /\ r \in Connected
  /\ req' = Destroy({r})
  /\ UNCHANGED queue /\ Handled

-----------------------------------------------------------------------------
\* Start and reload

Room(c) == Len(gens) < MaxGens /\ Len(services) + Cardinality(MissingKeys(c)) <= MaxServices

BeginStart(c) ==
  /\ runtime \in {"stopped", "failed"} /\ Room(c)
  /\ runtime' = "starting"
  /\ \E m \in Compilations(c) :
       /\ gens' = Append(gens, [logs |-> m, first |-> Len(gens) + 1])
       /\ services' = Built(MissingKeys(c), m)
       /\ logServices' = m
  /\ current' = Len(gens) + 1
  /\ UNCHANGED <<stopping, drains, req, queue>>

Started ==
  /\ runtime = "starting" /\ current # 0
  /\ runtime' = "running"
  /\ UNCHANGED <<stopping, current, gens, logServices, services, drains, req, queue>>

\* The port is taken: what was built is closed, then the pair has failed.
StartFails ==
  /\ runtime = "starting" /\ current # 0
  /\ current' = 0 /\ logServices' = EmptyMap
  /\ services' = Close(Range(gens[current].logs), services)
  /\ UNCHANGED <<runtime, stopping, gens, drains, req, queue>>

StartFailed ==
  /\ runtime = "starting" /\ current = 0
  /\ AllClosed(Range(gens[Len(gens)].logs))
  /\ runtime' = "failed"
  /\ UNCHANGED <<stopping, current, gens, logServices, services, drains, req, queue>>

\* reloadPair on a running pair: the pipeline is swapped, the old one drains.  A reload whose
\* services cannot be built closes those it built and changes nothing.
Reload(c) ==
  /\ runtime = "running" /\ Room(c)
  /\ \E m \in Compilations(c) :
       /\ gens' = Append(gens, [logs |-> m, first |-> gens[current].first])
       /\ services' = Built(MissingKeys(c), m)
       /\ logServices' = m
  /\ current' = Len(gens) + 1
  /\ drains' = drains \cup {[gen |-> current, services |-> Superseded(c), phase |-> "waiting"]}
  /\ UNCHANGED <<runtime, stopping, req, queue>>

-----------------------------------------------------------------------------
\* Drains

Phase(d, phase) == (drains \ {d}) \cup {[d EXCEPT !.phase = phase]}

CloseSuperseded(d) ==
  /\ services' = Close(d.services, services)
  /\ drains' = Phase(d, "closing")

DrainIdle(d) ==
  /\ d.phase \in {"waiting", "aborted"} /\ Active(d.gen) = {}
  /\ CloseSuperseded(d)
  /\ UNCHANGED <<runtime, stopping, current, gens, logServices, req, queue>>

\* Mutant: the drain waits as long as its requests run.
DrainPatiently(d) == FALSE /\ UNCHANGED vars

DrainTimesOut(d) ==
  /\ d.phase = "waiting" /\ Active(d.gen) # {}
  /\ drains' = Phase(d, "aborted")
  /\ req' = Abort(Active(d.gen))
  /\ UNCHANGED <<runtime, stopping, current, gens, logServices, services, queue>>

\* The shutdown time-out: the services are closed whether or not the requests ended.
DrainGivesUp(d) ==
  /\ d.phase = "aborted" /\ Active(d.gen) # {}
  /\ CloseSuperseded(d)
  /\ UNCHANGED <<runtime, stopping, current, gens, logServices, req, queue>>

Drained(d) ==
  /\ d.phase = "closing" /\ AllClosed(d.services)
  /\ drains' = drains \ {d}
  /\ UNCHANGED <<runtime, stopping, current, gens, logServices, services, req, queue>>

-----------------------------------------------------------------------------
\* Stop

BeginStop ==
  /\ runtime' = "stopping" /\ stopping' = "waiting" /\ current' = 0
  /\ UNCHANGED <<gens, logServices, services, drains, queue>>

StopPair == runtime \in {"failed", "running"} /\ BeginStop /\ UNCHANGED req

\* stopAll: the drains are forced and the pair is stopped.
StopAll ==
  /\ runtime \in {"failed", "running"}
  /\ BeginStop
  /\ req' = Abort(UNION {Active(d.gen) : d \in drains})

\* The listener has closed when no connection is left.
ListenerClosed ==
  /\ stopping \in {"waiting", "forced"} /\ Connected = {}
  /\ stopping' = "logs"
  /\ services' = Close(Range(logServices), services)
  /\ UNCHANGED <<runtime, current, gens, logServices, drains, req, queue>>

\* The time-out: handlers are aborted and every connection is closed.
StopTimesOut ==
  /\ stopping = "waiting" /\ Connected # {}
  /\ stopping' = "forced"
  /\ req' = Destroy(Connected)
  /\ UNCHANGED <<runtime, current, gens, logServices, services, drains, queue>>

Stopped ==
  /\ stopping = "logs" /\ AllClosed(Range(logServices))
  /\ runtime' = "stopped" /\ stopping' = "no" /\ logServices' = EmptyMap
  /\ UNCHANGED <<current, gens, services, drains, req, queue>>

\* The process ends and starts again.
Crash ==
  /\ gens # <<>>
  /\ runtime' = "stopped" /\ stopping' = "no" /\ current' = 0
  /\ gens' = <<>> /\ logServices' = EmptyMap /\ services' = <<>> /\ drains' = {}
  /\ req' = [r \in Requests |-> NoRequest]
  /\ queue' = [o \in Roots |-> <<>>]

-----------------------------------------------------------------------------
Handler(r) ==
  Arrive(r) \/ Received(r) \/ Select(r) \/ Refuse(r) \/ BodyFails(r) \/ Dispatch(r)
  \/ Failover(r) \/ Answer(r) \/ Store(r) \/ End(r) \/ ClientLeaves(r)

Calls == (\E c \in Offers : BeginStart(c) \/ Reload(c)) \/ StopPair \/ StopAll

Next ==
  \/ \E r \in Requests : Handler(r)
  \/ \E o \in Roots : Save(o)
  \/ \E s \in DOMAIN services : Closed(s)
  \/ \E d \in drains : DrainIdle(d) \/ DrainTimesOut(d) \/ DrainGivesUp(d) \/ Drained(d)
  \/ Calls \/ Started \/ StartFails \/ StartFailed
  \/ ListenerClosed \/ StopTimesOut \/ Stopped \/ Crash

Spec == Init /\ [][Next]_vars

\* Timers fire, the queues are worked off and closing ends; nothing is assumed of clients,
\* engines or handlers.
FairSpec ==
  /\ Spec
  /\ \A o \in Roots : WF_vars(Save(o))
  /\ \A s \in 1..MaxServices : WF_vars(s \in DOMAIN services /\ Closed(s))
  /\ \A g \in 1..MaxGens :
       WF_vars(\E d \in drains : d.gen = g /\ (DrainIdle(d) \/ DrainTimesOut(d)
                                                \/ DrainGivesUp(d) \/ Drained(d)))
  /\ WF_vars(ListenerClosed \/ StopTimesOut \/ Stopped)
  /\ WF_vars(Started \/ StartFails \/ StartFailed)

-----------------------------------------------------------------------------
\* A write that waits finds the database it is meant for open, whatever was closed meanwhile and
\* whichever services share the root (TrafficLogService.close, SerialWriteQueue.drain).
NoWriteOnClosedDatabase ==
  \A o \in Roots : \A i \in DOMAIN queue[o] : services[queue[o][i].service].state # "closed"

\* A service that is open will be closed by someone: the entry or a drain still knows it
\* (reloadPair, startPair, stopPair).
OpenServicesHaveAnOwner ==
  \A s \in DOMAIN services :
    services[s].state = "open" =>
      s \in Range(logServices) \/ \E d \in drains : s \in d.services /\ d.phase # "closing"

\* A log service is closed neither too early, under writes that were accepted, nor never: one
\* that is open still belongs to someone who will close it.
ServicesLiveAsLongAsNeeded == NoWriteOnClosedDatabase /\ OpenServicesHaveAnOwner

LogsOpen(g) == \A s \in Range(gens[g].logs) : services[s].state = "open"

\* A save takes the log neither from the current pipeline nor from requests of the one before it,
\* unless their drain ran out of time (reloadPair, #drain).
ReloadKeepsLogs ==
  runtime = "running" =>
    /\ LogsOpen(current)
    /\ \A d \in drains : d.gen = current - 1 /\ d.phase # "closing" => LogsOpen(d.gen)

\* Every drain and every stop ends, whatever clients and engines do (#drain, stopPair).
DrainsAndStopsEnd ==
  /\ \A g \in 1..MaxGens : (\E d \in drains : d.gen = g) ~> (\A d \in drains : d.gen # g)
  /\ runtime = "stopping" ~> runtime = "stopped"

=============================================================================
