---------------------------- MODULE ResponseRelay ----------------------------
(***************************************************************************)
(* One response on its way from the upstream node to the client, and the   *)
(* copy of it that the traffic log keeps: forwardResponseBody of           *)
(* src/src/proxy/proxy-request-pipeline.ts, the decoder beside it          *)
(* (response-decoder.ts), the capture (response-log-capture.ts), the two   *)
(* readers of an event stream (protocol/streams.ts and                     *)
(* pricing/usage-accumulator.ts), and the price made of what they read     *)
(* (pricing/usage-normalizer.ts, request-pricing.ts, money.ts).            *)
(*                                                                         *)
(* A body is a sequence of symbols.  An event of a stream is a line of as  *)
(* many symbols as its size, the last one with the line's end, and a blank *)
(* line after it.  A plain body is one document of one event.  What        *)
(* decoding does to a symbol is nothing; when and how far it gets is       *)
(* decided by the codec.  Numbers are small where the code has bytes.      *)
(***************************************************************************)
EXTENDS Naturals, Sequences, FiniteSets, FiniteSetsExt, SequencesExt, Functions

CONSTANTS
  Answers,    \* responses that may come: [kind, sse, events, model]
  Encodings,  \* subset of {"none", "coded", "unknown"}
  Rules,      \* the price list
  MaxChunk,   \* symbols that one read returns at most
  MemoryThreshold, MaxBytes, MaxSummaryInput, MaxUsageEvent,  \* the capture's limits
  Rounding, MaxAmount,  \* products per nanoyuan, the largest amount a column holds
  None

UsageFields == {"input", "output", "prompt", "completion", "cached_input", "cached_prompt",
                "read", "write", "write5m", "write1h"}

\* A usage report has some of the fields; None stands for a value that is no count.
IsReport(u) ==
  /\ DOMAIN u \subseteq UsageFields /\ u = [f \in DOMAIN u |-> u[f]]
  /\ \A f \in DOMAIN u : u[f] \in Nat \/ u[f] = None

ASSUME RelayAssumption ==
  /\ {MaxChunk, MemoryThreshold, MaxBytes, MaxSummaryInput, MaxUsageEvent, Rounding, MaxAmount}
       \subseteq Nat
  /\ MaxChunk > 0 /\ Rounding > 0 /\ MemoryThreshold <= MaxBytes
  /\ Encodings \subseteq {"none", "coded", "unknown"}
  /\ None \notin Nat /\ None \notin [events : Seq(Nat), done : BOOLEAN]
  /\ None \notin {"missing_usage", "invalid_usage"}
  /\ \A a \in Answers :
       /\ a.events \in Seq(ToSet(a.events))
       /\ \A e \in ToSet(a.events) : e.size \in Nat \ {0} /\ (e.usage = None \/ IsReport(e.usage))
  /\ Rules \in Seq([wildcard : BOOLEAN, models : SUBSET STRING, multiplier : Nat,
                    input : Nat, output : Nat, read : Nat, write : Nat])

VARIABLES
  answer, coding,  \* what comes, and how it is encoded
  sent,            \* symbols read from the upstream connection
  upstream,        \* its state: connecting, open, ended, failed
  client,          \* reading, or gone
  relay,           \* where forwardResponseBody and its caller are
  reply,           \* what the client has: open, ended, cut, refused
  decoder,         \* plain, open, abandoned
  decoded,         \* symbols that left the codec
  capture,         \* the log's copy
  record           \* what was logged

relayVars == <<answer, coding, sent, upstream, client, relay, reply, decoder, decoded, capture, record>>

-----------------------------------------------------------------------------
\* Bodies

Symbols(i, e) == [p \in 1 .. e.size |-> [e |-> i, part |-> p]]
Blank == [e |-> 0, part |-> 0]

Body(a) ==
  FlattenSeq([i \in DOMAIN a.events |->
    IF a.sse THEN Append(Symbols(i, a.events[i]), Blank) ELSE Symbols(i, a.events[i])])

\* Bytes of an encoding nobody can undo hold no line.
Delivered(from, to) ==
  IF coding = "unknown" THEN [i \in 1 .. to - from |-> [e |-> 0, part |-> 1]]
  ELSE SubSeq(Body(answer), from + 1, to)

EndsLine(a, s) == s = Blank \/ (s.e # 0 /\ s.part = a.events[s.e].size)
Whole(a, line) ==
  /\ line # <<>> /\ line[1].e # 0 /\ line = Symbols(line[1].e, a.events[line[1].e])

\* The line begins with "data:".
IsData(line) == line[1].e # 0 /\ line[1].part = 1

-----------------------------------------------------------------------------
\* Both readers take a line off their buffer, and read it, as soon as it is complete.

\* IncrementalSseAccumulator: the summary of a stream, read line by line

NoSummary == [buffer |-> <<>>, events |-> <<>>, done |-> FALSE, invalid |-> FALSE]

SummaryLine(a, acc, line) ==
  IF acc.invalid \/ ~IsData(line) THEN acc
  ELSE IF ~Whole(a, line) THEN [acc EXCEPT !.invalid = TRUE]
  ELSE IF a.events[line[1].e].type = "[DONE]" THEN [acc EXCEPT !.done = TRUE]
  ELSE [acc EXCEPT !.events = Append(@, line[1].e)]

SummarySymbol(a, acc, s) ==
  IF EndsLine(a, s) THEN SummaryLine(a, [acc EXCEPT !.buffer = <<>>], Append(acc.buffer, s))
  ELSE [acc EXCEPT !.buffer = Append(@, s)]

\* Mutant: the line that a chunk broke off is forgotten.
SummaryChunkAlone(a, acc, chunk) ==
  LET read[n \in 0 .. Len(chunk)] ==
        IF n = 0 THEN [acc EXCEPT !.buffer = <<>>] ELSE SummarySymbol(a, read[n - 1], chunk[n])
  IN read[Len(chunk)]

SummaryChunk(a, acc, chunk) ==
  LET read[n \in 0 .. Len(chunk)] ==
        IF n = 0 THEN acc ELSE SummarySymbol(a, read[n - 1], chunk[n])
  IN read[Len(chunk)]

SummaryEnd(a, acc) ==
  LET read == IF acc.buffer = <<>> THEN acc ELSE SummaryLine(a, acc, acc.buffer)
  IN IF read.invalid \/ read.events = <<>> THEN None
     ELSE [events |-> read.events, done |-> read.done]

-----------------------------------------------------------------------------
\* UsageAccumulator: the same stream, read event by event for the bill

NoUsage == [buffer |-> <<>>, lines |-> <<>>, bytes |-> 0, discard |-> FALSE,
            truncated |-> FALSE, terminal |-> FALSE, start |-> None, last |-> None]

\* observe: which event of a protocol tells the usage, and which one ends it.
Observe(kind, acc, e) ==
  CASE kind = "responses" /\ e.type \in {"response.completed", "response.incomplete"} ->
         [acc EXCEPT !.last = e.usage, !.terminal = TRUE]
    [] kind = "messages" /\ e.type = "message_start" -> [acc EXCEPT !.start = e.usage]
    [] kind = "messages" /\ e.type = "message_delta" -> [acc EXCEPT !.last = e.usage]
    [] kind = "messages" /\ e.type = "message_stop"  -> [acc EXCEPT !.terminal = TRUE]
    [] kind = "chat" /\ e.type = "usage"             -> [acc EXCEPT !.last = e.usage]
    [] OTHER -> acc

\* dispatchEvent: two documents under one blank line are no JSON.
Dispatch(a, acc) ==
  LET read == IF acc.lines = <<>> \/ acc.discard THEN acc
              ELSE IF Len(acc.lines) > 1 \/ ~Whole(a, acc.lines[1])
                   THEN [acc EXCEPT !.truncated = TRUE]
              ELSE LET e == a.events[acc.lines[1][1].e]
                   IN IF e.type = "[DONE]" THEN [acc EXCEPT !.terminal = TRUE]
                      ELSE Observe(a.kind, acc, e)
  IN [read EXCEPT !.lines = <<>>, !.bytes = 0, !.discard = FALSE]

UsageLine(a, acc, line) ==
  IF line = <<Blank>> THEN Dispatch(a, acc)
  ELSE IF ~IsData(line) THEN acc
  ELSE LET bytes == acc.bytes + Len(line)
       IN IF bytes > MaxUsageEvent
          THEN [acc EXCEPT !.bytes = bytes, !.discard = TRUE, !.truncated = TRUE, !.lines = <<>>]
          ELSE [acc EXCEPT !.bytes = bytes, !.lines = IF acc.discard THEN @ ELSE Append(@, line)]

UsageSymbol(a, acc, s) ==
  IF EndsLine(a, s) THEN UsageLine(a, [acc EXCEPT !.buffer = <<>>], Append(acc.buffer, s))
  ELSE [acc EXCEPT !.buffer = Append(@, s)]

UsageChunk(a, acc, chunk) ==
  LET read[n \in 0 .. Len(chunk)] ==
        IF n = 0 THEN acc ELSE UsageSymbol(a, read[n - 1], chunk[n])
  IN read[Len(chunk)]

-----------------------------------------------------------------------------
\* normalizeUsage: usage reports as functions from the fields they have; None is no count

Lost(reason) == [status |-> "unavailable", reason |-> reason]
Bad(u, fields) == \E f \in fields \cap DOMAIN u : u[f] = None
Count(u, f) == IF f \in DOMAIN u THEN u[f] ELSE 0
Usage(uncached, output, read, write) ==
  [status |-> "complete",
   usage |-> [uncached |-> uncached, output |-> output, read |-> read, write |-> write]]

InputField(kind)  == IF kind = "responses" THEN "input" ELSE "prompt"
OutputField(kind) == IF kind = "responses" THEN "output" ELSE "completion"
CachedField(kind) == IF kind = "responses" THEN "cached_input" ELSE "cached_prompt"

\* The first required field that is not there or no count, then any optional one.
Fault(u, required, optional) ==
  LET wrong == {i \in DOMAIN required : required[i] \notin DOMAIN u \/ Bad(u, {required[i]})}
  IN IF wrong # {}
     THEN (IF required[Min(wrong)] \in DOMAIN u THEN "invalid_usage" ELSE "missing_usage")
     ELSE IF Bad(u, optional) THEN "invalid_usage" ELSE None

NormalizeOpenAi(kind, u) ==
  LET in == InputField(kind)
      out == OutputField(kind)
      cached == Count(u, CachedField(kind))
      fault == Fault(u, <<in, out>>, {CachedField(kind)})
  IN IF DOMAIN u \cap {"read", "write"} # {} THEN Lost("unsupported_usage")
     ELSE IF fault # None THEN Lost(fault)
     ELSE IF cached > u[in] THEN Lost("invalid_usage")
     ELSE Usage(u[in] - cached, u[out], cached, 0)

NormalizeMessages(u) ==
  LET fault == Fault(u, <<"input", "output">>, {"read", "write", "write5m", "write1h"})
      split == Count(u, "write5m") + Count(u, "write1h")
      splits == {"write5m", "write1h"} \cap DOMAIN u # {}
  IN IF DOMAIN u \cap {"prompt", "completion", "cached_prompt"} # {}
     THEN Lost("unsupported_usage")
     ELSE IF fault # None THEN Lost(fault)
     ELSE IF "write" \in DOMAIN u /\ splits /\ u["write"] # split THEN Lost("invalid_usage")
     ELSE Usage(u["input"], u["output"], Count(u, "read"),
                IF "write" \in DOMAIN u THEN u["write"] ELSE split)

Normalize(kind, u) ==
  IF u = None THEN Lost("missing_usage")
  ELSE IF kind = "other" THEN Lost("unsupported_usage")
  ELSE IF kind = "messages" THEN NormalizeMessages(u) ELSE NormalizeOpenAi(kind, u)

\* The later of two reports wins where both have a field.
Updated(report, later) ==
  [f \in DOMAIN report \cup DOMAIN later |-> IF f \in DOMAIN later THEN later[f] ELSE report[f]]

\* What the stream's reader ends with.  A messages stream tells its usage in two reports.
UsageEnd(a, acc) ==
  LET rest == IF acc.buffer = <<>> THEN acc ELSE UsageLine(a, acc, acc.buffer)
      read == Dispatch(a, rest)
      told == IF a.kind \in {"responses", "chat"} THEN read.last
              ELSE IF a.kind = "messages" /\ read.start # None /\ read.last # None
                   THEN Updated(read.start, read.last) ELSE None
  IN IF read.truncated \/ ~read.terminal THEN Lost("incomplete_usage")
     ELSE Normalize(a.kind, told)

-----------------------------------------------------------------------------
\* The price: matchModelPrice, calculateCost, completeRequestPricing

\* An exact pattern goes before every wildcard, wildcards in the list's order.
RuleFor(model) ==
  LET exact == {i \in DOMAIN Rules : ~Rules[i].wildcard /\ model \in Rules[i].models}
      wild  == {i \in DOMAIN Rules : Rules[i].wildcard /\ model \in Rules[i].models}
  IN IF exact # {} THEN Rules[Min(exact)] ELSE IF wild # {} THEN Rules[Min(wild)] ELSE None

\* Every bucket is charged at the price times the rule's multiplier; only the sum is rounded.
Product(rule, u) ==
  (u.uncached * rule.input + u.output * rule.output
     + u.read * rule.read + u.write * rule.write) * rule.multiplier

\* Mutant: the buckets are rounded one by one.
CostOfBuckets(rule, u) ==
  LET cost(tokens, price) == (tokens * price * rule.multiplier + Rounding \div 2) \div Rounding
  IN cost(u.uncached, rule.input) + cost(u.output, rule.output)
       + cost(u.read, rule.read) + cost(u.write, rule.write)

Cost(rule, u) == (Product(rule, u) + Rounding \div 2) \div Rounding

Unpriced(reason, usage) == [status |-> "unpriced", reason |-> reason, usage |-> usage, cost |-> None]

Priced(model, found) ==
  LET rule == IF model = None THEN None ELSE RuleFor(model)
  IN IF rule = None
     THEN Unpriced(IF model = None THEN "missing_model" ELSE "no_matching_price",
                   IF found.status = "complete" THEN found.usage ELSE None)
     ELSE IF found.status # "complete" THEN Unpriced(found.reason, None)
     ELSE IF Cost(rule, found.usage) > MaxAmount THEN Unpriced("amount_overflow", None)
     ELSE [status |-> "priced", reason |-> None, usage |-> found.usage,
           cost |-> Cost(rule, found.usage)]

-----------------------------------------------------------------------------
\* ResponseLogCapture

NewCapture == [size |-> 0, kept |-> <<>>, spool |-> "none",
               summary |-> NoSummary, taken |-> 0, cut |-> FALSE, usage |-> NoUsage]

\* The summary reads a chunk when all of it still fits under its limit.
CaptureSummary(c, chunk) ==
  IF ~answer.sse THEN c
  ELSE IF c.taken + Len(chunk) > MaxSummaryInput THEN [c EXCEPT !.cut = TRUE]
  ELSE [c EXCEPT !.taken = @ + Len(chunk), !.summary = SummaryChunk(answer, @, chunk)]

CaptureUsage(c, chunk) ==
  IF ~answer.sse THEN c ELSE [c EXCEPT !.usage = UsageChunk(answer, @, chunk)]

\* The body is kept up to its limit, in memory and then in a file.
Keep(c, chunk) ==
  LET kept == c.kept \o SubSeq(chunk, 1, Min({Len(chunk), MaxBytes - Len(c.kept)}))
  IN [c EXCEPT !.kept = kept,
               !.spool = IF @ = "none" /\ Len(kept) > MemoryThreshold THEN "open" ELSE @]

AddChunk(c, chunk) ==
  Keep(CaptureUsage(CaptureSummary([c EXCEPT !.size = @ + Len(chunk)], chunk), chunk), chunk)

\* finalize: the answer's log entry.
Finalized(c) ==
  [size |-> c.size, text |-> c.kept, truncated |-> c.size > MaxBytes,
   cut |-> c.cut, summary |-> IF answer.sse THEN SummaryEnd(answer, c.summary) ELSE None]

\* responseJson and resolveUsage: the stream's reader, or else the document itself.
Resolved(c) ==
  IF answer.sse THEN UsageEnd(answer, c.usage)
  ELSE Normalize(answer.kind,
                 IF Whole(answer, c.kept) THEN answer.events[1].usage ELSE None)

-----------------------------------------------------------------------------
\* forwardResponseBody

RelayInit ==
  /\ answer \in Answers /\ coding \in Encodings
  /\ sent = 0 /\ upstream = "connecting" /\ client = "reading"
  /\ relay = "opening" /\ reply = "open"
  /\ decoder = (IF coding = "coded" THEN "open" ELSE "plain") /\ decoded = 0
  /\ capture = NewCapture /\ record = None

Total == Len(Body(answer))

\* The status line arrived: a capture for this answer begins.
Opened ==
  /\ relay = "opening" /\ upstream = "connecting" /\ client = "reading"
  /\ upstream' = "open" /\ relay' = "reading"
  /\ UNCHANGED <<answer, coding, sent, client, reply, decoder, decoded, capture, record>>

\* No node answered, or the client left before one did: the client is told 502 if it is there.
OpenFails ==
  /\ relay = "opening"
  /\ upstream' = "failed" /\ relay' = "failing" /\ reply' = "refused"
  /\ UNCHANGED <<answer, coding, sent, client, decoder, decoded, capture, record>>

\* A chunk goes to the decoder and to the client; a full socket is waited for.
ChunkArrives(n) ==
  /\ relay = "reading" /\ upstream = "open" /\ sent + n <= Total
  /\ sent' = sent + n
  /\ IF decoder = "plain"
     THEN capture' = AddChunk(capture, Delivered(sent, sent + n)) /\ decoded' = sent + n
     ELSE UNCHANGED <<capture, decoded>>
  /\ relay' \in {"reading", "draining"}
  /\ UNCHANGED <<answer, coding, upstream, client, reply, decoder, record>>

\* A codec says what it has in pieces of its own.
CodecEmits(n) ==
  /\ decoder = "open" /\ decoded + n <= sent
  /\ decoded' = decoded + n
  /\ capture' = AddChunk(capture, Delivered(decoded, decoded + n))
  /\ UNCHANGED <<answer, coding, sent, upstream, client, relay, reply, decoder, record>>

\* Corrupt bytes, or a stream that stopped short: what was decoded so far is kept.
CodecFails ==
  /\ decoder = "open" /\ sent > 0 /\ relay \in {"reading", "draining", "finishing"}
  /\ decoder' = "abandoned"
  /\ UNCHANGED <<answer, coding, sent, upstream, client, relay, reply, decoded, capture, record>>

\* The wait ends with the socket's "drain" or "error", and with nothing else: a client that
\* leaves closes its socket without either.
Drained ==
  /\ relay = "draining" /\ client = "reading"
  /\ relay' = "reading"
  /\ UNCHANGED <<answer, coding, sent, upstream, client, reply, decoder, decoded, capture, record>>

\* The connection ends, at the end of the body or before it.
UpstreamEnds ==
  /\ relay = "reading" /\ upstream = "open"
  /\ upstream' = "ended" /\ relay' = "finishing" /\ reply' = "ended"
  /\ UNCHANGED <<answer, coding, sent, client, decoder, decoded, capture, record>>

UpstreamFails ==
  /\ upstream = "open" /\ relay \in {"reading", "draining"}
  /\ upstream' = "failed"
  /\ UNCHANGED <<answer, coding, sent, client, relay, reply, decoder, decoded, capture, record>>

\* abortForClient: the upstream request is aborted through the request's signal.
ClientLeaves ==
  /\ client = "reading" /\ relay \in {"opening", "reading", "draining"}
  /\ client' = "gone"
  /\ upstream' = IF upstream = "open" THEN "failed" ELSE upstream
  /\ UNCHANGED <<answer, coding, sent, relay, reply, decoder, decoded, capture, record>>

\* The next read of a broken connection throws, and the decoder is waited for.
ReadThrows ==
  /\ relay = "reading" /\ upstream = "failed"
  /\ relay' = "finishing" /\ reply' = "cut"
  /\ UNCHANGED <<answer, coding, sent, upstream, client, decoder, decoded, capture, record>>

\* finish() waits until the codec said all it can.
\* Mutant: a codec that gave up is waited for like any other.
SettledByEnd == decoder = "plain" \/ sent = 0 \/ (decoded = sent /\ sent = Total)

Settled ==
  \/ decoder \in {"plain", "abandoned"} \/ sent = 0
  \/ decoded = sent /\ sent = Total

Finishes == relay = "finishing" /\ Settled /\ relay' = "ended"

DecoderFinishes ==
  /\ Finishes
  /\ UNCHANGED <<answer, coding, sent, upstream, client, reply, decoder, decoded, capture, record>>

\* finalize, the price, the finished record, and the reservation is handed back.
Stored ==
  /\ relay \in {"ended", "failing"}
  /\ LET found == IF relay = "failing" THEN Normalize(answer.kind, None) ELSE Resolved(capture)
     IN record' = [body |-> IF relay = "failing" THEN None ELSE Finalized(capture),
                   error |-> reply \in {"cut", "refused"},
                   price |-> Priced(answer.model, found), found |-> found]
  /\ capture' = [capture EXCEPT !.spool = "none"]
  /\ relay' = "released"
  /\ UNCHANGED <<answer, coding, sent, upstream, client, reply, decoder, decoded>>

\* The capture's file cannot be written: finalize throws, the file is removed and the
\* reservation handed back, and the record stays as it was.
SpoolFails ==
  /\ relay = "ended" /\ capture.spool = "open"
  /\ capture' = [capture EXCEPT !.spool = "none"]
  /\ relay' = "released"
  /\ UNCHANGED <<answer, coding, sent, upstream, client, reply, decoder, decoded, record>>

RelayNext ==
  \/ Opened \/ OpenFails
  \/ \E n \in 1 .. MaxChunk : ChunkArrives(n) \/ CodecEmits(n)
  \/ CodecFails \/ Drained \/ UpstreamEnds \/ UpstreamFails \/ ClientLeaves
  \/ ReadThrows \/ DecoderFinishes \/ Stored \/ SpoolFails

RelaySpec == RelayInit /\ [][RelayNext]_relayVars

\* The node goes on sending or stops, a client that is there goes on reading, a codec that
\* has bytes says something about them, and the process takes its own steps.
FairSpec ==
  /\ RelaySpec
  /\ WF_relayVars(Opened \/ OpenFails)
  /\ WF_relayVars((\E n \in 1 .. MaxChunk : ChunkArrives(n)) \/ UpstreamEnds \/ UpstreamFails)
  /\ WF_relayVars((\E n \in 1 .. MaxChunk : CodecEmits(n)) \/ CodecFails)
  /\ WF_relayVars(Drained) /\ WF_relayVars(ReadThrows) /\ WF_relayVars(DecoderFinishes)
  /\ WF_relayVars(Stored \/ SpoolFails)

-----------------------------------------------------------------------------
\* Properties.  The reference below looks at where events lie, never at lines or chunks.

Ends(a) ==
  LET ends[i \in 0 .. Len(a.events)] ==
        IF i = 0 THEN 0 ELSE ends[i - 1] + a.events[i].size + 1
  IN ends
EventEnd(i) == Ends(answer)[i] - 1
Arrived == {i \in DOMAIN answer.events : EventEnd(i) <= decoded}
Torn == \E i \in DOMAIN answer.events \ Arrived : decoded > EventEnd(i) - answer.events[i].size

Logged == record # None /\ record.body # None
Readable == answer.sse /\ coding # "unknown"

(* However the network and the codec cut the bytes, the summary of a       *)
(* stream that stayed under its limit names every event that arrived, in   *)
(* order, and no other (streams.ts IncrementalSseAccumulator,              *)
(* response-log-capture.ts #captureSseSummary).                            *)
SummaryIsOfTheStream ==
  (Logged /\ Readable /\ ~record.body.cut) =>
    LET told == {i \in Arrived : answer.events[i].type # "[DONE]"}
        summary == record.body.summary
    IN IF Torn \/ told = {} THEN summary = None
       ELSE /\ summary # None /\ summary.done = (told # Arrived)
            /\ ToSet(summary.events) = told
            /\ \A m, n \in DOMAIN summary.events : m < n => summary.events[m] < summary.events[n]

\* The report the protocol calls final, among the events that arrived.
LastOf(types) ==
  LET found == {i \in Arrived : answer.events[i].type \in types}
  IN IF found = {} THEN None ELSE answer.events[Max(found)].usage

Reported ==
  CASE answer.kind = "responses" -> LastOf({"response.completed", "response.incomplete"})
    [] answer.kind = "chat" -> LastOf({"usage"})
    [] answer.kind = "messages" ->
         LET start == LastOf({"message_start"})
             last == LastOf({"message_delta"})
         IN IF None \in {start, last} THEN None ELSE Updated(start, last)
    [] OTHER -> None

Concluded ==
  \E i \in Arrived : answer.events[i].type \in {"[DONE]"} \cup
    (IF answer.kind = "responses" THEN {"response.completed", "response.incomplete"}
     ELSE IF answer.kind = "messages" THEN {"message_stop"} ELSE {})

(* A stream that came to its end is billed by the usage it reported last,  *)
(* whatever was too much for the summary or the log, and a stream that did *)
(* not, or that had an event too large to read, is billed by none          *)
(* (usage-accumulator.ts:23-28, "a large response summary cannot hide a    *)
(* final usage event").                                                    *)
UsageIsWhatTheStreamReported ==
  (Logged /\ Readable) =>
    record.found =
      IF Torn \/ ~Concluded \/ \E i \in Arrived : answer.events[i].size > MaxUsageEvent
      THEN Lost("incomplete_usage")
      ELSE Normalize(answer.kind, Reported)

(* A price is the exact sum of the tokens the node reported at the prices  *)
(* of the rule, no token in two buckets, rounded once and to the nearest   *)
(* (money.ts calculateCost, usage-normalizer.ts).                          *)
PriceIsExact ==
  (Logged /\ record.price.status = "priced") =>
    LET u == record.price.usage
        told == IF answer.sse THEN Reported ELSE answer.events[1].usage
        exact == Product(RuleFor(answer.model), u)
        amount == record.price.cost * Rounding
    IN /\ u.uncached + u.read + u.write =
            IF answer.kind = "messages" THEN told["input"] + Count(told, "read") + u.write
            ELSE told[InputField(answer.kind)]
       /\ amount <= exact + Rounding \div 2 /\ exact < amount + (Rounding + 1) \div 2
       /\ record.price.cost <= MaxAmount

(* The log holds the beginning of the body as far as it was decoded, up to *)
(* its limit, with the size of all of it; an answer that went out whole,   *)
(* and whose codec did not give up, is logged whole (ADR-003, ADR-012,     *)
(* response-decoder.ts finish).                                            *)
BodyIsOfTheWholeAnswer ==
  Logged =>
    /\ record.body.text = Delivered(0, Min({decoded, MaxBytes}))
    /\ record.body.size = decoded
    /\ record.body.truncated = (decoded > MaxBytes)
    /\ decoder # "abandoned" => decoded = sent

(* What is logged of a stream is what the stream said: the two readers of  *)
(* it, each with limits of its own, agree with its events wherever they    *)
(* were cut and however much of the body was kept, and the body is that of *)
(* the whole answer (response-log-capture.ts captureResponseChunk).        *)
LogSaysWhatTheStreamSaid ==
  SummaryIsOfTheStream /\ UsageIsWhatTheStreamReported /\ BodyIsOfTheWholeAnswer

Forgotten == relay = "draining" /\ client = "gone"

(* Every exchange comes to its end and hands its reservation back, unless  *)
(* its client left while the socket was full                               *)
(* (proxy-request-pipeline.ts forwardResponseBody, response-decoder.ts).   *)
ExchangesEnd == <>(relay = "released" \/ Forgotten)

=============================================================================
