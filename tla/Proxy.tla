------------------------------- MODULE Proxy -------------------------------
(***************************************************************************)
(* One request through the reverse proxy of examples/openai-proxy/proxy.go *)
(* (ServeHTTP, handleJSON, handleStream) with the usage parser of          *)
(* pkg/llm/usage.go, the gate of pkg/llm/gate.go and the estimate of       *)
(* pkg/llm/estimate.go.                                                    *)
(*                                                                         *)
(* What interleaves is the handler, the parser's goroutine at the other    *)
(* end of an io.Pipe, the upstream, the client (who may stop reading, or   *)
(* leave) and the expiry of the reservation.  Handlers of other requests   *)
(* share only the limiter; of it this module keeps the fate of the one     *)
(* reservation and what it is charged.                                     *)
(*                                                                         *)
(* A chunk is what one read from the upstream gets: whole lines without a  *)
(* usage block, lines of which the last block reports `tokens' tokens, or  *)
(* the part of a line that takes it past the scanner's limit of 1 MB.  A   *)
(* block counts only if it reports tokens: usageOK and usage.Total() > 0   *)
(* are one here.                                                           *)
(***************************************************************************)
EXTENDS Integers

CONSTANTS
  Bodies,     \* request bodies: [json, size, prompt, text, reserve]
  MaxBytes,   \* Gate.MaxRequestBytes, 0 for none
  MaxInput,   \* Gate.MaxInputTokens, 0 for none
  MaxInt,     \* the largest int64
  Usages,     \* totals that a usage block may report
  MaxChunks   \* bound: chunks of a streamed response

ASSUME ProxyAssumption ==
  /\ {MaxBytes, MaxInput, MaxChunks} \subseteq Nat /\ MaxInt \in Nat \ {0}
  /\ Bodies \subseteq [json : BOOLEAN, size : 0..MaxInt, prompt : 0..MaxInt,
                       text : 0..MaxInt, reserve : 0..MaxInt]
  /\ Usages \subseteq 1..MaxInt

VARIABLES
  pc,        \* where the handler is
  body, stream,
  gone,      \* the client has left: the request's context is cancelled
  reading,   \* the client takes what is written to it
  up,        \* the upstream: "idle", "serving", "ended" or "broken"
  chunks,    \* chunks read
  cur,       \* the chunk being copied
  copyErr,
  pipe,      \* "none", "open" or "closed"
  parser,    \* the parser: "none", "scan", "parse" or "done"
  block,     \* the chunk it is parsing
  usage,     \* the last usage it found, 0 for none
  resv,      \* "none" (no id), "pending", "settled", "refunded" or "expired"
  charged,   \* tokens the limiter charges for the reservation
  \* history:
  failed,    \* why the closing call failed: "no", "store" or "ctx"
  sent,      \* the last usage written to the client or in the JSON reply
  answered,  \* the response reached its end
  overlong   \* a line was too long for the scanner

input  == <<body, stream>>
client == <<gone, reading>>
copy   == <<chunks, cur, copyErr>>
parse  == <<parser, block, usage>>
money  == <<resv, charged, failed>>
seen   == <<sent, answered, overlong>>
vars   == <<pc, input, client, up, copy, pipe, parse, money, seen>>

Text     == [kind |-> "text", tokens |-> 0]
Overlong == [kind |-> "long", tokens |-> 0]
Chunks   == {Text, Overlong} \union [kind : {"usage"}, tokens : Usages]

-----------------------------------------------------------------------------
(* The estimate and the gate. *)

\* int64 addition of two non-negative numbers.
Wrap(n) == IF n > MaxInt THEN n - 2 * (MaxInt + 1) ELSE n

AtLeastOne(n) == IF n < 1 THEN 1 ELSE n

\* Mutant of EstimateChatRequest: the sum is taken as it is.
EstimateUnfloored(b) ==
  [input |-> b.prompt, total |-> Wrap(b.prompt + b.reserve)]

\* `prompt' tokens in the messages and the prompt, or if there are none the
\* `text' tokens of the whole body, and the largest output reserve asked for.
\* A body that cannot be parsed counts as text.
EstimateChatRequest(b) ==
  LET tokens == IF b.prompt = 0 THEN b.text ELSE b.prompt
  IN  IF b.json THEN [input |-> tokens, total |-> AtLeastOne(Wrap(tokens + b.reserve))]
      ELSE [input |-> AtLeastOne(b.text), total |-> AtLeastOne(b.text)]

Estimate == EstimateChatRequest(body).total

CheckBytes == MaxBytes > 0 => body.size <= MaxBytes

CheckInput == MaxInput > 0 => EstimateChatRequest(body).input <= MaxInput

-----------------------------------------------------------------------------
Init ==
  /\ pc = "start" /\ body \in Bodies /\ stream \in BOOLEAN
  /\ gone = FALSE /\ reading = TRUE /\ up = "idle"
  /\ chunks = 0 /\ cur = Text /\ copyErr = FALSE
  /\ pipe = "none" /\ parser = "none" /\ block = Text /\ usage = 0
  /\ resv = "none" /\ charged = 0 /\ failed = "no"
  /\ sent = 0 /\ answered = FALSE /\ overlong = FALSE

GoTo(from, to) == pc = from /\ pc' = to

(* ServeHTTP *)

\* The body cannot be read, or is too large in bytes or in tokens.
Reject ==
  /\ GoTo("start", "done")
  /\ gone \/ ~CheckBytes \/ ~CheckInput
  /\ UNCHANGED <<input, client, up, copy, pipe, parse, money, seen>>

\* Check denies, or returns an error.
CheckDenied ==
  /\ GoTo("start", "done")
  /\ CheckBytes /\ CheckInput
  /\ UNCHANGED <<input, client, up, copy, pipe, parse, money, seen>>

CheckAllowed ==
  /\ GoTo("start", "send")
  /\ CheckBytes /\ CheckInput
  /\ resv' = "pending"
  /\ charged' = Estimate
  /\ UNCHANGED <<input, client, up, copy, pipe, parse, failed, seen>>

\* A limiter that fails open admits without a reservation.
CheckFailedOpen ==
  /\ GoTo("start", "send")
  /\ CheckBytes /\ CheckInput
  /\ UNCHANGED <<input, client, up, copy, pipe, parse, money, seen>>

\* NewRequest fails, or Do before the upstream has got the request.
SendFails ==
  /\ GoTo("send", "refund")
  /\ UNCHANGED <<input, client, up, copy, pipe, parse, money, seen>>

Send ==
  /\ GoTo("send", "head")
  /\ up' = "serving"
  /\ UNCHANGED <<input, client, copy, pipe, parse, money, seen>>

\* Do fails after it.
DoFails ==
  /\ GoTo("head", "refund")
  /\ gone \/ up = "broken"
  /\ UNCHANGED <<input, client, up, copy, pipe, parse, money, seen>>

StartParser == pipe' = "open" /\ parser' = "scan"

\* Do returns; a stream's headers are written and its parser is started.
DoReturns ==
  /\ up \in {"serving", "ended"}
  /\ \/ /\ ~stream
        /\ GoTo("head", "read")
        /\ UNCHANGED <<pipe, parser>>
     \/ /\ stream
        /\ GoTo("head", "copy")
        /\ StartParser
  /\ UNCHANGED <<input, client, up, copy, block, usage, money, seen>>

-----------------------------------------------------------------------------
(* The limiter's answer to a closing call made in step `from'. *)

\* Mutant of CtxBound: every call goes with the request's context.
CtxBoundAlways(from) == TRUE

\* A stream is closed with a context of its own (settleCtx).
CtxBound(from) == from \in {"refund", "settleJSON"}

\* The call takes effect on a pending reservation; one that has expired, or was
\* never made, is not found.
Closes(from, status, amount) ==
  /\ pc = from
  /\ IF resv = "pending"
     THEN resv' = status /\ charged' = amount
     ELSE UNCHANGED <<resv, charged>>
  /\ UNCHANGED failed

CloseFails(from) ==
  /\ pc = from
  /\ \/ failed' = "store"
     \/ gone /\ CtxBound(from) /\ failed' = "ctx"
  /\ UNCHANGED <<resv, charged>>

\* The handler goes on whatever the outcome.
Refund(from) ==
  /\ Closes(from, "refunded", 0) \/ CloseFails(from)
  /\ pc' = "done"
  /\ UNCHANGED <<input, client, up, copy, pipe, parse, seen>>

\* The handlers' choice: the usage that was found, or else the estimate.
Actual == IF usage > 0 THEN usage ELSE Estimate

-----------------------------------------------------------------------------
(* handleJSON *)

\* ReadAll and ParseUsageJSON.
ReadAll(tokens) ==
  /\ up = "ended"
  /\ GoTo("read", "settleJSON")
  /\ usage' = tokens
  /\ sent' = tokens
  /\ UNCHANGED <<input, client, up, copy, pipe, parser, block, money, answered, overlong>>

ReadFails ==
  /\ GoTo("read", "refund")
  /\ gone \/ up = "broken"
  /\ UNCHANGED <<input, client, up, copy, pipe, parse, money, seen>>

\* Settle, then the response: its write is the handler's last step, with nothing
\* left to close.
SettleJSON ==
  /\ Closes("settleJSON", "settled", Actual) \/ CloseFails("settleJSON")
  /\ pc' = "done"
  /\ answered' = TRUE
  /\ UNCHANGED <<input, client, up, copy, pipe, parse, sent, overlong>>

-----------------------------------------------------------------------------
(* handleStream: io.Copy reads a chunk and writes it to the client, then to *)
(* the pipe, where the write lasts until the parser has taken all of it.    *)

ReadChunk(c) ==
  /\ up = "serving" /\ chunks < MaxChunks
  /\ GoTo("copy", "write")
  /\ cur' = c
  /\ chunks' = chunks + 1
  /\ UNCHANGED <<input, client, up, copyErr, pipe, parse, money, seen>>

\* The end of the stream, or an error of it.
ReadEnds ==
  /\ GoTo("copy", "close")
  /\ \/ up = "ended" /\ copyErr' = FALSE /\ answered' = TRUE
     \/ (gone \/ up = "broken") /\ copyErr' = TRUE /\ UNCHANGED answered
  /\ UNCHANGED <<input, client, up, chunks, cur, pipe, parse, money, sent, overlong>>

\* The write has no deadline: it lasts until the client has taken the chunk.
WriteClient ==
  /\ reading
  /\ GoTo("write", "pipe")
  /\ sent' = IF cur.kind = "usage" THEN cur.tokens ELSE sent
  /\ UNCHANGED <<input, client, up, copy, pipe, parse, money, answered, overlong>>

\* The chunk then goes to nobody.
WriteFails ==
  /\ gone
  /\ GoTo("write", "close")
  /\ copyErr' = TRUE
  /\ UNCHANGED <<input, client, up, chunks, cur, pipe, parse, money, seen>>

\* Mutant of ClosePipe: the parser is not told.
ClosePipeNot ==
  /\ GoTo("close", "wait")
  /\ UNCHANGED <<input, client, up, copy, pipe, parse, money, seen>>

\* CloseWithError
ClosePipe ==
  /\ GoTo("close", "wait")
  /\ pipe' = "closed"
  /\ UNCHANGED <<input, client, up, copy, parse, money, seen>>

RefundDue == copyErr /\ usage = 0

\* Mutant of AwaitParser: the usage is read while the parser still runs.
AwaitParserNot ==
  /\ GoTo("wait", IF RefundDue THEN "refundStream" ELSE "settleStream")
  /\ UNCHANGED <<input, client, up, copy, pipe, parse, money, seen>>

\* <-parseDone, and the choice between Refund and Settle.
AwaitParser ==
  /\ parser = "done"
  /\ GoTo("wait", IF RefundDue THEN "refundStream" ELSE "settleStream")
  /\ UNCHANGED <<input, client, up, copy, pipe, parse, money, seen>>

SettleStream ==
  /\ Closes("settleStream", "settled", Actual) \/ CloseFails("settleStream")
  /\ pc' = "done"
  /\ UNCHANGED <<input, client, up, copy, pipe, parse, seen>>

-----------------------------------------------------------------------------
(* ParseUsageSSE, at the other end of the pipe. *)

ParserReads ==
  /\ parser = "scan" /\ cur.kind # "long"
  /\ GoTo("pipe", "copy")
  /\ parser' = "parse"
  /\ block' = cur
  /\ UNCHANGED <<input, client, up, copy, pipe, usage, money, seen>>

\* The scanner stops at a line that does not fit its buffer and leaves the pipe
\* open; it may have taken all of the write or only a part.
ParserStops ==
  /\ parser = "scan" /\ cur.kind = "long" /\ pc = "pipe"
  /\ pc' \in {"copy", "pipe"}
  /\ parser' = "done"
  /\ overlong' = TRUE
  /\ UNCHANGED <<input, client, up, copy, pipe, block, usage, money, sent, answered>>

ParseLines ==
  /\ parser = "parse"
  /\ parser' = "scan"
  /\ usage' = IF block.kind = "usage" THEN block.tokens ELSE usage
  /\ UNCHANGED <<pc, input, client, up, copy, pipe, block, money, seen>>

ParserEnds ==
  /\ parser = "scan" /\ pipe = "closed"
  /\ parser' = "done"
  /\ UNCHANGED <<pc, input, client, up, copy, pipe, block, usage, money, seen>>

-----------------------------------------------------------------------------
(* The world outside. *)

\* The upstream finishes its response or breaks off.
UpstreamStops ==
  /\ up = "serving"
  /\ up' \in {"ended", "broken"}
  /\ UNCHANGED <<pc, input, client, copy, pipe, parse, money, seen>>

ClientLeaves ==
  /\ pc # "done" /\ ~gone
  /\ gone' = TRUE
  /\ UNCHANGED <<pc, input, reading, up, copy, pipe, parse, money, seen>>

\* A connected client stops reading, with every buffer on the way full, or goes on.
ClientPauses ==
  /\ pc # "done" /\ ~gone
  /\ reading' = ~reading
  /\ UNCHANGED <<pc, input, gone, up, copy, pipe, parse, money, seen>>

\* The store drops the reservation; the charge stays.
Expire ==
  /\ resv = "pending"
  /\ resv' = "expired"
  /\ UNCHANGED <<pc, input, client, up, copy, pipe, parse, charged, failed, seen>>

\* What the handler does on its own once what it waits for is there.
Handler ==
  \/ Reject \/ CheckDenied \/ CheckAllowed \/ CheckFailedOpen
  \/ SendFails \/ Send \/ DoFails \/ DoReturns
  \/ Refund("refund") \/ Refund("refundStream")
  \/ (\E tokens \in Usages \union {0} : ReadAll(tokens)) \/ ReadFails \/ SettleJSON
  \/ ReadEnds \/ WriteClient \/ WriteFails \/ ClosePipe \/ AwaitParser \/ SettleStream

Parser == ParserReads \/ ParserStops \/ ParseLines \/ ParserEnds

World ==
  \/ \E c \in Chunks : ReadChunk(c)
  \/ UpstreamStops \/ ClientLeaves \/ ClientPauses \/ Expire

Next == Handler \/ Parser \/ World

\* Goroutines that can run do; the upstream and the client owe nothing, and a write
\* to a client that does not read is no step the handler can take.
Fairness == WF_vars(Handler) /\ WF_vars(Parser)

Spec == Init /\ [][Next]_vars /\ Fairness

-----------------------------------------------------------------------------
\* Type invariant; what is charged is a positive int64 while a reservation is
\* open, whatever the request asks for.
TypeOK ==
  /\ pc \in {"start", "send", "head", "refund", "read", "settleJSON", "copy", "write",
             "pipe", "close", "wait", "refundStream", "settleStream", "done"}
  /\ body \in Bodies /\ up \in {"idle", "serving", "ended", "broken"}
  /\ stream \in BOOLEAN /\ gone \in BOOLEAN /\ reading \in BOOLEAN /\ copyErr \in BOOLEAN
  /\ answered \in BOOLEAN /\ overlong \in BOOLEAN
  /\ chunks \in 0..MaxChunks /\ cur \in Chunks /\ block \in Chunks
  /\ pipe \in {"none", "open", "closed"} /\ parser \in {"none", "scan", "parse", "done"}
  /\ resv \in {"none", "pending", "settled", "refunded", "expired"}
  /\ charged \in 0..MaxInt /\ (resv = "pending" => charged > 0)
  /\ failed \in {"no", "store", "ctx"}
  /\ usage \in Usages \union {0} /\ sent \in Usages \union {0}

\* A closed reservation is charged the last usage block the client was sent, else
\* the estimate if the response reached its end, and nothing otherwise: the handler
\* never overtakes its parser, and never loses a block to a broken stream or a client
\* that leaves.
ChargeFollowsUsage ==
  resv \in {"settled", "refunded"} =>
    charged = IF sent > 0 THEN sent ELSE IF answered THEN Estimate ELSE 0

\* A finished handler has closed its reservation, unless the store failed; the
\* cancelled context of a client that left gets in the way of calls made before
\* the response is copied, and never of a stream's.
NothingLeftPending ==
  pc = "done" /\ resv = "pending" =>
    \/ failed = "store"
    \/ failed = "ctx" /\ gone /\ pipe = "none"

\* A write to the client may last for ever.
Stalled == ~reading /\ ~gone

\* Once the upstream has stopped or the client has left, the handler of an
\* admitted request comes to its closing call, unless the client stays connected
\* without reading, or the parser gave up on a line that is too long.
RequestEnds ==
  (pc # "start" /\ (gone \/ up \in {"ended", "broken"})) ~> (pc = "done" \/ Stalled \/ overlong)

\* "Streaming response: Hold reservation until final `usage` chunk (or disconnect
\* timeout); then settle" (WHAT_THIS_IS.md): a stream that has ended, or whose
\* client has left, comes to its closing call, if only the client reads.
StreamSettles == (pc = "copy" /\ (gone \/ up = "ended")) ~> (pc = "done" \/ Stalled)

\* "Handler error after upstream consumed tokens: Settle with best-known usage; no
\* fake refund of spent tokens" (WHAT_THIS_IS.md): a request is not given back once
\* a part of its response has been read.
NoFakeRefund == resv = "refunded" => chunks = 0
=============================================================================
