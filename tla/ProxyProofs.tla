---------------------------- MODULE ProxyProofs ----------------------------
(***************************************************************************)
(* Theorems about Proxy: for every set of bodies, gate, usage reports and  *)
(* length of a stream, and for every interleaving of handler, parser,      *)
(* client, upstream and expiry, a closed reservation is charged for what   *)
(* the client was sent, and one is left pending only by a call that failed.*)
(***************************************************************************)
EXTENDS Proxy, TLAPS

BeforeStream == {"start", "send", "head", "read", "settleJSON", "refund"}

\* The last usage among the chunks handed to the parser: it may still have to
\* parse the last of them.
InHand == IF parser = "parse" /\ block.kind = "usage" THEN block.tokens ELSE usage

\* What was written to the client has been handed to the parser, but for the chunk
\* the handler is about to write to the pipe.
Forwarded ==
  sent = IF pc = "pipe" /\ cur.kind = "usage" THEN cur.tokens ELSE InHand

\* The parser runs between DoReturns and AwaitParser.
ParserRuns ==
  /\ pc \in BeforeStream => parser = "none" /\ pipe = "none"
  /\ pc \in {"settleStream", "refundStream"} => parser = "done"

\* Nothing is answered before the copy or the JSON reply ends; the copy ends with an
\* error or an answer, never both, and an error without usage is not settled.
Unanswered ==
  /\ pc \in (BeforeStream \ {"settleJSON"}) \union {"copy", "write", "pipe"} => ~answered
  /\ pc \in (BeforeStream \ {"settleJSON"}) => sent = 0
  /\ pc \in BeforeStream => ~copyErr
  /\ pc = "refundStream" => copyErr /\ usage = 0
  /\ pc # "done" /\ copyErr => ~answered
  /\ pc \in {"close", "wait", "settleStream"} => copyErr \/ answered
  /\ pc = "settleStream" => ~copyErr \/ usage # 0

\* The reservation is closed by the handler's last step.
ClosedLast ==
  /\ resv \in {"settled", "refunded"} => pc = "done"
  /\ pc = "start" => resv = "none"

\* What the handler's and the parser's steps keep, and what it is kept for.
Books    == Forwarded /\ ParserRuns /\ Unanswered /\ ClosedLast
Promises == ChargeFollowsUsage /\ NothingLeftPending

Inv == TypeOK /\ Books /\ Promises

-----------------------------------------------------------------------------
\* The estimate of a request is a positive int64, also when the sum wraps.
LEMMA EstimateInt ==
  ASSUME NEW b \in Bodies
  PROVE  EstimateChatRequest(b).total \in 1..MaxInt
BY ProxyAssumption DEF EstimateChatRequest, AtLeastOne, Wrap

\* Chunks and what they report.
LEMMA ChunkTypes ==
  /\ Text \in Chunks /\ Overlong \in Chunks
  /\ \A c \in Chunks : c.kind \in {"text", "long", "usage"}
                       /\ (c.kind = "usage" => c.tokens \in Usages)
BY DEF Chunks, Text, Overlong

\* The initial state satisfies the invariant.
LEMMA InitInv == Init => Inv
<1> SUFFICES ASSUME Init PROVE Inv
  OBVIOUS
<1>1. TypeOK
  <2>1. /\ pc = "start" /\ up = "idle" /\ pipe = "none" /\ parser = "none"
        /\ resv = "none" /\ failed = "no"
    BY DEF Init
  <2>2. /\ body \in Bodies /\ stream \in BOOLEAN /\ gone \in BOOLEAN /\ reading \in BOOLEAN
        /\ copyErr \in BOOLEAN /\ answered \in BOOLEAN /\ overlong \in BOOLEAN
    BY DEF Init
  <2>3. chunks \in 0..MaxChunks /\ charged \in 0..MaxInt
    BY ProxyAssumption DEF Init
  <2>4. /\ usage \in Usages \union {0} /\ sent \in Usages \union {0}
        /\ cur \in Chunks /\ block \in Chunks
    BY ChunkTypes DEF Init
  <2> QED
    BY <2>1, <2>2, <2>3, <2>4 DEF TypeOK
<1>2. Books
  BY DEF Init, Books, Forwarded, InHand, ParserRuns, BeforeStream, Unanswered, ClosedLast, Text
<1>3. Promises
  BY DEF Init, Promises, ChargeFollowsUsage, NothingLeftPending
<1> QED
  BY <1>1, <1>2, <1>3 DEF Inv

-----------------------------------------------------------------------------
(* Every step keeps the invariant, one part at a time. *)

\* Every step keeps the types: what Settle charges is a positive int64.
LEMMA TypeStep == TypeOK /\ [Next]_vars => TypeOK'
<1> SUFFICES ASSUME TypeOK, [Next]_vars PROVE TypeOK'
  OBVIOUS
<1> USE DEF TypeOK, vars, input, client, copy, parse, money, seen, GoTo
<1>0. Estimate \in 1..MaxInt
  BY EstimateInt DEF Estimate
<1>1. CASE Reject
  BY <1>1 DEF Reject
<1>2. CASE CheckDenied
  BY <1>2 DEF CheckDenied
<1>3. CASE CheckAllowed
  BY <1>3, <1>0 DEF CheckAllowed
<1>4. CASE CheckFailedOpen
  BY <1>4 DEF CheckFailedOpen
<1>5. CASE SendFails
  BY <1>5 DEF SendFails
<1>6. CASE Send
  BY <1>6 DEF Send
<1>7. CASE DoFails
  BY <1>7 DEF DoFails
<1>8. CASE DoReturns
  BY <1>8 DEF DoReturns, StartParser
<1>9. CASE Refund("refund") \/ Refund("refundStream")
  BY <1>9, ProxyAssumption DEF Refund, Closes, CloseFails
<1>10. CASE \E tokens \in Usages \union {0} : ReadAll(tokens)
  BY <1>10 DEF ReadAll
<1>11. CASE ReadFails
  BY <1>11 DEF ReadFails
<1>12. CASE SettleJSON
  BY <1>12, <1>0, ProxyAssumption DEF SettleJSON, Closes, CloseFails, Actual
<1>13. CASE ReadEnds
  <2>1. copyErr' \in BOOLEAN /\ answered' \in BOOLEAN
    BY <1>13 DEF ReadEnds
  <2> QED
    BY <1>13, <2>1 DEF ReadEnds
<1>14. CASE WriteClient
  BY <1>14, ChunkTypes DEF WriteClient
<1>15. CASE WriteFails
  BY <1>15 DEF WriteFails
<1>16. CASE ClosePipe
  BY <1>16 DEF ClosePipe
<1>17. CASE AwaitParser
  BY <1>17 DEF AwaitParser
<1>18. CASE SettleStream
  BY <1>18, <1>0, ProxyAssumption DEF SettleStream, Closes, CloseFails, Actual
<1>19. CASE ParserReads
  BY <1>19 DEF ParserReads
<1>20. CASE ParserStops
  BY <1>20 DEF ParserStops
<1>21. CASE ParseLines
  BY <1>21, ChunkTypes DEF ParseLines
<1>22. CASE ParserEnds
  BY <1>22 DEF ParserEnds
<1>23. CASE \E c \in Chunks : ReadChunk(c)
  BY <1>23, ProxyAssumption DEF ReadChunk
<1>24. CASE UpstreamStops
  BY <1>24 DEF UpstreamStops
<1>25. CASE ClientLeaves
  BY <1>25 DEF ClientLeaves
<1>26. CASE Expire
  BY <1>26 DEF Expire
<1>27. CASE ClientPauses
  BY <1>27 DEF ClientPauses
<1>28. CASE UNCHANGED vars
  BY <1>28
<1> QED
  BY <1>1, <1>2, <1>3, <1>4, <1>5, <1>6, <1>7, <1>8, <1>9, <1>10, <1>11, <1>12,
     <1>13, <1>14, <1>15, <1>16, <1>17, <1>18, <1>19, <1>20, <1>21, <1>22, <1>23,
     <1>24, <1>25, <1>26, <1>27, <1>28 DEF Next, Handler, Parser, World

\* The handler and the parser stay in step: no usage block is lost between them.
LEMMA BooksStep == TypeOK /\ Books /\ [Next]_vars => Books'
<1> SUFFICES ASSUME TypeOK, Books, [Next]_vars PROVE Books'
  OBVIOUS
<1> USE DEF TypeOK, Books, Forwarded, InHand, ParserRuns, BeforeStream, Unanswered, ClosedLast
<1> USE DEF vars, input, client, copy, parse, money, seen, GoTo
<1>1. CASE Reject
  BY <1>1 DEF Reject
<1>2. CASE CheckDenied
  BY <1>2 DEF CheckDenied
<1>3. CASE CheckAllowed
  BY <1>3 DEF CheckAllowed
<1>4. CASE CheckFailedOpen
  BY <1>4 DEF CheckFailedOpen
<1>5. CASE SendFails
  BY <1>5 DEF SendFails
<1>6. CASE Send
  BY <1>6 DEF Send
<1>7. CASE DoFails
  BY <1>7 DEF DoFails
<1>8. CASE DoReturns
  BY <1>8 DEF DoReturns, StartParser
<1>9. CASE Refund("refund") \/ Refund("refundStream")
  BY <1>9 DEF Refund, Closes, CloseFails
<1>10. CASE \E tokens \in Usages \union {0} : ReadAll(tokens)
  BY <1>10 DEF ReadAll
<1>11. CASE ReadFails
  BY <1>11 DEF ReadFails
<1>12. CASE SettleJSON
  BY <1>12 DEF SettleJSON, Closes, CloseFails, Actual
<1>13. CASE ReadEnds
  BY <1>13 DEF ReadEnds
<1>14. CASE WriteClient
  BY <1>14 DEF WriteClient
<1>15. CASE WriteFails
  BY <1>15 DEF WriteFails
<1>16. CASE ClosePipe
  BY <1>16 DEF ClosePipe
<1>17. CASE AwaitParser
  BY <1>17 DEF AwaitParser, RefundDue
<1>18. CASE SettleStream
  BY <1>18 DEF SettleStream, Closes, CloseFails, Actual
<1>19. CASE ParserReads
  BY <1>19 DEF ParserReads
<1>20. CASE ParserStops
  BY <1>20 DEF ParserStops
<1>21. CASE ParseLines
  BY <1>21 DEF ParseLines
<1>22. CASE ParserEnds
  BY <1>22 DEF ParserEnds
<1>23. CASE \E c \in Chunks : ReadChunk(c)
  BY <1>23 DEF ReadChunk
<1>24. CASE UpstreamStops
  BY <1>24 DEF UpstreamStops
<1>25. CASE ClientLeaves
  BY <1>25 DEF ClientLeaves
<1>26. CASE Expire
  BY <1>26 DEF Expire
<1>27. CASE ClientPauses
  BY <1>27 DEF ClientPauses
<1>28. CASE UNCHANGED vars
  BY <1>28
<1> QED
  BY <1>1, <1>2, <1>3, <1>4, <1>5, <1>6, <1>7, <1>8, <1>9, <1>10, <1>11, <1>12,
     <1>13, <1>14, <1>15, <1>16, <1>17, <1>18, <1>19, <1>20, <1>21, <1>22, <1>23,
     <1>24, <1>25, <1>26, <1>27, <1>28 DEF Next, Handler, Parser, World

\* The promises are made when the handler ends, and nothing undoes them.
LEMMA PromisesStep == TypeOK /\ Books /\ Promises /\ [Next]_vars => Promises'
<1> SUFFICES ASSUME TypeOK, Books, Promises, [Next]_vars PROVE Promises'
  OBVIOUS
<1> USE DEF TypeOK, Books, Forwarded, InHand, ParserRuns, BeforeStream, Unanswered, ClosedLast
<1> USE DEF Promises, ChargeFollowsUsage, NothingLeftPending
<1> USE DEF vars, input, client, copy, parse, money, seen, GoTo, Estimate
<1>1. CASE Refund("refund")
  BY <1>1 DEF Refund, Closes, CloseFails, CtxBound
<1>2. CASE Refund("refundStream")
  BY <1>2 DEF Refund, Closes, CloseFails, CtxBound
<1>3. CASE SettleJSON
  BY <1>3 DEF SettleJSON, Closes, CloseFails, Actual, CtxBound
<1>4. CASE SettleStream
  <2>1. sent = usage /\ (usage > 0 \/ answered)
    BY <1>4, ProxyAssumption DEF SettleStream, Closes, CloseFails
  <2> QED BY <1>4, <2>1 DEF SettleStream, Closes, CloseFails, Actual, CtxBound
<1>5. CASE Reject \/ CheckDenied
  BY <1>5 DEF Reject, CheckDenied
<1>6. CASE CheckAllowed \/ CheckFailedOpen \/ SendFails \/ Send \/ DoFails \/ DoReturns
  BY <1>6 DEF CheckAllowed, CheckFailedOpen, SendFails, Send, DoFails, DoReturns,
     StartParser
<1>7. CASE (\E tokens \in Usages \union {0} : ReadAll(tokens)) \/ ReadFails
  BY <1>7 DEF ReadAll, ReadFails
<1>8. CASE \/ ReadEnds \/ WriteClient \/ WriteFails
           \/ ClosePipe \/ AwaitParser \/ (\E c \in Chunks : ReadChunk(c))
  BY <1>8 DEF ReadEnds, WriteClient, WriteFails, ClosePipe, AwaitParser, ReadChunk
<1>9. CASE ParserReads \/ ParserStops \/ ParseLines \/ ParserEnds
  BY <1>9 DEF ParserReads, ParserStops, ParseLines, ParserEnds
<1>10. CASE UpstreamStops \/ ClientLeaves \/ ClientPauses \/ Expire
  BY <1>10 DEF UpstreamStops, ClientLeaves, ClientPauses, Expire
<1>11. CASE UNCHANGED vars
  BY <1>11
<1> QED
  BY <1>1, <1>2, <1>3, <1>4, <1>5, <1>6, <1>7, <1>8, <1>9, <1>10, <1>11 DEF Next, Handler, Parser, World

-----------------------------------------------------------------------------
\* The invariant holds in every reachable state.
LEMMA InvHolds == Spec => []Inv
<1>1. Inv /\ [Next]_vars => Inv'
  BY TypeStep, BooksStep, PromisesStep DEF Inv
<1> QED
  BY InitInv, <1>1, PTL DEF Spec

\* Type correctness: what is charged for an open reservation is a positive int64,
\* however large the estimate's summands.
THEOREM TypeCorrect == Spec => []TypeOK
BY InvHolds, PTL DEF Inv

\* What handleStream and handleJSON charge when they close a reservation is the last
\* usage block the client was sent, or the estimate if there was none and the
\* response reached its end.
THEOREM ChargeFollowsUsageHolds == Spec => []ChargeFollowsUsage
BY InvHolds, PTL DEF Inv, Promises

\* A finished handler leaves its reservation pending only when its closing call
\* failed, and a stream's never for the client's leaving.
THEOREM NothingLeftPendingHolds == Spec => []NothingLeftPending
BY InvHolds, PTL DEF Inv, Promises
=============================================================================
