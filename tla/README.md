# Verification of valve

valve is a rate limiter for LLM gateways. A request is checked against a budget
of requests and a budget of tokens per minute (or of input and output tokens
separately), reserves what it is expected to cost, and is settled or refunded
once its real cost is known. This directory models it in TLA+, checks the models
with TLC and proves their safety with TLAPS: of both stores, of the lease path over
several pods and of the proxy.

## The system

| Part | State | Operations | Interaction |
| --- | --- | --- | --- |
| token bucket (`pkg/bucket`) | tokens, date of the last refill | refill, consume, credit, debit to the floor, wait | pure; called by the stores |
| memory store (`pkg/store/memory`) | a bucket per key and axis, reservations | Check, Settle, SettleIO, Refund, Borrow, Return | one mutex around every method |
| redis store (`pkg/store/redis`) | the same, in Redis hashes | the same, as Lua scripts | each script is atomic; settle and refund look the reservation up first, in a call of their own |
| lease pool (`pkg/lease`) | a lease per key, local reservations | TryDebit, CreditLease, SettleLocal(IO), ApplyBorrowedDeficit(IO), RefundLocal, SnapshotLeases | one mutex per call, none across calls |
| deny cache (`pkg/lease`) | an entry per key with an end time | Get, Set, Clear | own mutex; cleared by the pool, set by the limiter |
| limiter (`pkg/limiter`) | none of its own | Check (direct or fast path), Settle, SettleIO, Refund, Close | strings pool, deny cache and store calls together |
| valved (`cmd/valved`) | none | HTTP and gRPC front ends, shutdown | forwards to the limiter; closes it after stopping the servers |
| proxy example (`examples/openai-proxy`) with the llm helpers (`pkg/llm`) | per request: the reservation, the stream, the usage found | gate, estimate, Check, forward, settle or refund | calls the limiter; a streamed response is copied to the client and, through a pipe, to a parser goroutine |
| middleware, headers, metrics, logging | none | one Check before a handler, format, observe | call the limiter |

What is hard here: the handlers of a pod interleave between any two calls to
pool, cache and store; several pods share one store; the store's reply may be
lost, a pod may crash or be closed with requests in flight; leases, reservations
and denials run out; limits come with each request and may change between a
reservation and its settlement; the wall clock may be set back; Redis commands are
repeated by the client library without knowing whether they ran; clients leave and
upstreams break off in the middle of a stream. `PROJECT.json`
lists these hazards with the line where each bites and the property that covers
it.

What makes each part correct:

- store: never grants more than the rate; loses no token; a reservation is closed
  once; a denied client is told when to come back;
- lease pool and limiter: every token spent by a pod was debited from the store
  before; all pods together stay within the budget; unused credits are bounded;
  reservations close once; a refund is visible to the next request; every call is
  answered;
- sidecar and proxy: every reservation is settled or refunded; shutdown returns
  what is left.

## Modules

- `Bucket`: the token bucket as operators. Time is in ticks (seconds), a minute
  is `Period` ticks, tokens are counted in units of 1/`Period`. A tick then adds
  exactly `cap` units and nothing is rounded. The code keeps a float64, and
  `TryConsume` allows 1e-9 for its rounding: true balances are multiples of 1/60000 of
  a token, so it decides as the exact arithmetic does while rounding errors stay below
  the slack. The Lua scripts have none, see `RedisOps`.
- `StoreOps` (extends `Bucket`): what the store's methods compute of the buckets
  of one key: who denies, what is debited, credited, lent and reported, in classic
  and in split mode. `Load` refills a bucket and `TryConsume`, `Credit` and
  `DebitFloor` refill it again, as in the code; the second refill matters after a
  step back of the clock (`Reloaded`).
- `MemoryStore` (extends `StoreOps`): the store. One action per method and outcome
  (each method runs under the mutex). `bucket` is the maps rpm, tpm, itpm and otpm,
  `res` the map of reservations, `clock` the time source. `Live` is the purge every
  method but Borrow and Return begins with. `spent`, `lent`, `forward` and
  `issued` are history: what callers were charged, what is on loan, the ticks that
  passed, the ids in use.
- `FastPath` (extends `StoreOps`): pods with their pools, deny caches and handlers,
  over the store's buckets. A handler is a sequence of actions, one per locked
  section or store call: `CheckStart`, `FirstDebit`, `BorrowGranted` / `BorrowDenied`
  / `BorrowFails`, `CreditLease`, `SecondDebit`, `DenySet` are the path of
  `checkFast`; `SettleLocal` or `SettleAgain`, a Borrow, `CreditLease` and
  `ApplyDeficit` that of a settlement with overshoot; `CloseSnapshot` and
  `CloseReturn` are `Close`. `borrowed`, `charged` and `lost` are history, and so is the
  mark `stale` on denials.
- `Ledger`: what a store promises, whatever its buckets, clocks and failures. Funds
  and charges move together, no step but the passing of time creates funds, a charge
  changes only with the reservation or loan it belongs to, and a reservation is opened
  once and closed at most once. `MemoryStore` and `RedisStore` are both shown to
  implement it (`ImplementsLedger`): `funds` is what the buckets hold refilled to
  now, `spent` and `lent` are their accounts, `status` is that of the stored
  reservation, or "forgotten".
- `RedisOps` (extends `StoreOps`): what the Lua scripts compute, next to the memory
  store's operators: they refill once, cap only when time has passed, and date every
  bucket they save. They compare a balance with a cost strictly, so a refilled balance
  that is exactly the cost may come out below it: `LuaInexact` are the axes whose
  balance may be off, `LuaShort` those on which that can matter, and
  `LuaCheckReplies` the replies that are then possible.
- `RedisStore` (extends `RedisOps`): callers of the store over a connection that loses
  requests and replies, with the limiter's direct path in front of Check. A call is
  `CheckStart`, `CloseStart`, `BorrowStart` or `ReturnStart`, for Settle, SettleIO and
  Refund a `Lookup`, then a script: run and `Answered`, run with the `ReplyLost`, or
  not run (`RequestLost`); after a failure the library sends it again or gives up
  (`GiveUp`), which for a Check ends in `onStoreErr`. `call` is the call each caller is
  in; `inexact` marks the balances that may be off by a rounding error (refilled since
  they were last full or whole); `told`, `unheard`, `opened` and the accounts are
  history. `leaked` counts what
  was debited a second time or for a loan nobody heard of, `minted` what a repeated
  Return credited a second time: the scripts cannot recognise a repetition of Check,
  Borrow or Return.
- `Proxy`: one request through the proxy: handler, parser goroutine, pipe, upstream,
  client and the expiry of the reservation. `pc` follows `ServeHTTP`, `handleJSON` and
  `handleStream`; a chunk read from the upstream is written to the client, then handed
  to the parser, which takes it (`ParserReads`) before it parses it (`ParseLines`).
  The client may leave, or stay connected and stop reading, which blocks the write to
  it. `usageOK` and `usage.Total() > 0` are one here: they differ only for negative
  counts, or counts that cancel out.
  `sent`, `answered`, `overlong` and `failed` are history.
- `MCMemoryStore`, `MCFastPath`, `MCRedisStore`, `MCProxy`: instances; each `.cfg`
  picks input sets from them.
- `MemoryStoreProofs`, `FastPathProofs`, `RedisStoreProofs`, `ProxyProofs`: the theorems
  about the module each is named for.
- `BucketProofs`: what the operators of `Bucket` and `StoreOps` do to a bucket, for the
  first three. `SumTheorems`: sums of a function over a finite set.

Definitions named as the mutant of another one are not part of the model: each
is a plausible bug that one of the checked properties detects.

Left out of the modules: counters nobody decides on (hits, misses, borrows), the
remaining and reset fields of decisions, error texts, a failing random source,
`ResetAt`. A denied Borrow and a Return of nothing change no state and are
stuttering steps of `MemoryStore`. `FastPath` has one key with one set of limits,
because leases, denials and buckets of different keys never meet. A pod's clock is
the store's. `RedisStore` has one key for the same reason, and one server whose clock
does not step back; a command that the server runs long after the library has given
up on it is left out. `Proxy` has one request, because handlers share only the
limiter, of which it keeps the fate of the reservation; token counts of a body are
inputs, and arithmetic on them wraps as int64 does. Rounding is modelled where the two
stores treat it differently, in the comparison of a Check; the floors of Borrow and
of a settlement's overshoot round alike in both and are exact here, and so is a
balance that TryConsume's slack leaves a rounding error below zero.

## Runs

| Run | Result | Question |
| --- | --- | --- |
| `mem_classic` | holds | Rate, conservation, lifecycle and exact waits, with two reservations, loans, expiry, negative and oversized inputs and a step back of the clock |
| `mem_tiers` | holds | The same for a classic and a split tier sharing a key and its request bucket |
| `fast_plain` | holds | Two pods with failures, lost replies, a crash and shutdowns: every borrowed token is in one place, and the pods stay within the budget |
| `fast_overshoot` | holds | Two handlers of one pod in split mode with overshoot, repeated settlements and expiry: no negative balance, requests conserved, reservations closed once, every call answered |
| `fast_allow` | violated | Do the pods stay within the budget when settlements overshoot? No: the loan is credited twice |
| `fast_hoard` | violated | Are unused credits within pods x chunk? No |
| `fast_stale_deny` | violated | Is a denial never cached past a refund? It can be |
| `redis_faults` | holds | Two callers in both modes, with lost requests and replies, repeated scripts, and expiry or another call between lookup and script: rate and conservation up to what was repeated, no reservation without a caller but by a lost reply, the memory store's decisions up to rounding and lowered limits, the same ledger |
| `redis_rounding` | violated | Does Redis decide as the memory store, under one tier that never changes? Not when a refilled bucket holds exactly the cost |
| `proxy_faults` | holds | A JSON or streamed request with any failure of client, upstream, limiter and parser: charged for what the client was sent, left pending only by a failed call, and ended |
| `proxy_settles` | violated | Does every stream that has ended come to its closing call? No: after a line longer than 1 MB the copy waits for ever on a pipe nobody reads |
| `proxy_refunds` | violated | Is a request never refunded once part of its response was read? It is, if no usage block was among it |

The violated runs state what the documentation promises; the findings in
`PROJECT.json` quote the lines. In `fast_allow` a settlement's loan is added to the
lease by `CreditLease` and again by `ApplyBorrowedDeficit`. That is why
`fast_plain`, which asks for conservation of all tokens, has settlements within
their reservation, and `fast_overshoot`, which has larger ones, asks it of requests
only.

The properties: `RateBound` compares all that was charged and is left with a full
bucket and the refill of the elapsed time; `WindowBound` is its step form and gives
the bound for any window. Both measure against the most generous tier. The accounts
they use change once per reservation, so a second refund or settlement shows.
`NoTokenLost` is the other direction: what is missing from a bucket is charged to
somebody. `LeaseBacked` accounts for every token the store has granted, and
`GlobalAllow` is what the provider sees. `MatchesMemory` puts the same call to both
stores on every set of buckets Redis comes to, and says how far they agree: they part
where a lowered or zero limit meets a bucket written within the same tick, which the
scripts do not cap (`Comparable`), and where an axis holds exactly the cost and may be
off by a rounding error. `RedisMatching` has no such exceptions; it is what memory.go:36
claims, and `redis_rounding` refutes it with a tier that never changes.

`ChargeFollowsUsage` says what every closed reservation of the proxy is charged: the
usage the client was sent, else the estimate for a response that reached its end, else
nothing. That last case is not what WHAT_THIS_IS.md:260 asks for: `NoFakeRefund` states
its promise, and `proxy_refunds` refutes it. `RequestEnds` excepts a client that stays
connected without reading (`Stalled`: the server sets no write timeout), and the overlong
line that `proxy_settles` is about.

Four other disagreements with the documents show in the models without a run of their
own. Several axes that deny at once report the wait of the first one, not the longest
(memory.go:149; WHAT_THIS_IS.md:254). A settlement that reaches another pod than the one
that granted it is answered not found (limiter.go:252, `SettleUnknown`). A request that
was never sent stays charged if its client has left, because the refund is made with the
cancelled context (proxy.go:119; WHAT_THIS_IS.md:259): `NothingLeftPending` excepts it.
And a stream of more than 15 minutes outlasts its reservation, so the estimate stays
charged (proxy.go:192, `Expire`; WHAT_THIS_IS.md:261).

### Bounds

A period of two ticks and budgets of one to three tokens make fractions of a token,
floors, empty and full buckets all occur. Two reservations suffice for one to race
another; three ticks let a reservation with a TTL of one expire and be purged. Two
handlers, in one pod or in two, give every interleaving of two calls; a third would
add load but no new kind of step. `MaxTime`, `MaxStepBack`, `MaxFaults` and
`MaxCrashes` bound the clock and the environment's failures. Ids are symmetric;
symmetry is used in runs without temporal properties other than step properties.
`MCFastPath` runs do not check for deadlock, since all pods may be shut down for
good. Neither do the runs of `MCRedisStore`, where `MaxCalls` ends the calls and
`MaxTime` the clock, and of `MCProxy`, where the one request ends.

`redis_faults` has three calls by two callers with two ids and two faults: a check and
the two closing calls that race for it, two checks for one budget, or a loan, its
return and a check; two faults let a call fail twice or fail and be repeated. A TTL of
two ticks and four ticks of time let a reservation expire before its closing call and
between its lookup and its script. `CallTime < TTL` is the assumption that the client
library answers or gives up (a few attempts of some seconds) before a reservation
expires (15 minutes). `proxy_faults` has three chunks, enough for two usage blocks of
which the last counts, and for a chunk before and after an overlong one; integers of
four bits make the estimate overflow. The other runs of `MCProxy` have the same bounds;
`redis_rounding` needs two checks and no fault.

### Fairness

`FairSpec` asks of each handler that has begun that it takes its next step
eventually. The code holds no lock across a store call and never waits for another
handler, and a store call returns, with an answer or an error: in memory at once,
in Redis by the client's timeouts. Nothing is assumed of new requests, failures,
crashes or time.

`Proxy` asks it of the handler and of the parser, each a goroutine of its own: one that
can run does. Store calls return as above. Nothing is assumed of the upstream, which
may never send or end, of the client, or of the reservation's expiry. A write to a client
that does not read is no step the handler can take, so fairness does not promise it.

## Proofs

The theorems hold for every value of the constants that satisfies the named assumptions,
which TLC evaluates in each run: any number of keys, tiers, callers, pods and ids, any
costs, loans and times. The bounds of the runs (`MaxTime`, `MaxFaults` and the like) are
constants too, so they bound nothing here.

### The memory store (`MemoryStoreProofs`)

- `TypeCorrect`: no bucket below empty or above the most generous budget;
- `RateBoundHolds` and `WindowBoundHolds`, under `SteadyLimits`;
- `LifecycleHolds`: a reservation opens, closes and is forgotten once;
- `MemoryImplementsLedger`, under `SteadyLimits`;
- `RetryAfterExactHolds`: the wait of a denial is exact for the axis it names;
- `NoTokenLostHolds`: a token that is missing is charged or lent.

Assumptions: `PeriodAssumption`, `StoreAssumption`, and where it is named
`SteadyLimits`: the clock is never stepped back, or no tier lowers the budget of an axis
it uses. The hypothesis is needed. After a step back `Refill` does not cap, so a bucket
can hold more than a lowered tier's capacity; `Borrow` then grants more than the
capacity, `TryConsume` refuses it, and `Borrow` drops the refusal: tokens are lent and
not debited.

The inductive invariant is `TypeOK` and `Timely` (no bucket is dated in the future
while the clock only advances). `Timely` is what makes `Refill` cap, which `Borrow`
needs for its grant to be debited. The bound itself follows from `AxisStep`, a
relation between a bucket before and after an operation and what the callers are
charged for it: each operator of `Bucket` satisfies it, each action lifts it to its
key and axes, and so no action adds to `Claimed`; a tick refills at most what
`Claimed` deducts for it. The lifecycle needs one more invariant, that only issued
ids are stored, and the ledger another, that no more is returned than was lent.

`RetryAfterExact` follows from the types alone. A denied bucket whose date is not ahead
of the clock has been refilled below its cost, hence not capped; rounding its deficit up
to whole ticks gives the least wait (`LeastWait`), and a second refill at the same time
changes nothing (`RefillTwice`).

`NoTokenLost` needs no `SteadyLimits`. Each operator leaves a full bucket of its tier,
or a full one with what it charges, or all that was there but the charge (`Keeps`). The
first case is enough only if no charge is negative, and this needs `Covered`: what is on
loan and what the pending reservations hold, a sum over the ids issued so far, is
charged. That set is finite because a step issues one id at most, so the ids need not
be.

### The lease path (`FastPathProofs`)

- `FastPathTypeOK`: no balance, charge or overshoot goes negative;
- `ReservationsKeepTerms`: `LocalLifecycle`, in every interleaving of handlers;
- `RequestsAreBacked` and `RequestsAllowed`: requests are conserved and all pods
  together stay within the budget, whatever is settled;
- `LeasesAreBacked` and `GlobalAllowHolds`: the same on every axis, if no caller uses
  more than it reserved (`NoOvershoot`).

Assumption: `FastPathAssumption`, with finitely many pods, handlers and ids, over which
the conservation laws sum. `NoOvershoot` is needed: `ApplyBorrowedDeficit` credits a loan
that `CreditLease` has credited before, and the run `fast_allow` shows where that leads.

The types are not inductive. A refund takes its cost off `charged`, which stays a number
of tokens only because all pending reservations together are charged
(`PendingCharged`); for that a reservation has to be stored and closed once, and so the
id of a Check in progress has to be nobody else's (`IdInv`). `Bounded` keeps the store's
buckets within the limits. Conservation is `Backed`: what the store granted is the sum of
what leases, snapshots and handlers hold and what is charged or lost, and each action
moves tokens between two of these terms. It needs `OpenEmpty` (a pod that is not closing
has no snapshot) and, with `NoOvershoot`, `Frugal` (no handler covers an overshoot).
`LoansBounded`, an invariant by `AxisStep`, bounds what the store grants, and the two
together bound what is charged.

### The Redis store (`RedisStoreProofs`)

- `TypeCorrect`: balances within the top budget, accounts not negative;
- `RateBoundHolds`, up to what a repeated Return credits twice;
- `NoTokenLostHolds`, up to what a script whose reply was lost debited;
- `VouchedHolds`: only a lost reply leaves a reservation no caller knows of;
- `MatchesMemoryHolds`: both stores decide and write the same where they are comparable,
  but for denials by an axis that rounding leaves short;
- `RedisImplementsLedger`.

Assumption: `RedisAssumption`, with finitely many ids and `CallTime < TTL` (a call ends
before a reservation expires). Faults are not bounded. What a script does to one bucket
is `LuaStep`, the upper and the lower bound of the memory store in one; `Charges` says
that a step moves buckets and accounts by the same amounts, and every script does. The
types need `TInv`: a reservation costs only on the axes of its limits, and a Return that
has not run yet gives back what is still on loan. Repeated checks need `IdInv`: one that
has run before finds the reservation it wrote, pending and with its own cost. Hence a
check is charged once however often it runs, `leaked` takes the rest, and the ledger opens
an id once. `NoTokenLost` needs `Covered`, as above. `MatchesMemory` follows from the
types: on comparable buckets one refill by the scripts is two by the memory store, and
an axis that denies without being short is the first of the denying axes with or without
the short ones (`FirstOfFewer`).

### The proxy (`ProxyProofs`)

- `TypeCorrect`: a charge is a number an int64 holds, also when the estimate wraps;
- `ChargeFollowsUsageHolds`, `NothingLeftPendingHolds`.

Assumption: `ProxyAssumption` on the constants. Neither of the two promises is
inductive: each is about the handler's last step, which reads `usage`, a variable
another goroutine writes. The invariant adds `Books`, which ties the two together.
`Forwarded` says that what the client was sent is what the parser was handed, but for
the chunk about to be written to the pipe; `ParserRuns`, that the handler settles
only after the parser is done; `Unanswered`, that no response counts as answered
before its copy ends without an error; `ClosedLast`, that closing the reservation is
the handler's last step.

### Sums (`SumTheorems`)

The library defines a sum over a finite set by a recursive function on its subsets and
states nothing about it. Each fact is shown by a least subset for which it fails, which
exists because strict inclusion of finite sets is well-founded.

### Only model-checked

Liveness (`CallsFinish` of `FastPath`, `RequestEnds` of `Proxy`), which is out of this
prover's reach. The properties of the violated runs do not hold.

## Plan

1. (done) `Bucket`, `StoreOps`, `MemoryStore` with their proofs; `FastPath`.
2. (done) `Ledger`, and `MemoryStore` shown to implement it; `RedisOps` and
   `RedisStore` with lost and repeated commands and the limiter's direct path, shown to
   implement it too.
3. (done) `Proxy`, with the parser, the estimate and the gate.
4. A lease across a change of mode; shutdown of valved with both servers.
5. (done) Proofs of the invariants and step properties the runs check, and of both
   refinements to the ledger.

## Not modelled

- The middleware: one Check before a handler, with the id passed on in the context;
  no other call and no state.
- The HTTP and gRPC layers of valved, which forward each call to the limiter, and the
  wait of `GracefulStop` for open connections.
- The proxy's keys (hashes of headers, the model's name) and its `main`; counting tokens
  in text; the mismatch counters of `pkg/llm`.
- Redis clusters: the reservation's key carries no hash tag, so the scripts' keys lie in
  different slots.
- Commands that reach Redis after the library has given up on them. A late check would
  debit, and open again a reservation that was closed.
- Headers (formatting); metrics and logging (observers); generated code, clients and
  deployment files.
