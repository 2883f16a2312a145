--------------------------- MODULE QuoteService ---------------------------
(***************************************************************************)
(* The rate lookup behind GET /api/quotes (voltpay_go): fetchRate, the     *)
(* two-level RateCache and the upstream call with its retries.  Requests   *)
(* run concurrently on several instances of the service; an instance has   *)
(* its own memory, all of them share one Redis, any of them may restart.   *)
(*                                                                         *)
(* One currency pair: entries of different pairs share nothing but the     *)
(* mutex.  A rate is represented by the instant at which the upstream call *)
(* returned it, so "which rate" and "how old" are the same question.       *)
(***************************************************************************)
EXTENDS Integers

CONSTANTS
  Instances,    \* running copies of the service
  Requests,     \* request slots; each is used once
  TTL,          \* RateCache.ttl, the lifetime written into an entry
  RedisTTL,     \* RateCache.rttl, the lifetime of the Redis key
  CallTimeout,  \* http.Client.Timeout of one upstream call
  Backoff,      \* the first backoff; each further one doubles
  MaxRetries,   \* maxRetries
  Offset,       \* Offset[i]: how far the wall clock of i is ahead of true time
  MaxSkew,      \* bound on the difference of two of these clocks
  Horizon       \* bound: no request arrives after this instant

ASSUME TimesAssumption ==
  /\ TTL \in Nat \ {0} /\ RedisTTL \in Nat /\ CallTimeout \in Nat \ {0}
  /\ Backoff \in Nat \ {0} /\ MaxRetries \in 0 .. 2 /\ Horizon \in Nat
ASSUME ClockAssumption ==
  /\ MaxSkew \in Nat
  /\ Offset \in [Instances -> Nat]
  /\ \A i, j \in Instances : Offset[i] - Offset[j] <= MaxSkew

VARIABLES
  now,      \* true time
  mem,      \* mem[i]: the entry in the memory of instance i
  redis,    \* the shared Redis key: an entry and the instant the key dies
  pc,       \* pc[q]: the next step of request q
  on,       \* on[q]: the instance that serves q
  held,     \* held[q]: the entry q has read, or is about to store
  attempt,  \* attempt[q]: retries q has used up
  wake,     \* wake[q]: when q's upstream call times out, or its sleep ends
  begun,    \* begun[q]: when q entered callUpstreamWithRetry
  cause,    \* cause[q]: why q's last upstream call failed
  ans,      \* ans[q]: X-Rate-Source of the answer, or its error status
  decided   \* decided[q]: when the answered rate was chosen

vars == <<now, mem, redis, pc, on, held, attempt, wake, begun, cause, ans, decided>>

-----------------------------------------------------------------------------
Time == Int
Entry == [at : Int, exp : Int]

\* The zero rateEntry: absent from the map, or nil from Redis.  It has expired.
NoEntry == [at |-> -1, exp |-> -1]
NoKey == [entry |-> NoEntry, dead |-> 0]

\* time.Now() as instance i sees it, and the freshness test of Get.
Clock(i) == now + Offset[i]
LiveAtExpiry(e, i) == Clock(i) <= e.exp  \* mutant: still fresh at exp
Live(e, i) == Clock(i) < e.exp

\* How one upstream call can fail: a network timeout, reset or 5xx; the timeout
\* of the http.Client; 401/403/404; any other status, a malformed body or a
\* cancelled context.  "Wordy": the body that callUpstreamOnce quotes in the
\* error of a status below 500 contains "timeout", "temporary" or the like.
Errors == {"transient", "clientTimeout", "denied", "deniedWordy", "other", "otherWordy"}

\* isTransient looks for words in the message, the quoted body included; the
\* client's own timeout says "Client.Timeout exceeded", which has none of them.
isTransient(e) == e \in {"transient", "deniedWordy", "otherWordy"}

RawError(e) == e  \* mutant: the error is not mapped to a status
StatusOf(e) == IF e \in {"denied", "deniedWordy"} THEN "badRequest" ELSE "badGateway"

BackoffFourfold(n) == Backoff * (IF n = 0 THEN 1 ELSE IF n = 1 THEN 4 ELSE 16)  \* mutant
BackoffOf(n) == Backoff * (IF n = 0 THEN 1 ELSE IF n = 1 THEN 2 ELSE 4)

\* Longest stay in callUpstreamWithRetry until attempt n gives up: n + 1 calls
\* and the n sleeps between them.
Budget(n) == (n + 1) * CallTimeout
             + Backoff * (IF n = 0 THEN 0 ELSE IF n = 1 THEN 1 ELSE 3)

PCs == {"free", "mem", "memCheck", "redis", "redisCheck", "warm", "call",
        "backoff", "setMem", "setRedis", "done", "lost"}
Serving == PCs \ {"free", "done", "lost"}

Init ==
  /\ now = 0
  /\ mem = [i \in Instances |-> NoEntry]
  /\ redis = NoKey
  /\ pc = [q \in Requests |-> "free"]
  /\ on \in [Requests -> Instances]
  /\ held = [q \in Requests |-> NoEntry]
  /\ attempt = [q \in Requests |-> 0]
  /\ wake = [q \in Requests |-> 0]
  /\ begun = [q \in Requests |-> 0]
  /\ cause = [q \in Requests |-> "none"]
  /\ ans = [q \in Requests |-> "none"]
  /\ decided = [q \in Requests |-> 0]

-----------------------------------------------------------------------------
At(q, here) == pc[q] = here
Go(q, there) == pc' = [pc EXCEPT ![q] = there]

\* Handle calls fetchRate.
Arrive(q) ==
  /\ At(q, "free") /\ now <= Horizon
  /\ Go(q, "mem")
  /\ UNCHANGED <<now, mem, redis, on, held, attempt, wake, begun, cause, ans, decided>>

\* RateCache.Get, first level: read the entry under RLock.
ReadMem(q) ==
  /\ At(q, "mem")
  /\ held' = [held EXCEPT ![q] = mem[on[q]]]
  /\ Go(q, "memCheck")
  /\ UNCHANGED <<now, mem, redis, on, attempt, wake, begun, cause, ans, decided>>

\* ... and test it after RUnlock.
MemHit(q) ==
  /\ At(q, "memCheck") /\ Live(held[q], on[q])
  /\ Go(q, "done")
  /\ ans' = [ans EXCEPT ![q] = "cache"]
  /\ decided' = [decided EXCEPT ![q] = now]
  /\ cause' = [cause EXCEPT ![q] = "none"]
  /\ UNCHANGED <<now, mem, redis, on, held, attempt, wake, begun>>

MemMiss(q) ==
  /\ At(q, "memCheck") /\ ~Live(held[q], on[q])
  /\ Go(q, "redis")
  /\ held' = [held EXCEPT ![q] = NoEntry]
  /\ UNCHANGED <<now, mem, redis, on, attempt, wake, begun, cause, ans, decided>>

\* Second level: the Redis GET.  A dead key, an error and an undecodable value
\* all read as nothing.
ReadRedis(q) ==
  /\ At(q, "redis")
  /\ held' \in {[held EXCEPT ![q] = e] :
                   e \in {NoEntry} \cup (IF now < redis.dead THEN {redis.entry} ELSE {})}
  /\ Go(q, "redisCheck")
  /\ UNCHANGED <<now, mem, redis, on, attempt, wake, begun, cause, ans, decided>>

\* Mutant: the Exp of what Redis returned is not looked at.
RedisHitUnchecked(q) ==
  /\ At(q, "redisCheck") /\ held[q] # NoEntry
  /\ Go(q, "warm")
  /\ decided' = [decided EXCEPT ![q] = now]
  /\ cause' = [cause EXCEPT ![q] = "none"]
  /\ UNCHANGED <<now, mem, redis, on, held, attempt, wake, begun, ans>>

RedisHit(q) ==
  /\ At(q, "redisCheck") /\ Live(held[q], on[q])
  /\ Go(q, "warm")
  /\ decided' = [decided EXCEPT ![q] = now]
  /\ cause' = [cause EXCEPT ![q] = "none"]
  /\ UNCHANGED <<now, mem, redis, on, held, attempt, wake, begun, ans>>

\* The entry found in Redis is put in memory, whatever is there by now.
WarmMem(q) ==
  /\ At(q, "warm")
  /\ mem' = [mem EXCEPT ![on[q]] = held[q]]
  /\ Go(q, "done")
  /\ ans' = [ans EXCEPT ![q] = "cache"]
  /\ UNCHANGED <<now, redis, on, held, attempt, wake, begun, cause, decided>>

\* First lookup missed: callUpstreamWithRetry makes its first call.
CallUpstream(q) ==
  /\ At(q, "redisCheck") /\ ~Live(held[q], on[q]) /\ cause[q] = "none"
  /\ Go(q, "call")
  /\ held' = [held EXCEPT ![q] = NoEntry]
  /\ wake' = [wake EXCEPT ![q] = now + CallTimeout]
  /\ begun' = [begun EXCEPT ![q] = now]
  /\ UNCHANGED <<now, mem, redis, on, attempt, cause, ans, decided>>

\* Fallback lookup missed too: the upstream's error is answered.
AnswerError(q) ==
  /\ At(q, "redisCheck") /\ ~Live(held[q], on[q]) /\ cause[q] # "none"
  /\ Go(q, "done")
  /\ held' = [held EXCEPT ![q] = NoEntry]
  /\ ans' = [ans EXCEPT ![q] = StatusOf(cause[q])]
  /\ cause' = [cause EXCEPT ![q] = "none"]
  /\ UNCHANGED <<now, mem, redis, on, attempt, wake, begun, decided>>

\* callUpstreamOnce returned a rate: Set builds the entry ...
CallSucceeds(q) ==
  /\ At(q, "call")
  /\ Go(q, "setMem")
  /\ held' = [held EXCEPT ![q] = [at |-> now, exp |-> Clock(on[q]) + TTL]]
  /\ decided' = [decided EXCEPT ![q] = now]
  /\ attempt' = [attempt EXCEPT ![q] = 0]
  /\ wake' = [wake EXCEPT ![q] = 0]
  /\ begun' = [begun EXCEPT ![q] = 0]
  /\ UNCHANGED <<now, mem, redis, on, cause, ans>>

\* The client's own timeout strikes at the deadline, the others any time before.
CallErrorNoTimeout(q, e) == At(q, "call") /\ e # "clientTimeout"  \* mutant: no Timeout set
CallError(q, e) == At(q, "call") /\ (e = "clientTimeout" => now >= wake[q])

CallRetry(q, e) ==
  /\ CallError(q, e) /\ isTransient(e) /\ attempt[q] < MaxRetries
  /\ Go(q, "backoff")
  /\ wake' = [wake EXCEPT ![q] = now + BackoffOf(attempt[q])]
  /\ cause' = [cause EXCEPT ![q] = e]
  /\ UNCHANGED <<now, mem, redis, on, held, attempt, begun, ans, decided>>

\* The sleep is over: next round of the loop.
CallAgain(q) ==
  /\ At(q, "backoff") /\ now >= wake[q]
  /\ Go(q, "call")
  /\ attempt' = [attempt EXCEPT ![q] = @ + 1]
  /\ wake' = [wake EXCEPT ![q] = now + CallTimeout]
  /\ cause' = [cause EXCEPT ![q] = "none"]
  /\ UNCHANGED <<now, mem, redis, on, held, begun, ans, decided>>

\* The loop gives up: fetchRate looks into the cache once more.
CallFails(q, e) ==
  /\ CallError(q, e) /\ ~(isTransient(e) /\ attempt[q] < MaxRetries)
  /\ Go(q, "mem")
  /\ cause' = [cause EXCEPT ![q] = e]
  /\ attempt' = [attempt EXCEPT ![q] = 0]
  /\ wake' = [wake EXCEPT ![q] = 0]
  /\ begun' = [begun EXCEPT ![q] = 0]
  /\ UNCHANGED <<now, mem, redis, on, held, ans, decided>>

\* ... stores it in memory under the lock ...
SetMem(q) ==
  /\ At(q, "setMem")
  /\ mem' = [mem EXCEPT ![on[q]] = held[q]]
  /\ Go(q, "setRedis")
  /\ UNCHANGED <<now, redis, on, held, attempt, wake, begun, cause, ans, decided>>

\* ... and writes it to Redis, ignoring an error.
SetRedis(q) ==
  /\ At(q, "setRedis")
  /\ redis' \in {redis, [entry |-> held[q], dead |-> now + RedisTTL]}
  /\ Go(q, "done")
  /\ ans' = [ans EXCEPT ![q] = "upstream"]
  /\ UNCHANGED <<now, mem, on, held, attempt, wake, begun, cause, decided>>

-----------------------------------------------------------------------------
\* An instance restarts: its memory is gone, and so are its open requests.
Restart(i) ==
  /\ mem' = [mem EXCEPT ![i] = NoEntry]
  /\ pc' = [q \in Requests |-> IF on[q] = i /\ pc[q] \in Serving THEN "lost" ELSE pc[q]]
  /\ UNCHANGED <<now, redis, on, held, attempt, wake, begun, cause, ans, decided>>

\* Redis drops the key before its time (eviction, restart).
Evict == redis' = NoKey
         /\ UNCHANGED <<now, mem, pc, on, held, attempt, wake, begun, cause, ans, decided>>

\* Time passes, but not over the end of a running call or sleep.  Bound: beyond
\* the horizon it passes only while a call or a sleep is running.
Tick ==
  /\ now < Horizon \/ \E q \in Requests : pc[q] \in {"call", "backoff"}
  /\ \A q \in Requests : pc[q] \in {"call", "backoff"} => now < wake[q]
  /\ now' = now + 1
  /\ UNCHANGED <<mem, redis, pc, on, held, attempt, wake, begun, cause, ans, decided>>

-----------------------------------------------------------------------------
\* What the handler does on its own, an unanswered upstream call included ...
Proceed(q) ==
  \/ ReadMem(q) \/ MemHit(q) \/ MemMiss(q)
  \/ ReadRedis(q) \/ RedisHit(q) \/ WarmMem(q)
  \/ CallUpstream(q) \/ CallAgain(q) \/ CallFails(q, "clientTimeout")
  \/ SetMem(q) \/ SetRedis(q) \/ AnswerError(q)

\* ... and what the upstream may or may not do to it.
UpstreamAnswers(q) ==
  \/ CallSucceeds(q)
  \/ \E e \in Errors \ {"clientTimeout"} : CallRetry(q, e) \/ CallFails(q, e)

Next ==
  \/ \E q \in Requests : Arrive(q) \/ Proceed(q) \/ UpstreamAnswers(q)
  \/ \E i \in Instances : Restart(i)
  \/ Evict
  \/ Tick

Spec == Init /\ [][Next]_vars

\* A handler's goroutine is always scheduled again, the client's timeout ends
\* every call, and time goes on.  Arrivals, upstream answers, restarts and
\* evictions need never happen.
FairSpec == Spec /\ WF_vars(Tick) /\ \A q \in Requests : WF_vars(Proceed(q))

-----------------------------------------------------------------------------
TypeOK ==
  /\ now \in Nat
  /\ mem \in [Instances -> Entry]
  /\ redis \in [entry : Entry, dead : Int]
  /\ pc \in [Requests -> PCs]
  /\ on \in [Requests -> Instances]
  /\ held \in [Requests -> Entry]
  /\ attempt \in [Requests -> 0 .. MaxRetries]
  /\ wake \in [Requests -> Int]
  /\ begun \in [Requests -> Int]
  /\ cause \in [Requests -> Errors \cup {"none"}]
  /\ ans \in [Requests -> {"none", "cache", "upstream", "badRequest", "badGateway"}]
  /\ decided \in [Requests -> Int]

\* A cached rate is answered only while it is younger than the TTL (plus the
\* skew of the clocks that wrote and tested it), however many times it was
\* copied between Redis and the memories, and an answer called "upstream" is
\* the rate that call returned: Get, Set and fetchRate together.
FreshAnswer ==
  \A q \in Requests :
    /\ ans[q] = "cache" => /\ 0 <= held[q].at /\ held[q].at <= decided[q]
                           /\ decided[q] - held[q].at < TTL + MaxSkew
    /\ ans[q] = "upstream" => held[q].at = decided[q]

\* A request never stays in callUpstreamWithRetry longer than its calls'
\* timeouts and its backoffs add up to.
UpstreamBudget ==
  \A q \in Requests :
    pc[q] \in {"call", "backoff"} => now - begun[q] <= Budget(MaxRetries)

\* Every request that arrived is answered in the end, even when the upstream
\* never answers, unless its instance restarts under it.
EveryRequestEnds ==
  \A q \in Requests : pc[q] = "mem" ~> pc[q] \in {"done", "lost"}

-----------------------------------------------------------------------------
\* The promise of FreshRates, kept by the steps above.
stageOf(q) ==
  CASE pc[q] = "free" -> "free"
    [] pc[q] \in {"warm", "setMem", "setRedis"} -> "chosen"
    [] pc[q] = "done" -> IF ans[q] \in {"cache", "upstream"} THEN "quoted" ELSE "failed"
    [] pc[q] = "lost" -> "lost"
    [] OTHER -> "asked"
Rates == INSTANCE FreshRates WITH
  MaxAge <- TTL + MaxSkew,
  stage <- [q \in Requests |-> stageOf(q)],
  at <- [q \in Requests |-> IF stageOf(q) \in {"chosen", "quoted"} THEN held[q].at ELSE -1]
QuotesFreshRates == Rates!Spec
=============================================================================
