------------------------ MODULE QuoteServiceProofs ------------------------
(***************************************************************************)
(* QuoteService, for any number of instances and requests, any timeouts    *)
(* and any clock offsets within MaxSkew: its types, the freshness of what  *)
(* it answers and the time it spends upstream.  Then QuoteScreen, which    *)
(* shows those quotes, for any amounts, currencies and retries: what is    *)
(* shown belongs to what is asked.                                         *)
(***************************************************************************)
EXTENDS QuoteService, QuoteScreen, TLAPS

(***************************************************************************)
(* Why answers are fresh.  An entry carries its expiry with it: whoever    *)
(* copies it between the memories and Redis copies exp unchanged, so exp   *)
(* never exceeds at + TTL by more than the skew of two clocks.  A request  *)
(* that has chosen a rate keeps it in held until it answers.               *)
(***************************************************************************)
Bounded(e) == /\ e.at <= now
              /\ e.exp > 0 => e.at >= 0
              /\ \A j \in Instances : e.exp <= e.at + TTL + MaxSkew + Offset[j]

Young(q) == /\ 0 <= held[q].at /\ held[q].at <= decided[q]
            /\ decided[q] - held[q].at < TTL + MaxSkew

EntriesBounded == /\ \A i \in Instances : Bounded(mem[i])
                  /\ Bounded(redis.entry)
                  /\ \A q \in Requests : Bounded(held[q])

ChoiceKept(q) ==
  /\ ans[q] = "none" <=> pc[q] # "done"
  /\ ans[q] = "cache" \/ pc[q] = "warm" => Young(q)
  /\ ans[q] = "upstream" \/ pc[q] \in {"setMem", "setRedis"} => held[q].at = decided[q]
  /\ pc[q] = "mem" => ans[q] = "none"

FreshInv == TypeOK /\ EntriesBounded /\ \A q \in Requests : ChoiceKept(q)

\* Why attempt stays within MaxRetries: a request sleeps only to try once more.
RetriesLeft == \A q \in Requests : pc[q] = "backoff" => attempt[q] < MaxRetries

(***************************************************************************)
(* Why the time upstream is bounded: time does not pass the end of a       *)
(* running call or sleep, and that end is within the budget of the         *)
(* attempts made so far.                                                   *)
(***************************************************************************)
InBudget(q) ==
  /\ attempt[q] = 0 \/ pc[q] \in {"call", "backoff", "lost"}
  /\ pc[q] = "call" => now <= wake[q] /\ wake[q] <= begun[q] + Budget(attempt[q])
  /\ pc[q] = "backoff" => /\ now <= wake[q]
                          /\ wake[q] <= begun[q] + Budget(attempt[q] + 1) - CallTimeout

BudgetInv == TypeOK /\ RetriesLeft /\ \A q \in Requests : InBudget(q)

-----------------------------------------------------------------------------
\* The initial state has the declared types.
LEMMA TypeInit == Init => TypeOK
  BY TimesAssumption, ClockAssumption
     DEF Init, TypeOK, NoEntry, NoKey, Entry, PCs, Errors

\* Every step keeps the declared types.
LEMMA TypeStep == TypeOK /\ RetriesLeft /\ [Next]_vars => TypeOK'
<1> SUFFICES ASSUME TypeOK, RetriesLeft, [Next]_vars PROVE TypeOK'
  OBVIOUS
<1> USE TimesAssumption, ClockAssumption
<1>1. ASSUME NEW q \in Requests, Arrive(q) PROVE TypeOK'
  BY <1>1 DEF TypeOK, Arrive, Go, PCs
<1>2. ASSUME NEW q \in Requests, ReadMem(q) \/ MemHit(q) \/ MemMiss(q) PROVE TypeOK'
  <2>1. CASE ReadMem(q)
    BY <2>1 DEF TypeOK, ReadMem, Go, PCs
  <2>2. CASE MemHit(q)
    BY <2>2 DEF TypeOK, MemHit, Go, PCs
  <2>3. CASE MemMiss(q)
    BY <2>3 DEF TypeOK, MemMiss, Go, PCs, NoEntry, Entry
  <2> QED
    BY <1>2, <2>1, <2>2, <2>3
<1>3. ASSUME NEW q \in Requests, ReadRedis(q) \/ RedisHit(q) \/ WarmMem(q) PROVE TypeOK'
  <2>1. CASE ReadRedis(q)
    <3>1. PICK e \in {NoEntry, redis.entry} : held' = [held EXCEPT ![q] = e]
      BY <2>1 DEF ReadRedis
    <3>2. e \in Entry
      BY DEF TypeOK, NoEntry, Entry
    <3> QED
      BY <2>1, <3>1, <3>2 DEF TypeOK, ReadRedis, Go, PCs
  <2>2. CASE RedisHit(q)
    BY <2>2 DEF TypeOK, RedisHit, Go, PCs
  <2>3. CASE WarmMem(q)
    BY <2>3 DEF TypeOK, WarmMem, Go, PCs
  <2> QED
    BY <1>3, <2>1, <2>2, <2>3
<1>4. ASSUME NEW q \in Requests, CallUpstream(q) \/ AnswerError(q) PROVE TypeOK'
  <2>1. CASE CallUpstream(q)
    BY <2>1 DEF TypeOK, CallUpstream, Go, PCs, NoEntry, Entry
  <2>2. CASE AnswerError(q)
    BY <2>2 DEF TypeOK, AnswerError, Go, PCs, NoEntry, Entry, StatusOf
  <2> QED
    BY <1>4, <2>1, <2>2
<1>5. ASSUME NEW q \in Requests, CallSucceeds(q) PROVE TypeOK'
  BY <1>5 DEF TypeOK, CallSucceeds, Clock, Go, PCs, Entry
<1>6. ASSUME NEW q \in Requests, NEW e \in Errors, CallRetry(q, e) PROVE TypeOK'
  BY <1>6 DEF TypeOK, CallRetry, BackoffOf, Go, PCs
<1>7. ASSUME NEW q \in Requests, CallAgain(q) PROVE TypeOK'
  BY <1>7 DEF TypeOK, RetriesLeft, CallAgain, Go, At, PCs
<1>8. ASSUME NEW q \in Requests, NEW e \in Errors, CallFails(q, e) PROVE TypeOK'
  BY <1>8 DEF TypeOK, CallFails, Go, PCs
<1>9. ASSUME NEW q \in Requests, SetMem(q) \/ SetRedis(q) PROVE TypeOK'
  <2>1. CASE SetMem(q)
    BY <2>1 DEF TypeOK, SetMem, Go, PCs
  <2>2. CASE SetRedis(q)
    <3>1. redis' \in [entry : Entry, dead : Int]
      BY <2>2 DEF TypeOK, SetRedis
    <3> QED
      BY <2>2, <3>1 DEF TypeOK, SetRedis, Go, PCs
  <2> QED
    BY <1>9, <2>1, <2>2
<1>10. ASSUME NEW i \in Instances, Restart(i) PROVE TypeOK'
  BY <1>10 DEF TypeOK, Restart, PCs, NoEntry, Entry
<1>11. ASSUME Evict \/ Tick \/ UNCHANGED vars PROVE TypeOK'
  BY <1>11 DEF TypeOK, Evict, Tick, vars, NoKey, NoEntry, Entry
<1>12. "clientTimeout" \in Errors
  BY DEF Errors
<1> QED
  BY <1>1, <1>2, <1>3, <1>4, <1>5, <1>6, <1>7, <1>8, <1>9, <1>10, <1>11, <1>12
     DEF Next, Proceed, UpstreamAnswers

\* Only CallRetry starts a sleep, and it checks that a retry is left.
LEMMA RetriesStep == TypeOK /\ RetriesLeft /\ [Next]_vars => RetriesLeft'
<1> SUFFICES ASSUME TypeOK, RetriesLeft, [Next]_vars, NEW q \in Requests
             PROVE (pc[q] = "backoff" => attempt[q] < MaxRetries)'
  BY DEF RetriesLeft
<1> USE DEF TypeOK, RetriesLeft, Go
<1>1. ASSUME NEW r \in Requests, Arrive(r) \/ ReadMem(r) \/ MemHit(r) \/ MemMiss(r)
      PROVE (pc[q] = "backoff" => attempt[q] < MaxRetries)'
  BY <1>1 DEF Arrive, ReadMem, MemHit, MemMiss
<1>2. ASSUME NEW r \in Requests,
             ReadRedis(r) \/ RedisHit(r) \/ WarmMem(r) \/ CallUpstream(r) \/ AnswerError(r)
      PROVE (pc[q] = "backoff" => attempt[q] < MaxRetries)'
  BY <1>2 DEF ReadRedis, RedisHit, WarmMem, CallUpstream, AnswerError
<1>3. ASSUME NEW r \in Requests, CallSucceeds(r) \/ CallAgain(r) \/ SetMem(r) \/ SetRedis(r)
      PROVE (pc[q] = "backoff" => attempt[q] < MaxRetries)'
  BY <1>3 DEF CallSucceeds, CallAgain, SetMem, SetRedis
<1>4. ASSUME NEW r \in Requests, NEW e \in Errors, CallRetry(r, e)
      PROVE (pc[q] = "backoff" => attempt[q] < MaxRetries)'
  BY <1>4 DEF CallRetry
<1>5. ASSUME NEW r \in Requests, NEW e \in Errors, CallFails(r, e)
      PROVE (pc[q] = "backoff" => attempt[q] < MaxRetries)'
  BY <1>5 DEF CallFails
<1>6. ASSUME NEW i \in Instances, Restart(i)
      PROVE (pc[q] = "backoff" => attempt[q] < MaxRetries)'
  BY <1>6 DEF Restart
<1>7. ASSUME Evict \/ Tick \/ UNCHANGED vars
      PROVE (pc[q] = "backoff" => attempt[q] < MaxRetries)'
  BY <1>7 DEF Evict, Tick, vars
<1>8. "clientTimeout" \in Errors
  BY DEF Errors
<1> QED
  BY <1>1, <1>2, <1>3, <1>4, <1>5, <1>6, <1>7, <1>8 DEF Next, Proceed, UpstreamAnswers

\* The variables of the service always have their declared types: in particular
\* a request never uses more than MaxRetries retries.
THEOREM TypeCorrect == Spec => []TypeOK
<1>1. Init => TypeOK /\ RetriesLeft
  BY TypeInit DEF Init, RetriesLeft
<1>2. TypeOK /\ RetriesLeft /\ [Next]_vars => (TypeOK /\ RetriesLeft)'
  BY TypeStep, RetriesStep
<1> QED
  BY <1>1, <1>2, PTL DEF Spec

-----------------------------------------------------------------------------
\* An entry stays bounded as time goes on.
LEMMA BoundedLater ==
  ASSUME TypeOK, now' \in Nat, now' >= now, NEW e \in Entry, Bounded(e)
  PROVE  Bounded(e)'
  BY DEF TypeOK, Entry, Bounded

\* The missing entry is bounded: it has expired everywhere.
LEMMA NoEntryBounded == TypeOK => NoEntry \in Entry /\ Bounded(NoEntry)
  BY TimesAssumption, ClockAssumption DEF TypeOK, NoEntry, Entry, Bounded

\* The freshness test of Get is what makes a bounded entry young: it has been
\* written at most TTL before, by clocks that differ by at most MaxSkew.
LEMMA LiveIsYoung ==
  ASSUME TypeOK, NEW e \in Entry, NEW i \in Instances, Bounded(e), Live(e, i)
  PROVE  0 <= e.at /\ e.at <= now /\ now - e.at < TTL + MaxSkew
  BY TimesAssumption, ClockAssumption DEF TypeOK, Entry, Bounded, Live, Clock

\* Set dates an entry by the clock of its instance.
LEMMA NewEntryBounded ==
  ASSUME TypeOK, NEW i \in Instances
  PROVE  Bounded([at |-> now, exp |-> Clock(i) + TTL])
  BY TimesAssumption, ClockAssumption DEF TypeOK, Bounded, Clock

\* Only copies of bounded entries are stored.
LEMMA EntriesStep == TypeOK /\ TypeOK' /\ EntriesBounded /\ [Next]_vars => EntriesBounded'
<1> SUFFICES ASSUME TypeOK, TypeOK', EntriesBounded, [Next]_vars PROVE EntriesBounded'
  OBVIOUS
<1>t. now' = now \/ Tick
  BY DEF Next, Proceed, UpstreamAnswers, vars, Arrive, ReadMem, MemHit, MemMiss, ReadRedis,
         RedisHit, WarmMem, CallUpstream, AnswerError, CallSucceeds, CallRetry, CallAgain,
         CallFails, SetMem, SetRedis, Restart, Evict
<1>u. now' \in Nat /\ now' >= now
  BY <1>t DEF TypeOK, Tick
<1>v. ASSUME NEW e \in Entry, Bounded(e) PROVE Bounded(e)'
  BY <1>u, <1>v, BoundedLater
<1>1. ASSUME UNCHANGED <<mem, redis, held>> PROVE EntriesBounded'
  <2>1. /\ \A i \in Instances : mem[i] \in Entry /\ Bounded(mem[i])
        /\ redis.entry \in Entry /\ Bounded(redis.entry)
        /\ \A q \in Requests : held[q] \in Entry /\ Bounded(held[q])
    BY DEF TypeOK, EntriesBounded
  <2>2. \A i \in Instances : Bounded(mem[i])'
    BY <1>1, <1>v, <2>1 DEF Bounded
  <2>3. Bounded(redis.entry)'
    BY <1>1, <1>v, <2>1 DEF Bounded
  <2>4. \A q \in Requests : Bounded(held[q])'
    BY <1>1, <1>v, <2>1 DEF Bounded
  <2> QED
    BY <2>2, <2>3, <2>4 DEF EntriesBounded
<1>2. ASSUME UNCHANGED now,
             \A i \in Instances : Bounded(mem'[i]),
             Bounded(redis'.entry),
             \A q \in Requests : Bounded(held'[q])
      PROVE EntriesBounded'
  BY <1>2 DEF EntriesBounded, Bounded
<1>3. ASSUME NEW q \in Requests, ReadMem(q) \/ MemMiss(q) \/ ReadRedis(q) \/ CallUpstream(q)
                                  \/ AnswerError(q) \/ CallSucceeds(q)
      PROVE EntriesBounded'
  <2>1. UNCHANGED <<now, mem, redis>>
    BY <1>3 DEF ReadMem, MemMiss, ReadRedis, CallUpstream, AnswerError, CallSucceeds
  <2>2. PICK e : Bounded(e) /\ held' = [held EXCEPT ![q] = e]
    BY <1>3, NoEntryBounded, NewEntryBounded
       DEF EntriesBounded, TypeOK, ReadMem, MemMiss, ReadRedis, CallUpstream, AnswerError,
           CallSucceeds
  <2>3. \A r \in Requests : Bounded(held'[r])
    BY <2>2 DEF EntriesBounded, TypeOK
  <2> QED
    BY <1>2, <2>1, <2>3 DEF EntriesBounded
<1>4. ASSUME NEW q \in Requests, WarmMem(q) \/ SetMem(q) PROVE EntriesBounded'
  <2>1. UNCHANGED <<now, redis, held>> /\ mem' = [mem EXCEPT ![on[q]] = held[q]]
    BY <1>4 DEF WarmMem, SetMem
  <2>2. \A i \in Instances : Bounded(mem'[i])
    BY <2>1 DEF EntriesBounded, TypeOK
  <2> QED
    BY <1>2, <2>1, <2>2 DEF EntriesBounded
<1>5. ASSUME NEW q \in Requests, SetRedis(q) PROVE EntriesBounded'
  <2>1. UNCHANGED <<now, mem, held>> /\ redis'.entry \in {redis.entry, held[q]}
    BY <1>5 DEF SetRedis
  <2> QED
    BY <1>2, <2>1 DEF EntriesBounded
<1>6. ASSUME NEW i \in Instances, Restart(i) PROVE EntriesBounded'
  BY <1>2, <1>6, NoEntryBounded DEF EntriesBounded, TypeOK, Restart
<1>7. ASSUME Evict PROVE EntriesBounded'
  BY <1>2, <1>7, NoEntryBounded DEF EntriesBounded, Evict, NoKey
<1>8. ASSUME NEW q \in Requests, Arrive(q) \/ MemHit(q) \/ RedisHit(q) \/ CallAgain(q)
                                  \/ (\E e \in Errors : CallRetry(q, e) \/ CallFails(q, e))
      PROVE EntriesBounded'
  BY <1>1, <1>8 DEF Arrive, MemHit, RedisHit, CallAgain, CallRetry, CallFails
<1>9. ASSUME Tick \/ UNCHANGED vars PROVE EntriesBounded'
  BY <1>1, <1>9 DEF Tick, vars
<1>10. "clientTimeout" \in Errors
  BY DEF Errors
<1> QED
  BY <1>3, <1>4, <1>5, <1>6, <1>7, <1>8, <1>9, <1>10 DEF Next, Proceed, UpstreamAnswers

\* A chosen rate stays young, and in held, until it is answered.
LEMMA ChoiceStep ==
  ASSUME TypeOK, EntriesBounded, [Next]_vars, NEW q \in Requests, ChoiceKept(q)
  PROVE  ChoiceKept(q)'
<1> USE DEF TypeOK, ChoiceKept, Young, Go, At
<1>1. ASSUME NEW r \in Requests, Arrive(r) \/ ReadMem(r) \/ MemMiss(r) \/ ReadRedis(r)
      PROVE ChoiceKept(q)'
  BY <1>1 DEF Arrive, ReadMem, MemMiss, ReadRedis
<1>2. ASSUME NEW r \in Requests, MemHit(r) \/ RedisHit(r) PROVE ChoiceKept(q)'
  <2>1. 0 <= held[r].at /\ held[r].at <= now /\ now - held[r].at < TTL + MaxSkew
    <3>1. held[r] \in Entry /\ on[r] \in Instances /\ Bounded(held[r]) /\ Live(held[r], on[r])
      BY <1>2 DEF EntriesBounded, MemHit, RedisHit
    <3> HIDE DEF TypeOK, ChoiceKept, Young, Go, At
    <3> QED
      BY <3>1, LiveIsYoung
  <2> QED
    BY <1>2, <2>1 DEF MemHit, RedisHit
<1>3. ASSUME NEW r \in Requests, WarmMem(r) \/ SetMem(r) \/ SetRedis(r) PROVE ChoiceKept(q)'
  BY <1>3 DEF WarmMem, SetMem, SetRedis
<1>4. ASSUME NEW r \in Requests, CallUpstream(r) \/ CallSucceeds(r) \/ CallAgain(r)
      PROVE ChoiceKept(q)'
  BY <1>4 DEF CallUpstream, CallSucceeds, CallAgain
<1>5. ASSUME NEW r \in Requests, AnswerError(r) PROVE ChoiceKept(q)'
  BY <1>5 DEF AnswerError, StatusOf
<1>6. ASSUME NEW r \in Requests, NEW e \in Errors, CallRetry(r, e) \/ CallFails(r, e)
      PROVE ChoiceKept(q)'
  BY <1>6 DEF CallRetry, CallFails, CallError
<1>7. ASSUME NEW i \in Instances, Restart(i) PROVE ChoiceKept(q)'
  BY <1>7 DEF Restart, Serving, PCs
<1>8. ASSUME Evict \/ Tick \/ UNCHANGED vars PROVE ChoiceKept(q)'
  BY <1>8 DEF Evict, Tick, vars
<1>9. "clientTimeout" \in Errors
  BY DEF Errors
<1> HIDE DEF TypeOK, ChoiceKept, Young, Go, At
<1> QED
  BY <1>1, <1>2, <1>3, <1>4, <1>5, <1>6, <1>7, <1>8, <1>9 DEF Next, Proceed, UpstreamAnswers

\* FreshInv is inductive.
LEMMA FreshInvariant == Spec => []FreshInv
<1>1. Init => FreshInv
  <2> SUFFICES ASSUME Init PROVE FreshInv
    OBVIOUS
  <2>1. TypeOK
    BY TypeInit
  <2>2. EntriesBounded
    BY <2>1, NoEntryBounded DEF Init, EntriesBounded, NoKey
  <2>3. \A q \in Requests : ChoiceKept(q)
    BY DEF Init, ChoiceKept
  <2> QED
    BY <2>1, <2>2, <2>3 DEF FreshInv
<1>2. TypeOK /\ TypeOK' /\ FreshInv /\ [Next]_vars => FreshInv'
  BY EntriesStep, ChoiceStep DEF FreshInv
<1> QED
  BY <1>1, <1>2, TypeCorrect, PTL DEF Spec

\* No answer carries a cached rate as old as TTL + MaxSkew when it was chosen,
\* and what is called "upstream" is the rate that the request's own call
\* returned - for any number of instances, concurrent requests, restarts and
\* evictions.
THEOREM AnswersAreFresh == Spec => []FreshAnswer
<1>1. FreshInv => FreshAnswer
  BY DEF FreshInv, FreshAnswer, ChoiceKept, Young
<1> QED
  BY <1>1, FreshInvariant, PTL

-----------------------------------------------------------------------------
\* One more attempt costs its sleep and its call.
LEMMA BudgetGrows ==
  ASSUME NEW n \in 0 .. MaxRetries, n < MaxRetries
  PROVE  /\ Budget(n) \in Nat /\ Budget(n + 1) = Budget(n) + BackoffOf(n) + CallTimeout
         /\ Budget(n + 1) <= Budget(MaxRetries) /\ Budget(n) <= Budget(MaxRetries)
<1>1. MaxRetries \in {0, 1, 2} /\ n \in {0, 1}
  BY TimesAssumption
<1>2. \A k \in Nat : /\ k * CallTimeout \in Nat
                     /\ (k + 1) * CallTimeout = k * CallTimeout + CallTimeout
  BY TimesAssumption
<1>3. CASE n = 0
  BY <1>1, <1>2, <1>3, TimesAssumption DEF Budget, BackoffOf
<1>4. CASE n = 1
  BY <1>1, <1>2, <1>4, TimesAssumption DEF Budget, BackoffOf
<1> QED
  BY <1>1, <1>3, <1>4

\* The first call fits its budget.
LEMMA BudgetStarts == Budget(0) = CallTimeout
  BY TimesAssumption DEF Budget

\* No step takes a request beyond its budget: time stops at the end of a call
\* or sleep, a retry buys its sleep and its call, and all else leaves the loop.
LEMMA BudgetStep ==
  ASSUME TypeOK, RetriesLeft, [Next]_vars, \A r \in Requests : InBudget(r),
         NEW q \in Requests
  PROVE  InBudget(q)'
<1>b. \A n \in 0 .. MaxRetries : Budget(n) \in Nat
  <2>1. \A n \in 0 .. MaxRetries : n < MaxRetries => Budget(n) \in Nat
    BY BudgetGrows
  <2>2. Budget(MaxRetries) \in Nat
    BY TimesAssumption DEF Budget
  <2>3. \A n \in 0 .. MaxRetries : n < MaxRetries \/ n = MaxRetries
    BY TimesAssumption
  <2> QED
    BY <2>1, <2>2, <2>3
<1> USE DEF TypeOK, InBudget, Go, At
<1>1. ASSUME NEW r \in Requests, Arrive(r) \/ ReadMem(r) \/ MemHit(r) \/ MemMiss(r)
      PROVE InBudget(q)'
  BY <1>1 DEF Arrive, ReadMem, MemHit, MemMiss
<1>2. ASSUME NEW r \in Requests, ReadRedis(r) \/ RedisHit(r) \/ WarmMem(r) \/ AnswerError(r)
      PROVE InBudget(q)'
  BY <1>2 DEF ReadRedis, RedisHit, WarmMem, AnswerError
<1>3. ASSUME NEW r \in Requests, CallSucceeds(r) \/ SetMem(r) \/ SetRedis(r)
      PROVE InBudget(q)'
  BY <1>3 DEF CallSucceeds, SetMem, SetRedis
<1>4. ASSUME NEW r \in Requests, CallUpstream(r) PROVE InBudget(q)'
  BY <1>4, BudgetStarts, TimesAssumption DEF CallUpstream
<1>5. ASSUME NEW r \in Requests, NEW e \in Errors, CallRetry(r, e) PROVE InBudget(q)'
  <2>1. CASE q # r
    BY <1>5, <2>1 DEF CallRetry
  <2>2. CASE q = r
    <3>1. /\ attempt[q] \in 0 .. MaxRetries /\ attempt[q] < MaxRetries
          /\ now <= begun[q] + Budget(attempt[q]) /\ BackoffOf(attempt[q]) \in Nat
          /\ pc'[q] = "backoff" /\ wake'[q] = now + BackoffOf(attempt[q])
          /\ UNCHANGED <<now, begun, attempt>>
      BY <1>5, <2>2, <1>b, TimesAssumption DEF CallRetry, CallError, BackoffOf
    <3>2. Budget(attempt[q] + 1) = Budget(attempt[q]) + BackoffOf(attempt[q]) + CallTimeout
      BY <3>1, BudgetGrows
    <3>3. Budget(attempt[q]) \in Nat /\ CallTimeout \in Nat
      BY <1>b, <3>1, TimesAssumption
    <3> QED
      BY <3>1, <3>2, <3>3
  <2> QED
    BY <2>1, <2>2
<1>6. ASSUME NEW r \in Requests, CallAgain(r) PROVE InBudget(q)'
  <2>1. attempt[r] + 1 \in 0 .. MaxRetries
    BY <1>6, TimesAssumption DEF CallAgain, RetriesLeft
  <2>2. Budget(attempt[r] + 1) \in Nat
    BY <1>b, <2>1
  <2> QED
    BY <1>6, <2>2, TimesAssumption DEF CallAgain
<1>7. ASSUME NEW r \in Requests, NEW e \in Errors, CallFails(r, e) PROVE InBudget(q)'
  BY <1>7 DEF CallFails
<1>8. ASSUME NEW i \in Instances, Restart(i) PROVE InBudget(q)'
  BY <1>8 DEF Restart, Serving, PCs
<1>9. ASSUME Tick PROVE InBudget(q)'
  BY <1>9 DEF Tick
<1>10. ASSUME Evict \/ UNCHANGED vars PROVE InBudget(q)'
  BY <1>10 DEF Evict, vars
<1>11. "clientTimeout" \in Errors
  BY DEF Errors
<1> HIDE DEF TypeOK, InBudget, Go, At
<1> QED
  BY <1>1, <1>2, <1>3, <1>4, <1>5, <1>6, <1>7, <1>8, <1>9, <1>10, <1>11
     DEF Next, Proceed, UpstreamAnswers

\* A request is never in callUpstreamWithRetry for longer than MaxRetries + 1
\* client timeouts and the backoffs between them, whatever the upstream does.
THEOREM UpstreamIsBounded == Spec => []UpstreamBudget
<1>1. Init => BudgetInv
  <2> SUFFICES ASSUME Init PROVE BudgetInv
    OBVIOUS
  <2>1. TypeOK
    BY TypeInit
  <2> QED
    BY <2>1 DEF Init, BudgetInv, InBudget, RetriesLeft
<1>2. TypeOK' /\ BudgetInv /\ [Next]_vars => BudgetInv'
  BY RetriesStep, BudgetStep DEF BudgetInv
<1>3. BudgetInv => UpstreamBudget
  <2> SUFFICES ASSUME BudgetInv, NEW q \in Requests, pc[q] \in {"call", "backoff"}
               PROVE now - begun[q] <= Budget(MaxRetries)
    BY DEF UpstreamBudget
  <2> USE DEF BudgetInv, InBudget, TypeOK
  <2>1. CASE pc[q] = "call"
    <3>1. Budget(attempt[q]) <= Budget(MaxRetries) /\ Budget(attempt[q]) \in Int
          /\ Budget(MaxRetries) \in Int
      BY BudgetGrows, TimesAssumption DEF Budget
    <3> QED
      BY <2>1, <3>1
  <2>2. CASE pc[q] = "backoff"
    <3>1. Budget(attempt[q] + 1) <= Budget(MaxRetries) /\ Budget(attempt[q] + 1) \in Int
          /\ Budget(MaxRetries) \in Int
      BY <2>2, BudgetGrows, TimesAssumption DEF RetriesLeft, Budget
    <3> QED
      BY <2>2, <3>1, TimesAssumption
  <2> QED
    BY <2>1, <2>2
<1> QED
  BY <1>1, <1>2, <1>3, TypeCorrect, PTL DEF Spec

-----------------------------------------------------------------------------
(***************************************************************************)
(* Why a request does not go round for ever: it comes to the cache twice,  *)
(* but the second time with the error of the upstream, and to the upstream *)
(* once for every retry.                                                   *)
(***************************************************************************)
\* The steps a lookup still takes before it goes elsewhere.
LookupSteps(here) ==
  CASE here = "mem" -> 3 [] here = "memCheck" -> 2 [] here = "redis" -> 1 [] OTHER -> 0

\* At most so many more steps of its own does q take.
StepsLeft(q) ==
  CASE pc[q] = "free" -> 11 + 2 * MaxRetries
    [] pc[q] \in {"mem", "memCheck", "redis", "redisCheck"} ->
         LookupSteps(pc[q]) + (IF cause[q] = "none" THEN 7 + 2 * MaxRetries ELSE 2)
    [] pc[q] = "call" -> 6 + 2 * (MaxRetries - attempt[q])
    [] pc[q] = "backoff" -> 5 + 2 * (MaxRetries - attempt[q])
    [] pc[q] = "setMem" -> 2
    [] pc[q] \in {"setRedis", "warm"} -> 1
    [] OTHER -> 0

GoesForward ==
  [][\A q \in Requests : pc'[q] # pc[q] =>
       StepsLeft(q) \in Nat /\ StepsLeft(q)' \in Nat /\ StepsLeft(q)' < StepsLeft(q)]_vars

LEMMA StepsAreNat ==
  ASSUME TypeOK, NEW q \in Requests
  PROVE  StepsLeft(q) \in Nat
<1>1. attempt[q] \in 0 .. MaxRetries /\ MaxRetries \in Nat
  BY TimesAssumption DEF TypeOK
<1>2. LookupSteps(pc[q]) \in Nat
  BY DEF LookupSteps
<1> QED BY <1>1, <1>2 DEF StepsLeft

\* A step of q's own takes it forward ...
LEMMA OwnStepCounts ==
  ASSUME TypeOK, RetriesLeft, NEW q \in Requests, Arrive(q) \/ Proceed(q) \/ UpstreamAnswers(q)
  PROVE  StepsLeft(q)' < StepsLeft(q)
<1>1. attempt[q] \in 0 .. MaxRetries /\ MaxRetries \in Nat /\ attempt[q] \in Nat
  BY TimesAssumption DEF TypeOK
<1> USE DEF At, Go, TypeOK, StepsLeft, LookupSteps
<1>2. CASE Arrive(q)
  BY <1>1, <1>2 DEF Arrive
<1>3. CASE ReadMem(q) \/ MemHit(q) \/ MemMiss(q)
  BY <1>1, <1>3 DEF ReadMem, MemHit, MemMiss
<1>4. CASE ReadRedis(q) \/ RedisHit(q) \/ WarmMem(q)
  BY <1>1, <1>4 DEF ReadRedis, RedisHit, WarmMem
<1>5. CASE CallUpstream(q)
  BY <1>1, <1>5 DEF CallUpstream
<1>6. CASE AnswerError(q)
  BY <1>1, <1>6 DEF AnswerError
<1>7. CASE CallAgain(q)
  BY <1>1, <1>7 DEF CallAgain
<1>8. CASE CallSucceeds(q) \/ SetMem(q) \/ SetRedis(q)
  BY <1>1, <1>8 DEF CallSucceeds, SetMem, SetRedis
<1>9. ASSUME NEW e \in Errors, CallRetry(q, e) PROVE StepsLeft(q)' < StepsLeft(q)
  BY <1>1, <1>9 DEF CallRetry, CallError
<1>10. ASSUME NEW e \in Errors, CallFails(q, e) PROVE StepsLeft(q)' < StepsLeft(q)
  <2>1. e # "none"
    BY DEF Errors
  <2> QED BY <1>1, <1>10, <2>1 DEF CallFails, CallError
<1>11. "clientTimeout" \in Errors
  BY DEF Errors
<1> HIDE DEF At, Go, TypeOK, StepsLeft, LookupSteps
<1> QED
  BY <1>2, <1>3, <1>4, <1>5, <1>6, <1>7, <1>8, <1>9, <1>10, <1>11 DEF Proceed, UpstreamAnswers

\* ... and so does the loss of its instance; no other request moves it.
LEMMA StepCounts ==
  ASSUME TypeOK, RetriesLeft, [Next]_vars, NEW q \in Requests, pc'[q] # pc[q]
  PROVE  StepsLeft(q)' < StepsLeft(q)
<1>1. ASSUME NEW r \in Requests, Arrive(r) \/ Proceed(r) \/ UpstreamAnswers(r) PROVE r = q
  <2>1. PICK there : Go(r, there)
    <3>1. CASE Arrive(r)
      BY <3>1 DEF Arrive
    <3>2. CASE Proceed(r)
      BY <3>2 DEF Proceed, ReadMem, MemHit, MemMiss, ReadRedis, RedisHit, WarmMem, CallUpstream,
                  CallAgain, CallFails, SetMem, SetRedis, AnswerError
    <3>3. CASE UpstreamAnswers(r)
      BY <3>3 DEF UpstreamAnswers, CallSucceeds, CallRetry, CallFails
    <3> QED BY <1>1, <3>1, <3>2, <3>3
  <2> QED BY <2>1 DEF Go, TypeOK
<1>2. ASSUME NEW i \in Instances, Restart(i) PROVE StepsLeft(q)' < StepsLeft(q)
  <2>1. pc[q] \in Serving /\ pc'[q] = "lost"
    BY <1>2 DEF Restart, TypeOK
  <2>2. attempt[q] \in 0 .. MaxRetries /\ MaxRetries \in Nat
    BY TimesAssumption DEF TypeOK
  <2> QED BY <2>1, <2>2 DEF StepsLeft, LookupSteps, Serving, PCs
<1>3. CASE Evict \/ Tick \/ UNCHANGED vars
  BY <1>3 DEF Evict, Tick, vars
<1> QED BY <1>1, <1>2, <1>3, OwnStepCounts DEF Next

\* No request goes round for ever: whatever the cache, the upstream and the other
\* requests do, each of its steps leaves it fewer, from 11 and two for each retry.
THEOREM NobodyGoesRound == Spec => GoesForward
<1>1. Init => TypeOK /\ RetriesLeft
  BY TypeInit DEF Init, RetriesLeft
<1>2. TypeOK /\ RetriesLeft /\ [Next]_vars => TypeOK' /\ RetriesLeft'
  BY TypeStep, RetriesStep
<1>3. TypeOK /\ RetriesLeft /\ TypeOK' /\ [Next]_vars =>
        [\A q \in Requests : pc'[q] # pc[q] =>
           StepsLeft(q) \in Nat /\ StepsLeft(q)' \in Nat /\ StepsLeft(q)' < StepsLeft(q)]_vars
  <2> SUFFICES ASSUME TypeOK, RetriesLeft, TypeOK', [Next]_vars, NEW q \in Requests, pc'[q] # pc[q]
               PROVE  StepsLeft(q) \in Nat /\ StepsLeft(q)' \in Nat /\ StepsLeft(q)' < StepsLeft(q)
    OBVIOUS
  <2>1. StepsLeft(q) \in Nat
    BY StepsAreNat
  <2>2. StepsLeft(q)' \in Nat
    <3>1. attempt'[q] \in 0 .. MaxRetries /\ MaxRetries \in Nat
      BY TimesAssumption DEF TypeOK
    <3>2. LookupSteps(pc'[q]) \in Nat
      BY DEF LookupSteps
    <3> QED BY <3>1, <3>2 DEF StepsLeft
  <2> QED BY <2>1, <2>2, StepCounts
<1> QED BY <1>1, <1>2, <1>3, PTL DEF Spec, GoesForward

-----------------------------------------------------------------------------
\* What FreshRates sees of a request.
atOf(q) == IF stageOf(q) \in {"chosen", "quoted"} THEN held[q].at ELSE -1

\* A step that shows nothing of itself is a stutter of FreshRates.
LEMMA MapStutter ==
  ASSUME UNCHANGED now, \A q \in Requests : stageOf(q)' = stageOf(q) /\ atOf(q)' = atOf(q)
  PROVE  UNCHANGED Rates!vars
  BY DEF Rates!vars, atOf

\* A step that shows of one request only updates the two mapped functions there.
LEMMA MapStep ==
  ASSUME NEW q \in Requests, NEW s, NEW a, stageOf(q)' = s, atOf(q)' = a,
         \A r \in Requests \ {q} : stageOf(r)' = stageOf(r) /\ atOf(r)' = atOf(r)
  PROVE  /\ [r \in Requests |-> stageOf(r)]' = [[r \in Requests |-> stageOf(r)] EXCEPT ![q] = s]
         /\ [r \in Requests |-> atOf(r)]' = [[r \in Requests |-> atOf(r)] EXCEPT ![q] = a]
  OBVIOUS

\* A request that moves alone leaves what shows of the others as it is.
LEMMA OthersKept ==
  ASSUME TypeOK, NEW q \in Requests, NEW s, Go(q, s),
         \/ UNCHANGED ans
         \/ \E v : ans' = [ans EXCEPT ![q] = v],
         \/ UNCHANGED held
         \/ \E v : held' = [held EXCEPT ![q] = v]
  PROVE  \A r \in Requests \ {q} : stageOf(r)' = stageOf(r) /\ atOf(r)' = atOf(r)
  BY DEF TypeOK, Go, stageOf, atOf

\* Before it has chosen a rate a request shows as asked, with no rate.
LEMMA AskedShows ==
  ASSUME NEW q \in Requests,
         pc[q] \in {"mem", "memCheck", "redis", "redisCheck", "call", "backoff"}
  PROVE  stageOf(q) = "asked" /\ atOf(q) = -1
  BY DEF stageOf, atOf

\* Every step of the service is a step of FreshRates or shows nothing.
LEMMA MapNext == FreshInv /\ FreshInv' /\ [Next]_vars => [Rates!Next]_(Rates!vars)
<1> SUFFICES ASSUME FreshInv, FreshInv', [Next]_vars PROVE Rates!Next \/ UNCHANGED Rates!vars
  OBVIOUS
<1>i. TypeOK /\ EntriesBounded /\ (\A q \in Requests : ChoiceKept(q))
      /\ \A q \in Requests : ChoiceKept(q)'
  BY DEF FreshInv
<1> HIDE DEF FreshInv
<1>1. ASSUME NEW q \in Requests, Arrive(q) PROVE Rates!Ask(q)
  <2>1. \A r \in Requests \ {q} : stageOf(r)' = stageOf(r) /\ atOf(r)' = atOf(r)
    BY <1>1, <1>i, OthersKept DEF Arrive
  <2>2. /\ stageOf(q) = "free" /\ atOf(q) = -1
        /\ stageOf(q)' = "asked" /\ atOf(q)' = -1
    BY <1>1, <1>i DEF Arrive, At, Go, TypeOK, stageOf, atOf
  <2>3. UNCHANGED now
    BY <1>1 DEF Arrive
  <2> QED
    BY <2>1, <2>2, <2>3, MapStep DEF Rates!Ask, Rates!Move, atOf
<1>2. ASSUME NEW q \in Requests, ReadMem(q) \/ MemMiss(q) \/ ReadRedis(q) \/ CallUpstream(q)
                                  \/ CallAgain(q)
                                  \/ \E e \in Errors : CallRetry(q, e) \/ CallFails(q, e)
      PROVE UNCHANGED Rates!vars
  <2>1. /\ \E s \in {"mem", "memCheck", "redis", "redisCheck", "call", "backoff"} :
             Go(q, s) /\ pc'[q] = s
        /\ pc[q] \in {"mem", "memCheck", "redis", "redisCheck", "call", "backoff"}
        /\ UNCHANGED <<now, ans>> /\ (UNCHANGED held \/ \E v : held' = [held EXCEPT ![q] = v])
    BY <1>2, <1>i DEF TypeOK, ReadMem, MemMiss, ReadRedis, CallUpstream, CallAgain, CallRetry,
                      CallFails, CallError, At, Go
  <2>2. \A r \in Requests \ {q} : stageOf(r)' = stageOf(r) /\ atOf(r)' = atOf(r)
    BY <2>1, <1>i, OthersKept
  <2>3. stageOf(q) = "asked" /\ atOf(q) = -1 /\ stageOf(q)' = "asked" /\ atOf(q)' = -1
    BY <2>1 DEF stageOf, atOf
  <2> QED
    BY <2>1, <2>2, <2>3, MapStutter
<1>3. ASSUME NEW q \in Requests, MemHit(q) \/ RedisHit(q) \/ CallSucceeds(q)
      PROVE Rates!Choose(q)
  <2>1. PICK s \in {"chosen", "quoted"} : stageOf(q)' = s
    BY <1>3, <1>i DEF TypeOK, MemHit, RedisHit, CallSucceeds, At, Go, stageOf
  <2>2. stageOf(q) = "asked" /\ atOf(q)' = held'[q].at
    BY <1>3, <2>1 DEF MemHit, RedisHit, CallSucceeds, At, stageOf, atOf
  <2>3. held'[q].at \in (now - (TTL + MaxSkew) + 1) .. now /\ held'[q].at >= 0
    <3>1. CASE MemHit(q) \/ RedisHit(q)
      <4>1. /\ held[q] \in Entry /\ on[q] \in Instances /\ Bounded(held[q])
            /\ Live(held[q], on[q]) /\ held' = held
        BY <3>1, <1>i DEF TypeOK, EntriesBounded, MemHit, RedisHit
      <4>2. 0 <= held[q].at /\ held[q].at <= now /\ now - held[q].at < TTL + MaxSkew
        BY <4>1, <1>i, LiveIsYoung
      <4> QED
        BY <4>1, <4>2, <1>i, TimesAssumption, ClockAssumption DEF TypeOK, Entry
    <3>2. CASE CallSucceeds(q)
      BY <3>2, <1>i, TimesAssumption, ClockAssumption DEF TypeOK, CallSucceeds
    <3> QED
      BY <1>3, <3>1, <3>2
  <2>4. \A r \in Requests \ {q} : stageOf(r)' = stageOf(r) /\ atOf(r)' = atOf(r)
    BY <1>3, <1>i, OthersKept DEF MemHit, RedisHit, CallSucceeds
  <2>5. UNCHANGED now
    BY <1>3 DEF MemHit, RedisHit, CallSucceeds
  <2>6. /\ [r \in Requests |-> stageOf(r)]' = [[r \in Requests |-> stageOf(r)] EXCEPT ![q] = s]
        /\ [r \in Requests |-> atOf(r)]'
             = [[r \in Requests |-> atOf(r)] EXCEPT ![q] = held'[q].at]
    BY <2>1, <2>2, <2>4, MapStep
  <2> QED
    BY <2>1, <2>2, <2>3, <2>5, <2>6 DEF Rates!Choose, Rates!Move, atOf
<1>4. ASSUME NEW q \in Requests, WarmMem(q) \/ SetRedis(q) PROVE Rates!Quote(q)
  <2>1. \A r \in Requests \ {q} : stageOf(r)' = stageOf(r) /\ atOf(r)' = atOf(r)
    BY <1>4, <1>i, OthersKept DEF WarmMem, SetRedis
  <2>2. stageOf(q) = "chosen" /\ stageOf(q)' = "quoted" /\ atOf(q)' = atOf(q)
    BY <1>4, <1>i DEF WarmMem, SetRedis, At, Go, TypeOK, stageOf, atOf
  <2>3. UNCHANGED now
    BY <1>4 DEF WarmMem, SetRedis
  <2> QED
    BY <2>1, <2>2, <2>3, MapStep DEF Rates!Quote, Rates!Move, atOf
<1>5. ASSUME NEW q \in Requests, SetMem(q) PROVE UNCHANGED Rates!vars
  <2>1. \A r \in Requests \ {q} : stageOf(r)' = stageOf(r) /\ atOf(r)' = atOf(r)
    BY <1>5, <1>i, OthersKept DEF SetMem
  <2>2. stageOf(q)' = stageOf(q) /\ atOf(q)' = atOf(q)
    BY <1>5, <1>i DEF SetMem, At, Go, TypeOK, stageOf, atOf
  <2> QED
    BY <1>5, <2>1, <2>2, MapStutter DEF SetMem
<1>6. ASSUME NEW q \in Requests, AnswerError(q) PROVE Rates!Fail(q)
  <2>1. \A r \in Requests \ {q} : stageOf(r)' = stageOf(r) /\ atOf(r)' = atOf(r)
    BY <1>6, <1>i, OthersKept DEF AnswerError
  <2>2. stageOf(q) = "asked" /\ stageOf(q)' = "failed" /\ atOf(q)' = -1 /\ atOf(q) = -1
    BY <1>6, <1>i DEF AnswerError, StatusOf, At, Go, TypeOK, stageOf, atOf
  <2>3. UNCHANGED now
    BY <1>6 DEF AnswerError
  <2> QED
    BY <2>1, <2>2, <2>3, MapStep DEF Rates!Fail, Rates!Move, atOf
<1>7. ASSUME NEW i \in Instances, Restart(i) PROVE Rates!Lose
  <2> DEFINE S == {q \in Requests : on[q] = i /\ pc[q] \in Serving}
  <2>1. \A q \in Requests : q \in S => stageOf(q) \in {"asked", "chosen"}
    BY <1>i DEF Serving, PCs, stageOf
  <2>2. \A q \in Requests : /\ stageOf(q)' = IF q \in S THEN "lost" ELSE stageOf(q)
                            /\ atOf(q)' = IF q \in S THEN -1 ELSE atOf(q)
    BY <1>7, <1>i DEF TypeOK, Restart, stageOf, atOf
  <2>3. S \in SUBSET {q \in Requests : [r \in Requests |-> stageOf(r)][q] \in {"asked", "chosen"}}
    BY <2>1
  <2>4. UNCHANGED now
    BY <1>7 DEF Restart
  <2> HIDE DEF S
  <2> QED
    BY <2>2, <2>3, <2>4 DEF Rates!Lose, atOf
<1>8. ASSUME Tick PROVE Rates!Pass
  <2>1. \A q \in Requests : stageOf(q)' = stageOf(q) /\ atOf(q)' = atOf(q)
    BY <1>8 DEF Tick, stageOf, atOf
  <2> QED
    BY <1>8, <2>1 DEF Tick, Rates!Pass, atOf
<1>9. ASSUME Evict \/ UNCHANGED vars PROVE UNCHANGED Rates!vars
  <2>1. \A q \in Requests : stageOf(q)' = stageOf(q) /\ atOf(q)' = atOf(q)
    BY <1>9 DEF Evict, vars, stageOf, atOf
  <2> QED
    BY <1>9, <2>1, MapStutter DEF Evict, vars
<1>10. "clientTimeout" \in Errors
  BY DEF Errors
<1> QED
  BY <1>1, <1>2, <1>3, <1>4, <1>5, <1>6, <1>7, <1>8, <1>9, <1>10
     DEF Next, Proceed, UpstreamAnswers, Rates!Next

\* The service keeps the promise of FreshRates: whatever the instances, their
\* memories and Redis do, a request sees one rate chosen while it was fresh, an
\* error, or nothing because its instance went away.
THEOREM ServiceQuotesFreshRates == Spec => QuotesFreshRates
<1>1. Init => Rates!Init
  <2> SUFFICES ASSUME Init PROVE Rates!Init
    OBVIOUS
  <2>1. \A q \in Requests : stageOf(q) = "free"
    BY DEF Init, stageOf
  <2> QED
    BY <2>1 DEF Init, Rates!Init
<1> QED
  BY <1>1, MapNext, FreshInvariant, PTL DEF Spec, QuotesFreshRates, Rates!Spec

(***************************************************************************)
(* Why the right quote is shown.  A build reads the parameters when it     *)
(* begins and is the newest from then on; whatever changes the parameters  *)
(* starts another one or happens where no page watches.  So only an answer *)
(* to the current parameters is taken, and until it comes nothing is shown *)
(* as a quote.  A sheet covers its page, so the amount it has captured is  *)
(* the current one when it closes.                                         *)
(***************************************************************************)
Sheets == [picks : {"source", "target", "method"}, amount : Typed \cup {0, Default.amount}, ref : BOOLEAN]
Asked == [build : Nat, params : Params, at : {"delay", "sent"}]
Retries == [count : 0 .. MaxRebuilds, due : BOOLEAN]

\* Types, and: the builds are counted, and a retry that is due is allowed.
CallsFit ==
  /\ builds \in Nat /\ calls \subseteq Asked
  /\ \A c \in calls : c.build \in 1 .. builds
  /\ retry \in Retries /\ (retry.due => retry.count < MaxRebuilds)

\* A sheet was opened on the page shown, for the amount there is.
SheetFits ==
  /\ sheet = <<>> \/ (DOMAIN sheet = {1} /\ sheet[1] \in Sheets)
  /\ sheet # <<>> => page \in Pages /\ sheet[1].amount = params.amount

TextFits == (text = <<>> \/ text[1] \in Nat) /\ FieldMeansAmount
ViewFits == view.is \in {"loading", "error", "data"} /\ ShownQuoteAnswersParams

\* While a page watches, the newest build asks for the current parameters.
NewestAsks == page \in Pages => \A c \in calls : c.build = builds => c.params = params

ScreenInv ==
  /\ page \in Pages \cup {"away"} /\ params \in Params
  /\ CallsFit /\ SheetFits /\ TextFits /\ ViewFits /\ NewestAsks

-----------------------------------------------------------------------------
LEMMA InvTypes == ScreenInv => ScreenTypeOK
<1>1. calls \subseteq Asked => \A c \in calls : c.params \in Params /\ c.at \in {"delay", "sent"}
  BY DEF Asked
<1>2. SheetFits => sheet = <<>> \/ sheet[1].picks \in {"source", "target", "method"}
  BY DEF SheetFits, Sheets
<1>3. retry \in Retries => retry.count \in 0 .. MaxRebuilds /\ retry.due \in BOOLEAN
  BY DEF Retries
<1> QED BY <1>1, <1>2, <1>3 DEF ScreenInv, ScreenTypeOK, CallsFit, TextFits, ViewFits

LEMMA DefaultParams == Default \in Params /\ Default.amount = 100000 /\ Default.amount \in Nat
BY DEF Default, Params, Methods, Announced

LEMMA AmountIsNat == ASSUME NEW p \in Params PROVE p.amount \in Nat
<1>1. p.amount \in Typed \cup {0, Default.amount}
  BY DEF Params
<1>2. p.amount \in Typed => p.amount \in Nat
  BY AmountsAssumption
<1> QED BY <1>1, <1>2, DefaultParams

\* The field rewritten with an amount holds that amount in whole units.
LEMMA WholeIsNat == ASSUME NEW a \in Nat PROVE Whole(a) # <<>> /\ Whole(a)[1] \in Nat
BY DEF Whole

LEMMA FieldFits ==
  ASSUME NEW q \in Pages, NEW a \in Nat
  PROVE  /\ FieldOf(q, a) = <<>> \/ FieldOf(q, a)[1] \in Nat
         /\ Parsed(FieldOf(q, a)) = a \/ FieldOf(q, a) = Whole(a)
BY WholeIsNat DEF FieldOf, Parsed

\* What a build leaves: its own request is the newest.
LEMMA BuildFits ==
  ASSUME CallsFit, NEW p \in Params, NEW v, NEW n \in 0 .. MaxRebuilds, Build(p, v, n)
  PROVE  CallsFit' /\ view' = v /\ \A c \in calls' : c.build = builds' => c.params = p
<1>1. /\ builds' = builds + 1
      /\ calls' = calls \cup {[build |-> builds + 1, params |-> p, at |-> "delay"]}
      /\ view' = v /\ retry' = [count |-> n, due |-> FALSE]
  BY DEF Build
<1>2. [build |-> builds + 1, params |-> p, at |-> "delay"] \in Asked /\ builds' \in Nat
  BY <1>1 DEF CallsFit, Asked
<1>3. calls' \subseteq Asked
  BY <1>1, <1>2 DEF CallsFit
<1>4. \A c \in calls : c.build \in 1 .. builds' /\ c.build # builds'
  BY <1>1 DEF CallsFit
<1>5. \A c \in calls' : c.build \in 1 .. builds' /\ (c.build = builds' => c.params = p)
  BY <1>1, <1>2, <1>4 DEF CallsFit
<1>6. retry' \in Retries /\ ~retry'.due
  BY <1>1 DEF Retries
<1> QED BY <1>1, <1>2, <1>3, <1>5, <1>6 DEF CallsFit

LEMMA PatchFits ==
  ASSUME CallsFit, NEW p \in Params, Patch(p)
  PROVE  /\ CallsFit' /\ params' = p /\ view' = Loading
         /\ \A c \in calls' : c.build = builds' => c.params = p
         /\ ViewFits' /\ NewestAsks'
<1>1. 0 \in 0 .. MaxRebuilds
  BY BoundsAssumption
<1>2. /\ CallsFit' /\ params' = p /\ view' = Loading
      /\ \A c \in calls' : c.build = builds' => c.params = p
  BY <1>1, BuildFits DEF Patch
<1>3. view'.is = "loading"
  BY <1>2 DEF Loading
<1> QED BY <1>2, <1>3 DEF ViewFits, ShownQuoteAnswersParams, NewestAsks

\* A request that leaves or ends is no newer one.
LEMMA FewerCalls ==
  ASSUME CallsFit, NewestAsks, calls' \subseteq calls, UNCHANGED <<builds, page, params>>,
         retry' \in Retries, retry'.due => retry'.count < MaxRebuilds
  PROVE  CallsFit' /\ NewestAsks'
BY DEF CallsFit, NewestAsks

\* The answer is what the page shows and its sheets announced.
LEMMA AnswerFits ==
  ASSUME NEW p \in Params
  PROVE  Handle(p) = [source |-> p.source, target |-> p.target,
                      amount |-> IF Cents(p.amount) > 0 THEN Cents(p.amount) ELSE 1000000,
                      fee |-> Announced[p.method]]
<1>1. Cents(p.amount) \in Nat
  BY AmountIsNat DEF Cents
<1>2. (Cents(p.amount) = 0) <=> ~(Cents(p.amount) > 0)
  BY <1>1
<1>3. p.method \in {"wire", "debitCard", "creditCard"}
  BY DEF Params, Methods, Announced
<1>4. FeeForMethod(p.method) = Announced[p.method]
  BY <1>3 DEF FeeForMethod, Announced
<1> QED BY <1>2, <1>4 DEF Handle

LEMMA WithoutDetailsFits ==
  ASSUME SheetFits, NEW v
  PROVE  \/ WithoutDetails(v) = sheet
         \/ /\ DOMAIN WithoutDetails(v) = {1} /\ WithoutDetails(v)[1] \in Sheets
            /\ sheet # <<>> /\ WithoutDetails(v)[1].amount = sheet[1].amount
<1>1. CASE ~(page = "addMoney" /\ v.is # "data")
  BY <1>1 DEF WithoutDetails
<1>2. CASE page = "addMoney" /\ v.is # "data"
  <2>1. CASE sheet = <<>>
    BY <1>2, <2>1 DEF WithoutDetails
  <2>2. CASE sheet # <<>>
    <3>1. DOMAIN sheet = {1} /\ sheet[1] \in Sheets
      BY <2>2 DEF SheetFits
    <3>2. WithoutDetails(v) = [i \in {1} |->
            IF sheet[i].picks = "method" THEN [sheet[i] EXCEPT !.ref = FALSE] ELSE sheet[i]]
      BY <1>2, <3>1 DEF WithoutDetails
    <3>3. /\ [sheet[1] EXCEPT !.ref = FALSE] \in Sheets
          /\ [sheet[1] EXCEPT !.ref = FALSE].amount = sheet[1].amount
      BY <3>1 DEF Sheets
    <3> QED BY <2>2, <3>1, <3>2, <3>3
  <2> QED BY <2>1, <2>2
<1> QED BY <1>1, <1>2

LEMMA ScreenInvInit == ScreenInit => ScreenInv
<1> SUFFICES ASSUME ScreenInit PROVE ScreenInv
  OBVIOUS
<1>1. CallsFit
  BY BoundsAssumption DEF ScreenInit, CallsFit, Retries
<1>2. params \in Params
  BY DefaultParams DEF ScreenInit
<1>3. ViewFits
  BY DEF ScreenInit, ViewFits, Loading, ShownQuoteAnswersParams
<1>4. page = "away" /\ page \notin Pages /\ sheet = <<>> /\ text = <<>>
  BY DEF ScreenInit, Pages
<1>5. SheetFits /\ TextFits /\ NewestAsks
  BY <1>4 DEF SheetFits, TextFits, FieldMeansAmount, NewestAsks
<1> QED BY <1>1, <1>2, <1>3, <1>4, <1>5 DEF ScreenInv

-----------------------------------------------------------------------------
(* What each step does with the parts *)

LEMMA SendFits ==
  ASSUME CallsFit, NewestAsks, NEW c, Send(c)
  PROVE  CallsFit' /\ NewestAsks'
<1>1. c \in Asked /\ calls' = (calls \ {c}) \cup {[c EXCEPT !.at = "sent"]}
      /\ UNCHANGED <<page, params, builds, retry>>
  BY DEF Send, CallsFit
<1>2. /\ [c EXCEPT !.at = "sent"] \in Asked
      /\ [c EXCEPT !.at = "sent"].build = c.build /\ [c EXCEPT !.at = "sent"].params = c.params
  BY <1>1 DEF Asked
<1>3. c \in calls
  BY DEF Send
<1> QED BY <1>1, <1>2, <1>3 DEF CallsFit, NewestAsks

LEMMA SameSheet ==
  ASSUME SheetFits, UNCHANGED <<sheet, page>>, sheet = <<>> \/ params'.amount = params.amount
  PROVE  SheetFits'
BY DEF SheetFits

LEMMA SameText ==
  ASSUME TextFits, UNCHANGED <<text, page>>, page \in Pages => params'.amount = params.amount
  PROVE  TextFits'
BY DEF TextFits, FieldMeansAmount, Parsed, Whole

LEMMA SameView ==
  ASSUME ViewFits, UNCHANGED <<view, params>>
  PROVE  ViewFits'
BY DEF ViewFits, ShownQuoteAnswersParams

LEMMA SameCalls ==
  ASSUME CallsFit, UNCHANGED <<builds, calls, retry>>
  PROVE  CallsFit'
BY DEF CallsFit

\* A field with what was typed into it.
LEMMA TypedFits ==
  ASSUME NEW t \in {<<>>} \cup {<<a>> : a \in Typed}
  PROVE  (t = <<>> \/ t[1] \in Nat) /\ Parsed(t) \in Typed \cup {0, Default.amount}
<1>1. CASE t = <<>>
  BY <1>1 DEF Parsed
<1>2. ASSUME NEW a \in Typed, t = <<a>> PROVE t # <<>> /\ t[1] = a /\ a \in Nat
  BY <1>2, AmountsAssumption
<1> QED BY <1>1, <1>2 DEF Parsed

LEMMA TypeFits ==
  ASSUME ScreenInv, NEW t \in {<<>>} \cup {<<a>> : a \in Typed}, Type(t)
  PROVE  ScreenInv'
<1> DEFINE p == [params EXCEPT !.amount = Parsed(t)]
<1>1. Patch(p) /\ text' = t /\ UNCHANGED <<page, sheet>> /\ sheet = <<>> /\ page \in Pages
  BY DEF Type, TypeAmount, OnPage
<1>2. p \in Params /\ p.amount = Parsed(t)
  <2>1. params \in Params
    BY DEF ScreenInv
  <2> QED BY <2>1, TypedFits DEF Params
<1>3. CallsFit' /\ params' = p /\ ViewFits' /\ NewestAsks'
  BY <1>1, <1>2, PatchFits DEF ScreenInv
<1>4. SheetFits'
  BY <1>1, SameSheet DEF ScreenInv
<1>5. TextFits'
  BY <1>1, <1>2, <1>3, TypedFits DEF TextFits, FieldMeansAmount, Parsed
<1>6. page' \in Pages \cup {"away"} /\ params' \in Params
  BY <1>1, <1>2, <1>3
<1> QED BY <1>3, <1>4, <1>5, <1>6 DEF ScreenInv

LEMMA OpenFits ==
  ASSUME ScreenInv, NEW what \in {"source", "target", "method"}, Open(what)
  PROVE  ScreenInv'
<1>0. /\ sheet' = <<[picks |-> what, amount |-> params.amount, ref |-> TRUE]>>
      /\ page \in Pages /\ UNCHANGED <<page, text, params, builds, calls, view, retry>>
  BY DEF Open, OnPage, provider
<1>1. page \in Pages \cup {"away"} /\ params \in Params /\ CallsFit /\ TextFits /\ ViewFits /\ NewestAsks
  BY DEF ScreenInv
<1>2. SheetFits'
  <2>1. [picks |-> what, amount |-> params.amount, ref |-> TRUE] \in Sheets
    BY <1>1 DEF Sheets, Params
  <2>2. DOMAIN sheet' = {1} /\ sheet'[1] = [picks |-> what, amount |-> params.amount, ref |-> TRUE]
    BY <1>0
  <2> QED BY <1>0, <2>1, <2>2 DEF SheetFits
<1>3. CallsFit' /\ TextFits' /\ ViewFits' /\ NewestAsks'
  BY <1>0, <1>1, SameCalls, SameText, SameView DEF NewestAsks
<1> QED BY <1>0, <1>1, <1>2, <1>3 DEF ScreenInv

\* A choice of another currency or method keeps the amount.
LEMMA PatchedFits ==
  ASSUME ScreenInv, NEW p \in Params, p.amount = params.amount, Patch(p),
         page \in Pages, page' = page, sheet' = <<>>,
         text' = text \/ text' = Whole(params.amount)
  PROVE  ScreenInv'
<1>1. CallsFit' /\ params' = p /\ ViewFits' /\ NewestAsks'
  BY PatchFits DEF ScreenInv
<1>2. SheetFits'
  BY DEF SheetFits
<1>3. params.amount \in Nat
  BY AmountIsNat DEF ScreenInv
<1>4. TextFits'
  <2>1. CASE text' = text
    BY <1>1, <2>1, SameText DEF ScreenInv
  <2>2. CASE text' = Whole(params.amount)
    BY <1>1, <1>3, <2>2, WholeIsNat DEF TextFits, FieldMeansAmount
  <2> QED BY <2>1, <2>2
<1> QED BY <1>1, <1>2, <1>4 DEF ScreenInv

LEMMA ChooseFits == ASSUME ScreenInv, Choose PROVE ScreenInv'
<1>1. sheet # <<>> /\ sheet' = <<>> /\ page' = page
  BY DEF Choose
<1>2. page \in Pages /\ sheet[1].amount = params.amount /\ params \in Params
  BY <1>1 DEF ScreenInv, SheetFits
<1>3. ASSUME NEW c \in Currencies, PickSource(c) PROVE ScreenInv'
  <2> DEFINE p == [params EXCEPT !.source = c]
  <2>1. p \in Params /\ p.amount = params.amount
    BY <1>2 DEF Params
  <2>2. Patch(p) /\ (text' = text \/ text' = Whole(params.amount))
    BY <1>2, <1>3 DEF PickSource
  <2> QED BY <1>1, <1>2, <2>1, <2>2, PatchedFits
<1>4. ASSUME NEW c \in Currencies, PickTarget(c) PROVE ScreenInv'
  <2> DEFINE p == [params EXCEPT !.target = c]
  <2>1. p \in Params /\ p.amount = params.amount
    BY <1>2 DEF Params
  <2>2. Patch(p) /\ text' = text
    BY <1>4 DEF PickTarget
  <2> QED BY <1>1, <1>2, <2>1, <2>2, PatchedFits
<1>5. ASSUME NEW m \in Methods, PickMethod(m) PROVE ScreenInv'
  <2> DEFINE p == [params EXCEPT !.method = m]
  <2>1. p \in Params /\ p.amount = params.amount
    BY <1>2 DEF Params
  <2>2. text' = text /\ (Patch(p) \/ UNCHANGED provider)
    BY <1>5 DEF PickMethod
  <2>3. CASE Patch(p)
    BY <1>1, <1>2, <2>1, <2>2, <2>3, PatchedFits
  <2>4. CASE UNCHANGED provider
    <3>1. UNCHANGED <<page, text, params, builds, calls, view, retry>>
      BY <1>1, <2>2, <2>4 DEF provider
    <3>2. CallsFit' /\ TextFits' /\ ViewFits' /\ NewestAsks'
      BY <3>1, SameCalls, SameText, SameView DEF ScreenInv, NewestAsks
    <3>3. SheetFits'
      BY <1>1 DEF SheetFits
    <3> QED BY <1>2, <3>1, <3>2, <3>3 DEF ScreenInv
  <2> QED BY <2>2, <2>3, <2>4
<1> QED BY <1>3, <1>4, <1>5 DEF Choose

LEMMA DismissFits == ASSUME ScreenInv, Dismiss PROVE ScreenInv'
<1>1. sheet' = <<>> /\ UNCHANGED <<page, text, params, builds, calls, view, retry>>
  BY DEF Dismiss, provider
<1>2. CallsFit' /\ TextFits' /\ ViewFits' /\ NewestAsks'
  BY <1>1, SameCalls, SameText, SameView DEF ScreenInv, NewestAsks
<1>3. SheetFits'
  BY <1>1 DEF SheetFits
<1> QED BY <1>1, <1>2, <1>3 DEF ScreenInv

\* Refresh and Retry: the same parameters once more, the same view meanwhile.
LEMMA AgainFits ==
  ASSUME ScreenInv, NEW n \in 0 .. MaxRebuilds, Build(params, view, n),
         UNCHANGED <<page, text, sheet, params>>
  PROVE  ScreenInv'
<1>1. CallsFit' /\ view' = view /\ \A c \in calls' : c.build = builds' => c.params = params
  BY BuildFits DEF ScreenInv
<1>2. SheetFits' /\ TextFits' /\ ViewFits'
  BY <1>1, SameSheet, SameText, SameView DEF ScreenInv
<1>3. NewestAsks'
  BY <1>1 DEF NewestAsks
<1> QED BY <1>1, <1>2, <1>3 DEF ScreenInv

LEMMA MoveFits ==
  ASSUME ScreenInv, NEW q \in Pages, Move(q)
  PROVE  ScreenInv'
<1>1. /\ page' = q /\ page \in Pages /\ sheet = <<>> /\ text' = FieldOf(q, params.amount)
      /\ UNCHANGED <<sheet, params, builds, calls, view, retry>>
  BY DEF Move, OnPage, provider
<1>2. params.amount \in Nat
  BY AmountIsNat DEF ScreenInv
<1>3. TextFits'
  BY <1>1, <1>2, FieldFits DEF TextFits, FieldMeansAmount
<1>4. CallsFit' /\ ViewFits' /\ NewestAsks'
  BY <1>1, SameCalls, SameView DEF ScreenInv, NewestAsks
<1>5. SheetFits'
  BY <1>1 DEF SheetFits
<1> QED BY <1>1, <1>3, <1>4, <1>5 DEF ScreenInv

LEMMA LeaveFits == ASSUME ScreenInv, Leave PROVE ScreenInv'
<1>1. /\ page' = "away" /\ text' = <<>> /\ params' = Default /\ view' = Loading
      /\ retry' = [count |-> 0, due |-> FALSE] /\ sheet = <<>> /\ UNCHANGED <<sheet, builds, calls>>
  BY DEF Leave, OnPage
<1>2. page' \notin Pages /\ view'.is = "loading"
  BY <1>1 DEF Pages, Loading
<1>3. retry' \in Retries /\ ~retry'.due
  BY <1>1, BoundsAssumption DEF Retries
<1>4. CallsFit'
  BY <1>1, <1>3 DEF ScreenInv, CallsFit
<1>5. SheetFits'
  BY <1>1 DEF SheetFits
<1>6. TextFits'
  BY <1>1, <1>2 DEF TextFits, FieldMeansAmount
<1>7. ViewFits'
  BY <1>2 DEF ViewFits, ShownQuoteAnswersParams
<1>8. NewestAsks'
  BY <1>2 DEF NewestAsks
<1> QED BY <1>1, <1>4, <1>5, <1>6, <1>7, <1>8, DefaultParams DEF ScreenInv

LEMMA EnterFits ==
  ASSUME ScreenInv, NEW q \in Pages, Enter(q)
  PROVE  ScreenInv'
<1>1. /\ page = "away" /\ page' = q /\ text' = FieldOf(q, Default.amount) /\ Patch(Default)
      /\ sheet' = sheet
  BY DEF Enter
<1>2. sheet = <<>>
  BY <1>1 DEF ScreenInv, SheetFits, Pages
<1>3. CallsFit' /\ params' = Default /\ ViewFits' /\ NewestAsks'
  BY <1>1, PatchFits, DefaultParams DEF ScreenInv
<1>4. TextFits'
  BY <1>1, <1>3, DefaultParams, FieldFits DEF TextFits, FieldMeansAmount
<1>5. SheetFits'
  BY <1>1, <1>2 DEF SheetFits
<1> QED BY <1>1, <1>3, <1>4, <1>5, DefaultParams DEF ScreenInv

LEMMA AnsweredFits ==
  ASSUME ScreenInv, NEW c, Answered(c)
  PROVE  ScreenInv'
<1>0. /\ page \in Pages \cup {"away"} /\ params \in Params
      /\ CallsFit /\ SheetFits /\ TextFits /\ ViewFits /\ NewestAsks
  BY DEF ScreenInv
<1>1. c \in calls /\ calls' = calls \ {c} /\ UNCHANGED <<page, text, sheet, params, builds>>
  BY DEF Answered
<1>2. SheetFits' /\ TextFits'
  BY <1>0, <1>1, SameSheet, SameText
<1>3. CASE IsCurrent(c)
  <2>1. view' = Data(Handle(c.params)) /\ retry' = [count |-> 0, due |-> FALSE]
    BY <1>3 DEF Answered
  <2>2. c.params = params
    BY <1>0, <1>1, <1>3 DEF NewestAsks, IsCurrent
  <2>3. ViewFits'
    BY <1>0, <1>1, <2>1, <2>2, AnswerFits DEF ViewFits, ShownQuoteAnswersParams, Data, Cents
  <2>4. retry' \in Retries /\ ~retry'.due
    BY <2>1, BoundsAssumption DEF Retries
  <2>5. CallsFit' /\ NewestAsks'
    BY <1>0, <1>1, <2>4, FewerCalls
  <2> QED BY <1>0, <1>1, <1>2, <2>3, <2>5 DEF ScreenInv
<1>4. CASE ~IsCurrent(c)
  <2>1. UNCHANGED <<view, retry>>
    BY <1>4 DEF Answered
  <2>2. CallsFit' /\ NewestAsks'
    BY <1>0, <1>1, <2>1, FewerCalls DEF CallsFit
  <2>3. ViewFits'
    BY <1>0, <1>1, <2>1, SameView
  <2> QED BY <1>0, <1>1, <1>2, <2>2, <2>3 DEF ScreenInv
<1> QED BY <1>3, <1>4

LEMMA FailFits ==
  ASSUME ScreenInv, NEW c, Fail(c)
  PROVE  ScreenInv'
<1>0. /\ page \in Pages \cup {"away"} /\ params \in Params
      /\ CallsFit /\ SheetFits /\ TextFits /\ ViewFits /\ NewestAsks
  BY DEF ScreenInv
<1>1. c \in calls /\ calls' = calls \ {c} /\ SettleFailed(c) /\ UNCHANGED <<page, text, params, builds>>
  BY DEF Fail
<1>2. TextFits'
  BY <1>0, <1>1, SameText
<1>3. CASE IsCurrent(c)
  <2>1. /\ retry' = [retry EXCEPT !.due = retry.count < MaxRebuilds]
        /\ view' \in {Failed, Loading} /\ sheet' = WithoutDetails(view')
    BY <1>1, <1>3 DEF SettleFailed
  <2>2. retry' \in Retries /\ (retry'.due => retry'.count < MaxRebuilds)
    <3>1. retry \in Retries /\ retry.count \in 0 .. MaxRebuilds
      BY <1>0 DEF CallsFit, Retries
    <3>2. CASE retry.count < MaxRebuilds
      <4>1. retry' = [retry EXCEPT !.due = TRUE]
        BY <2>1, <3>2
      <4> QED BY <3>1, <3>2, <4>1 DEF Retries
    <3>3. CASE ~(retry.count < MaxRebuilds)
      <4>1. retry' = [retry EXCEPT !.due = FALSE]
        <5>1. (retry.count < MaxRebuilds) = FALSE
          BY <3>3
        <5> QED BY <2>1, <5>1, Zenon
      <4> QED BY <3>1, <4>1 DEF Retries
    <3> QED BY <3>2, <3>3
  <2>3. CallsFit' /\ NewestAsks'
    BY <1>0, <1>1, <2>2, FewerCalls
  <2>4. ViewFits'
    BY <2>1 DEF ViewFits, ShownQuoteAnswersParams, Failed, Loading
  <2>5. SheetFits'
    <3>1. \/ sheet' = sheet
          \/ /\ DOMAIN sheet' = {1} /\ sheet'[1] \in Sheets
             /\ sheet # <<>> /\ sheet'[1].amount = sheet[1].amount
      BY <1>0, <2>1, WithoutDetailsFits
    <3> QED BY <1>0, <1>1, <3>1 DEF SheetFits
  <2> QED BY <1>0, <1>1, <1>2, <2>3, <2>4, <2>5 DEF ScreenInv
<1>4. CASE ~IsCurrent(c)
  <2>1. UNCHANGED <<view, retry, sheet>>
    BY <1>1, <1>4 DEF SettleFailed
  <2>2. CallsFit' /\ NewestAsks'
    BY <1>0, <1>1, <2>1, FewerCalls DEF CallsFit
  <2>3. ViewFits' /\ SheetFits'
    BY <1>0, <1>1, <2>1, SameView, SameSheet
  <2> QED BY <1>0, <1>1, <1>2, <2>2, <2>3 DEF ScreenInv
<1> QED BY <1>3, <1>4

LEMMA ScreenInvStep == ScreenInv /\ [ScreenNext]_screenVars => ScreenInv'
<1> SUFFICES ASSUME ScreenInv, [ScreenNext]_screenVars PROVE ScreenInv'
  OBVIOUS
<1>1. ASSUME NEW c \in calls, Send(c) PROVE ScreenInv'
  <2>1. UNCHANGED <<page, text, sheet, params, view>>
    BY <1>1 DEF Send
  <2>2. CallsFit' /\ NewestAsks'
    BY <1>1, SendFits DEF ScreenInv
  <2>3. SheetFits' /\ TextFits' /\ ViewFits'
    BY <2>1, SameSheet, SameText, SameView DEF ScreenInv
  <2> QED BY <2>1, <2>2, <2>3 DEF ScreenInv
<1>2. ASSUME NEW c \in calls, Answered(c) \/ Fail(c) PROVE ScreenInv'
  BY <1>2, AnsweredFits, FailFits
<1>3. CASE Retry
  <2>1. retry.count + 1 \in 0 .. MaxRebuilds
    BY <1>3, BoundsAssumption DEF ScreenInv, Retry, CallsFit, Retries
  <2> QED BY <1>3, <2>1, AgainFits DEF Retry
<1>4. CASE Refresh
  <2>1. 0 \in 0 .. MaxRebuilds
    BY BoundsAssumption
  <2> QED BY <1>4, <2>1, AgainFits DEF Refresh
<1>5. ASSUME NEW t \in {<<>>} \cup {<<a>> : a \in Typed}, Type(t) PROVE ScreenInv'
  BY <1>5, TypeFits
<1>6. ASSUME NEW what \in {"source", "target", "method"}, Open(what) PROVE ScreenInv'
  BY <1>6, OpenFits
<1>7. ASSUME NEW q \in Pages, Move(q) \/ Enter(q) PROVE ScreenInv'
  BY <1>7, MoveFits, EnterFits
<1>8. CASE Choose \/ Dismiss \/ Leave
  BY <1>8, ChooseFits, DismissFits, LeaveFits
<1>9. CASE UNCHANGED screenVars
  <2>1. UNCHANGED <<page, text, sheet, params, builds, calls, view, retry>>
    BY <1>9 DEF screenVars, provider
  <2>2. CallsFit' /\ SheetFits' /\ TextFits' /\ ViewFits' /\ NewestAsks'
    BY <2>1, SameCalls, SameSheet, SameText, SameView DEF ScreenInv, NewestAsks
  <2> QED BY <2>1, <2>2 DEF ScreenInv
<1> QED BY <1>1, <1>2, <1>3, <1>4, <1>5, <1>6, <1>7, <1>8, <1>9 DEF ScreenNext, User

\* Only the newest build's own end changes what is shown to a quote or an error.
LEMMA SettledByNewest ==
  ASSUME ScreenInv, ScreenNext, view' # view, view'.is # "loading"
  PROVE  \E c \in calls : c.build = builds /\ c.at = "sent" /\ c \notin calls'
<1>1. ASSUME NEW p, NEW n, Build(p, Loading, n) PROVE view'.is = "loading"
  BY <1>1 DEF Build, Loading
<1>2. ASSUME NEW t, Type(t) PROVE FALSE
  BY <1>1, <1>2 DEF Type, TypeAmount, Patch
<1>3. ASSUME NEW what, Open(what) PROVE FALSE
  BY <1>3 DEF Open, provider
<1>4. CASE Choose
  <2>1. \/ \E p : Patch(p)
        \/ UNCHANGED provider
    BY <1>4 DEF Choose, PickSource, PickTarget, PickMethod
  <2> QED BY <1>1, <2>1 DEF Patch, provider
<1>5. CASE Dismiss \/ Refresh \/ Retry
  BY <1>5 DEF Dismiss, Refresh, Retry, Build, provider
<1>6. CASE Leave
  BY <1>6 DEF Leave, Loading
<1>7. ASSUME NEW q, Move(q) \/ Enter(q) PROVE FALSE
  BY <1>1, <1>7 DEF Move, Enter, Patch, provider
<1>8. ASSUME NEW c \in calls, Send(c) PROVE FALSE
  BY <1>8 DEF Send
<1>9. ASSUME NEW c \in calls, Answered(c) \/ Fail(c)
      PROVE  c.build = builds /\ c.at = "sent" /\ c \notin calls'
  BY <1>9 DEF Answered, Fail, SettleFailed, IsCurrent
<1> QED BY <1>2, <1>3, <1>4, <1>5, <1>6, <1>7, <1>8, <1>9 DEF ScreenNext, User

\* QuoteScreen: the variables of the three pages and the two providers keep their types.
THEOREM ScreenTypeCorrect == ScreenSpec => []ScreenTypeOK
BY InvTypes, ScreenInvInit, ScreenInvStep, PTL DEF ScreenSpec

\* QuoteScreen: a quote on a page is the answer for the pair, amount and method on
\* that page, with the fee the sheet announced, whatever was edited and answered.
THEOREM ShownQuoteIsRight == ScreenSpec => []ShownQuoteAnswersParams
<1>1. ScreenInv => ShownQuoteAnswersParams
  BY DEF ScreenInv, ViewFits
<1> QED BY <1>1, ScreenInvInit, ScreenInvStep, PTL DEF ScreenSpec

\* QuoteScreen: the amount field shows the amount the quote is asked for, exactly or
\* in whole units, on whichever page and after whichever sheet.
THEOREM FieldIsRight == ScreenSpec => []FieldMeansAmount
<1>1. ScreenInv => FieldMeansAmount
  BY DEF ScreenInv, TextFits
<1> QED BY <1>1, ScreenInvInit, ScreenInvStep, PTL DEF ScreenSpec

\* QuoteScreen: no late answer and no late error settles what is shown.
THEOREM NewestSettles == ScreenSpec => OnlyNewestSettles
<1>1. ScreenInv /\ [ScreenNext]_screenVars =>
        [view' # view /\ view'.is # "loading" =>
           \E c \in calls : c.build = builds /\ c.at = "sent" /\ c \notin calls']_screenVars
  BY SettledByNewest
<1> QED BY <1>1, ScreenInvInit, ScreenInvStep, PTL DEF ScreenSpec, OnlyNewestSettles

-----------------------------------------------------------------------------
\* A page that shows its quote as loading has the newest build under way, or a retry
\* that is due.
LoadingGoesOn ==
  page \in Pages /\ view.is = "loading" => retry.due \/ \E c \in calls : c.build = builds

LEMMA LoadingStep == ScreenInv /\ LoadingGoesOn /\ [ScreenNext]_screenVars => LoadingGoesOn'
<1> SUFFICES ASSUME ScreenInv, LoadingGoesOn, [ScreenNext]_screenVars PROVE LoadingGoesOn'
  OBVIOUS
<1>1. ASSUME NEW p, NEW v, NEW n, Build(p, v, n) PROVE LoadingGoesOn'
  <2> DEFINE c == [build |-> builds + 1, params |-> p, at |-> "delay"]
  <2>1. c \in calls' /\ c.build = builds'
    BY <1>1 DEF Build
  <2> QED BY <2>1 DEF LoadingGoesOn
<1>2. ASSUME page' \in Pages => page \in Pages, UNCHANGED provider PROVE LoadingGoesOn'
  BY <1>2 DEF provider, LoadingGoesOn
<1>3. ASSUME NEW c \in calls, Send(c) PROVE LoadingGoesOn'
  <2>1. c \in Asked
    BY DEF ScreenInv, CallsFit
  <2>2. [c EXCEPT !.at = "sent"].build = c.build
    BY <2>1 DEF Asked
  <2> QED BY <1>3, <2>2 DEF Send, LoadingGoesOn
<1>4. ASSUME NEW c \in calls, Answered(c) PROVE LoadingGoesOn'
  BY <1>4 DEF Answered, IsCurrent, Data, LoadingGoesOn
<1>5. ASSUME NEW c \in calls, Fail(c) PROVE LoadingGoesOn'
  <2>1. CASE IsCurrent(c)
    BY <1>5, <2>1 DEF Fail, SettleFailed, Failed, LoadingGoesOn
  <2>2. CASE ~IsCurrent(c)
    BY <1>5, <2>2 DEF Fail, SettleFailed, IsCurrent, LoadingGoesOn
  <2> QED BY <2>1, <2>2
<1>6. CASE Retry \/ Refresh
  BY <1>1, <1>6 DEF Retry, Refresh
<1>7. ASSUME NEW t, Type(t) PROVE LoadingGoesOn'
  BY <1>1, <1>7 DEF Type, TypeAmount, Patch
<1>8. ASSUME NEW what, Open(what) PROVE LoadingGoesOn'
  BY <1>2, <1>8 DEF Open
<1>9. CASE Choose
  <2>1. \/ \E p : Patch(p)
        \/ UNCHANGED provider
    BY <1>9 DEF Choose, PickSource, PickTarget, PickMethod
  <2>2. page' = page
    BY <1>9 DEF Choose
  <2> QED BY <1>1, <1>2, <2>1, <2>2 DEF Patch
<1>10. CASE Dismiss
  BY <1>2, <1>10 DEF Dismiss
<1>11. CASE Leave
  BY <1>11 DEF Leave, LoadingGoesOn, Pages
<1>12. ASSUME NEW q \in Pages, Move(q) PROVE LoadingGoesOn'
  BY <1>2, <1>12 DEF Move, OnPage
<1>13. ASSUME NEW q \in Pages, Enter(q) PROVE LoadingGoesOn'
  BY <1>1, <1>13 DEF Enter, Patch
<1>14. CASE UNCHANGED screenVars
  BY <1>14 DEF screenVars, provider, LoadingGoesOn
<1> QED BY <1>3, <1>4, <1>5, <1>6, <1>7, <1>8, <1>9, <1>10, <1>11, <1>12, <1>13, <1>14
        DEF ScreenNext, User

\* QuoteScreen: no page is left loading with nothing under way, whatever answers of
\* superseded builds are dropped and pages left and entered meanwhile.
THEOREM LoadingIsNotStuck == ScreenSpec => []LoadingGoesOn
<1>1. ScreenInit => LoadingGoesOn
  BY DEF ScreenInit, LoadingGoesOn, Pages
<1> QED BY <1>1, ScreenInvInit, ScreenInvStep, LoadingStep, PTL DEF ScreenSpec
=============================================================================
