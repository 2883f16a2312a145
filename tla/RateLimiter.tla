---------------------------- MODULE RateLimiter ----------------------------
(***************************************************************************)
(* The rate limiter in front of GET /api/quotes (voltpay_go/internal/      *)
(* middleware/ratelimit.go) and the switch in http.go that mounts it: a    *)
(* counter per caller in Redis, shared by all instances of the service.    *)
(* The instants of `history' are those at which Redis counted a request.   *)
(***************************************************************************)
EXTENDS Integers, Sequences, FiniteSets

CONSTANTS
  Instances,   \* running copies of the service
  Callers,     \* callers: records of the headers keyFor reads
  NoHeader,    \* the value of a header that was not sent
  Limit,       \* allowed requests per window
  Burst,       \* short burst allowance
  Window,      \* the counter's lifetime
  Horizon,     \* bound: the last instant
  MaxRequests  \* bound: counted requests and evictions

ASSUME LimiterAssumption ==
  /\ Limit \in Nat /\ Burst \in Nat /\ Window \in Nat \ {0}
  /\ Horizon \in Nat /\ MaxRequests \in Nat

VARIABLES
  now,       \* Redis' clock
  limiting,  \* limiting[i]: instance i reached Redis at boot and mounted the limiter
  count,     \* count[k]: the counter under key k
  dead,      \* dead[k]: when that key dies; dead already means absent
  answer,    \* what the last request was told
  history    \* what happened to the counters, oldest first

vars == <<now, limiting, count, dead, answer, history>>

-----------------------------------------------------------------------------
\* keyFor: the uid header, else the first forwarded address, else the peer's up to
\* its first colon.
keyFor(c) ==
  IF c.uid # NoHeader THEN <<"uid", c.uid>>
  ELSE IF c.forwarded # NoHeader THEN <<"ip", c.forwarded>>
  ELSE <<"ip", c.remote>>
Keys == {keyFor(c) : c \in Callers}

Init ==
  /\ now = 0
  /\ limiting \in [Instances -> BOOLEAN]
  /\ count = [k \in Keys |-> 0]
  /\ dead = [k \in Keys |-> 0]
  /\ answer = "none"
  /\ history = <<>>

\* An instance starts: it mounts the limiter if Redis answers its one ping.
Boot(i) ==
  /\ \E pong \in BOOLEAN : limiting' = [limiting EXCEPT ![i] = pong]
  /\ UNCHANGED <<now, count, dead, answer, history>>

\* MULTI INCR, EXPIRE EXEC: a missing key counts from zero, and every request,
\* a denied one too, gives the key a whole new window.
CountKeepTTL(k) ==  \* mutant: "set TTL if new", as the comment has it
  /\ count' = [count EXCEPT ![k] = IF now < dead[k] THEN @ + 1 ELSE 1]
  /\ dead' = [dead EXCEPT ![k] = IF now < @ THEN @ ELSE now + Window]
CountForEver(k) ==  \* mutant: the counter outlives its key
  /\ count' = [count EXCEPT ![k] = @ + 1]
  /\ dead' = [dead EXCEPT ![k] = now + Window]
CountInMillis(k) ==  \* mutant: the window in the wrong unit
  /\ count' = [count EXCEPT ![k] = IF now < dead[k] THEN @ + 1 ELSE 1]
  /\ dead' = [dead EXCEPT ![k] = now + 1000 * Window]
Count(k) ==
  /\ count' = [count EXCEPT ![k] = IF now < dead[k] THEN @ + 1 ELSE 1]
  /\ dead' = [dead EXCEPT ![k] = now + Window]

Log(k, what) ==
  /\ Len(history) < MaxRequests
  /\ history' = Append(history, [key |-> k, at |-> now, what |-> what])

Allow(i, c) ==
  /\ limiting[i] /\ Count(keyFor(c))
  /\ count'[keyFor(c)] <= Limit + Burst
  /\ Log(keyFor(c), "allowed") /\ answer' = "next"
  /\ UNCHANGED <<now, limiting>>

Deny(i, c) ==
  /\ limiting[i] /\ Count(keyFor(c))
  /\ count'[keyFor(c)] > Limit + Burst
  /\ Log(keyFor(c), "denied") /\ answer' = "429"
  /\ UNCHANGED <<now, limiting>>

\* Exec failed after Redis had run it: counted, but n reads as 0.
AllowUnseen(i, c) ==
  /\ limiting[i] /\ Count(keyFor(c))
  /\ Log(keyFor(c), "unseen") /\ answer' = "next"
  /\ UNCHANGED <<now, limiting>>

\* Exec failed before Redis ran it, there is no limiter at all, or the path is
\* none that the limiter looks at: not counted.
AllowUncounted(i, c) ==
  /\ answer' = "next"
  /\ UNCHANGED <<now, limiting, count, dead, history>>

\* Redis drops a key before its time.
Evict(k) ==
  /\ now < dead[k]
  /\ dead' = [dead EXCEPT ![k] = now]
  /\ Log(k, "evicted")
  /\ UNCHANGED <<now, limiting, count, answer>>

Tick ==
  /\ now < Horizon
  /\ now' = now + 1
  /\ UNCHANGED <<limiting, count, dead, answer, history>>

Next ==
  \/ \E i \in Instances : Boot(i)
  \/ \E i \in Instances, c \in Callers :
       Allow(i, c) \/ Deny(i, c) \/ AllowUnseen(i, c) \/ AllowUncounted(i, c)
  \/ \E k \in Keys : Evict(k)
  \/ Tick

Spec == Init /\ [][Next]_vars

-----------------------------------------------------------------------------
Outcomes == {"allowed", "denied", "unseen", "evicted"}

TypeOK ==
  /\ now \in 0 .. Horizon
  /\ limiting \in [Instances -> BOOLEAN]
  /\ count \in [Keys -> Nat]
  /\ dead \in [Keys -> 0 .. Horizon + Window]
  /\ answer \in {"none", "next", "429"}
  /\ history \in Seq([key : Keys, at : 0 .. Horizon, what : Outcomes])

\* The entries of key k between two positions of the history, both included.
Between(k, i, j, what) ==
  {m \in i .. j : history[m].key = k /\ history[m].what \in what}

\* However requests fall around the end of a counter's life, no stretch of time
\* shorter than Window sees more than Limit + Burst of a key's requests let
\* through by the counter, as long as Redis keeps the key.
AllowedPerWindow ==
  \A k \in Keys : \A i, j \in 1 .. Len(history) :
    /\ i <= j /\ history[j].at - history[i].at < Window
    /\ Between(k, i, j, {"evicted"}) = {}
    => Cardinality(Between(k, i, j, {"allowed"})) <= Limit + Burst

\* A request is denied only after an unbroken chain of Limit + Burst earlier
\* ones under the same key, each less than Window before the next: another
\* caller's requests, or one's own from before a quiet window, never count.
DeniedOnlyWhenBusy ==
  \A j \in 1 .. Len(history) : history[j].what = "denied" =>
    \E i \in 1 .. j :
      LET chain == Between(history[j].key, i, j, {"allowed", "denied", "unseen"}) IN
      /\ Cardinality(chain) > Limit + Burst
      /\ \A m \in chain \ {j} :
           \E n \in chain : n > m /\ history[n].at - history[m].at < Window
=============================================================================
