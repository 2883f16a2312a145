---------------------------- MODULE GoogleJWKS ----------------------------
(***************************************************************************)
(* The cache of Google's signing keys behind POST /risc/receiver           *)
(* (voltpay_go/internal/risc/receiver.go): Keyfunc, called by the handlers *)
(* of concurrent requests on one unsynchronised struct, while Google       *)
(* publishes and withdraws keys.                                           *)
(*                                                                         *)
(* The accesses of Cache and Last are steps of their own.  A map is small, *)
(* so a lookup during an insertion either works or stops the process; the  *)
(* words of Last read half old and half new give one of the two times.     *)
(***************************************************************************)
EXTENDS Integers

CONSTANTS
  Threads,       \* handlers of concurrent requests
  Kids,          \* key ids
  RefreshAfter,  \* age at which the cache is refetched
  FetchTimeout,  \* Timeout of the http.Client
  Horizon        \* bound: the last instant

ASSUME JwksAssumption ==
  /\ RefreshAfter \in Nat /\ FetchTimeout \in Nat \ {0} /\ Horizon \in Nat
  /\ "nil" \notin Kids

VARIABLES
  now,        \* the time
  published,  \* the keys on Google's page; one that does not decode is skipped
              \* and counts as not on it
  since,      \* since[k]: when k was last published or withdrawn
  cache,      \* Cache: a set of keys, or Nil
  last,       \* Last
  blank,      \* when a page without keys last arrived
  pc,         \* pc[t]: the next step of thread t
  kid,        \* kid[t]: the key t is asked for
  begun,      \* begun[t]: when t's fetch began
  todo,       \* todo[t]: the keys t has fetched and not yet put in the cache
  answer      \* answer[t]: what Keyfunc returned

vars == <<now, published, since, cache, last, blank, pc, kid, begun, todo, answer>>
keys == <<published, since>>

-----------------------------------------------------------------------------
Nil == {"nil"}  \* the map that is not there
Never == -RefreshAfter - 1  \* the zero time

Init ==
  /\ now = 0
  /\ published \in (SUBSET Kids) \ {{}}
  /\ since = [k \in Kids |-> Never - FetchTimeout]
  /\ cache = Nil
  /\ last = Never
  /\ blank = Never - FetchTimeout
  /\ pc = [t \in Threads |-> "idle"]
  /\ kid \in [Threads -> Kids]
  /\ begun = [t \in Threads |-> 0]
  /\ todo = [t \in Threads |-> {}]
  /\ answer = [t \in Threads |-> "none"]

At(t, here) == pc[t] = here
Go(t, there) == pc' = [pc EXCEPT ![t] = there]

\* A request brings a token signed with key k.
Call(t, k) ==
  /\ At(t, "idle")
  /\ Go(t, "test")
  /\ kid' = [kid EXCEPT ![t] = k]
  /\ answer' = [answer EXCEPT ![t] = "none"]
  /\ UNCHANGED <<now, keys, cache, last, blank, begun, todo>>

StaleNever == cache = Nil  \* mutant: fetched once and never refreshed
Stale == cache = Nil \/ now - last > RefreshAfter

UseCache(t) ==
  /\ At(t, "test") /\ ~Stale
  /\ Go(t, "lookup")
  /\ UNCHANGED <<now, keys, cache, last, blank, kid, begun, todo, answer>>

Fetch(t) ==
  /\ At(t, "test") /\ Stale
  /\ Go(t, "fetch")
  /\ begun' = [begun EXCEPT ![t] = now]
  /\ UNCHANGED <<now, keys, cache, last, blank, kid, todo, answer>>

\* The key server builds its answer: the page, or an error whose JSON body has
\* no "keys" (the status is not looked at).
Serve(t) ==
  /\ At(t, "fetch")
  /\ \E page \in {published, {}} :
       todo' = [todo EXCEPT ![t] = page]
  /\ Go(t, "served")
  /\ UNCHANGED <<now, keys, cache, last, blank, kid, begun, answer>>

\* No answer, one that is not JSON, or none in time: the cache stays as it is.
FetchFails(t) ==
  /\ pc[t] \in {"fetch", "served"}
  /\ Go(t, "idle")
  /\ answer' = [answer EXCEPT ![t] = "fetchFailed"]
  /\ todo' = [todo EXCEPT ![t] = {}]
  /\ begun' = [begun EXCEPT ![t] = 0]
  /\ UNCHANGED <<now, keys, cache, last, blank, kid>>

\* The answer has arrived: first the cache is emptied ...
Deliver(t) ==
  /\ At(t, "served")
  /\ cache' = {}
  /\ blank' = IF todo[t] = {} THEN now ELSE blank
  /\ begun' = [begun EXCEPT ![t] = 0]
  /\ Go(t, "insert")
  /\ UNCHANGED <<now, keys, last, kid, todo, answer>>

\* ... then filled key by key, through the shared field each time ...
InsertOnly(t, k) ==  \* mutant: each key gets a new map
  /\ At(t, "insert") /\ k \in todo[t]
  /\ cache' = {k}
  /\ todo' = [todo EXCEPT ![t] = @ \ {k}]
  /\ UNCHANGED <<now, keys, last, blank, pc, kid, begun, answer>>
Insert(t, k) ==
  /\ At(t, "insert") /\ k \in todo[t]
  /\ cache' = cache \cup {k}
  /\ todo' = [todo EXCEPT ![t] = @ \ {k}]
  /\ UNCHANGED <<now, keys, last, blank, pc, kid, begun, answer>>

\* ... and only then Last is set.
FinishUndated(t) ==  \* mutant: Last holds the expiry
  /\ At(t, "insert") /\ todo[t] = {}
  /\ last' = now + RefreshAfter
  /\ Go(t, "lookup")
  /\ UNCHANGED <<now, keys, cache, blank, kid, begun, todo, answer>>
Finish(t) ==
  /\ At(t, "insert") /\ todo[t] = {}
  /\ last' = now
  /\ Go(t, "lookup")
  /\ UNCHANGED <<now, keys, cache, blank, kid, begun, todo, answer>>

Lookup(t) ==
  /\ At(t, "lookup")
  /\ Go(t, "idle")
  /\ answer' = [answer EXCEPT ![t] = IF kid[t] \in cache THEN "key" ELSE "notFound"]
  /\ UNCHANGED <<now, keys, cache, last, blank, kid, begun, todo>>

-----------------------------------------------------------------------------
\* Two threads in the map, one of them writing: "fatal error: concurrent map
\* writes" (or "map read and map write").  The process starts again.
InMap(t) == At(t, "lookup") \/ (At(t, "insert") /\ todo[t] # {})
Crash ==
  /\ \E t, u \in Threads : t # u /\ InMap(t) /\ InMap(u) /\ At(t, "insert")
  /\ cache' = Nil /\ last' = Never
  /\ pc' = [t \in Threads |-> "idle"]
  /\ todo' = [t \in Threads |-> {}]
  /\ begun' = [t \in Threads |-> 0]
  /\ answer' = [t \in Threads |-> IF At(t, "idle") THEN answer[t] ELSE "crashed"]
  /\ UNCHANGED <<now, keys, blank, kid>>

\* Google publishes a key or withdraws one.
Rotate(k) ==
  /\ since' = [since EXCEPT ![k] = now]
  /\ published' = IF k \in published THEN published \ {k} ELSE published \cup {k}
  /\ published' # {}
  /\ UNCHANGED <<now, cache, last, blank, pc, kid, begun, todo, answer>>

\* Time passes only while every thread is idle or waits for its fetch, and never
\* beyond the fetch's timeout: the steps in between take no time to speak of.
Tick ==
  /\ now < Horizon
  /\ \A t \in Threads :
       \/ At(t, "idle")
       \/ pc[t] \in {"fetch", "served"} /\ now - begun[t] < FetchTimeout
  /\ now' = now + 1
  /\ UNCHANGED <<keys, cache, last, blank, pc, kid, begun, todo, answer>>

Keyfunc(t) ==
  \/ UseCache(t) \/ Fetch(t) \/ Serve(t) \/ FetchFails(t) \/ Deliver(t)
  \/ (\E k \in Kids : Insert(t, k)) \/ Finish(t) \/ Lookup(t)

Next ==
  \/ \E t \in Threads : Keyfunc(t) \/ \E k \in Kids : Call(t, k)
  \/ Crash
  \/ \E k \in Kids : Rotate(k)
  \/ Tick

Spec == Init /\ [][Next]_vars

-----------------------------------------------------------------------------
TypeOK ==
  /\ now \in 0 .. Horizon
  /\ published \subseteq Kids /\ published # {}
  /\ since \in [Kids -> Int]
  /\ cache = Nil \/ cache \subseteq Kids
  /\ last \in Never .. Horizon
  /\ blank \in Int
  /\ pc \in [Threads -> {"idle", "test", "fetch", "served", "insert", "lookup"}]
  /\ kid \in [Threads -> Kids]
  /\ begun \in [Threads -> 0 .. Horizon]
  /\ todo \in [Threads -> SUBSET Kids]
  /\ answer \in [Threads -> {"none", "key", "notFound", "fetchFailed", "crashed"}]

MaxStale == RefreshAfter + FetchTimeout

\* A key that Google withdrew is accepted no longer than a cache's life and one
\* fetch after that, whatever fetches overlap, fail or answer late.
WithdrawnKeyRefused ==
  [][\A t \in Threads :
       Lookup(t) /\ answer'[t] = "key" =>
         kid[t] \in published \/ now - since[kid[t]] <= MaxStale]_vars

\* A key that has been on the page for that long is missed only while another
\* handler refills the map, or for as long again after an answer without keys.
MissesExplained ==
  [][\A t \in Threads :
       /\ Lookup(t) /\ answer'[t] = "notFound"
       /\ kid[t] \in published /\ now - since[kid[t]] > MaxStale
       => \/ \E u \in Threads : At(u, "insert")
          \/ now - blank <= MaxStale]_vars
=============================================================================
