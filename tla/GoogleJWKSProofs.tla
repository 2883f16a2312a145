-------------------------- MODULE GoogleJWKSProofs --------------------------
(***************************************************************************)
(* Theorems about GoogleJWKS for any number of threads and keys and any    *)
(* times: types, how long a withdrawn key is accepted, and when one that   *)
(* is on the page may be missed.  Then RiscReceiver, whose tokens those    *)
(* keys verify, for any users, event types and numbers of events: which    *)
(* tokens have consequences, and which.                                    *)
(***************************************************************************)
EXTENDS GoogleJWKS, RiscReceiver, TLAPS

\* k has been on the page at some time not before x; on it ever since before x.
OnPageSince(k, x) == k \in published \/ since[k] >= x
OnPageBefore(k, x) == k \in published /\ since[k] < x

Fetching(t) == pc[t] \in {"fetch", "served"}
Inserting == \E t \in Threads : pc[t] = "insert"

\* No fetch is older than its timeout, and a thread that will look a key up has
\* just made sure of the cache.
InTime ==
  /\ last <= now
  /\ \A k \in Kids : since[k] <= now
  /\ \A t \in Threads :
       /\ Fetching(t) => begun[t] <= now /\ now - begun[t] <= FetchTimeout
       /\ pc[t] = "lookup" => now - last <= RefreshAfter
       /\ pc[t] \in {"insert", "lookup"} => cache # Nil

\* A page that was fetched, and what of it is in the cache, was right when its
\* fetch had begun or later.
NothingOlder ==
  /\ \A t \in Threads : \A k \in todo[t] :
       /\ pc[t] = "served" => OnPageSince(k, begun[t])
       /\ pc[t] = "insert" => OnPageSince(k, now - FetchTimeout)
  /\ cache # Nil => \A k \in cache :
       /\ OnPageSince(k, last - FetchTimeout)
       /\ Inserting => OnPageSince(k, now - FetchTimeout)

\* A page that was fetched has every key that was there when its fetch began, or
\* none; they reach the cache before the last of the threads that fill it is done.
NothingLeftOut ==
  /\ \A t \in Threads : pc[t] = "served" =>
       \/ todo[t] = {}
       \/ \A k \in Kids : OnPageBefore(k, begun[t]) => k \in todo[t]
  /\ Inserting =>
       \/ blank = now
       \/ \A k \in Kids : OnPageBefore(k, now - FetchTimeout) =>
            k \in cache \/ \E t \in Threads : pc[t] = "insert" /\ k \in todo[t]
  /\ ~Inserting /\ cache # Nil =>
       \/ blank = last
       \/ \A k \in Kids : OnPageBefore(k, last - FetchTimeout) => k \in cache

CacheInv == TypeOK /\ InTime /\ NothingOlder /\ NothingLeftOut

-----------------------------------------------------------------------------
LEMMA Times ==
  /\ RefreshAfter \in Nat /\ FetchTimeout \in Nat /\ FetchTimeout # 0 /\ Horizon \in Nat
  /\ Never \in Int /\ Never = -RefreshAfter - 1
BY JwksAssumption DEF Never

\* No set of keys is the map that is not there.
LEMMA NilIsNoKeySet == ASSUME NEW S \in SUBSET Kids PROVE S # Nil
BY JwksAssumption DEF Nil

LEMMA TypeInit == Init => TypeOK
<1> SUFFICES ASSUME Init PROVE TypeOK
  OBVIOUS
<1>1. now \in 0 .. Horizon /\ last \in Never .. Horizon /\ blank \in Int
  BY Times DEF Init
<1>2. published \subseteq Kids /\ published # {} /\ since \in [Kids -> Int]
  BY Times DEF Init
<1>3. begun \in [Threads -> 0 .. Horizon] /\ todo \in [Threads -> SUBSET Kids]
  BY Times DEF Init
<1> QED BY <1>1, <1>2, <1>3 DEF Init, TypeOK

\* Every step keeps the types.
LEMMA TypeStep == TypeOK /\ InTime /\ [Next]_vars => TypeOK'
<1> SUFFICES ASSUME TypeOK, InTime, [Next]_vars PROVE TypeOK'
  OBVIOUS
<1> USE Times DEF TypeOK, keys, At, Go
<1>1. ASSUME NEW t \in Threads, NEW k \in Kids, Call(t, k) PROVE TypeOK'
  BY <1>1 DEF Call
<1>2. ASSUME NEW t \in Threads, UseCache(t) PROVE TypeOK'
  BY <1>2 DEF UseCache
<1>3. ASSUME NEW t \in Threads, Fetch(t) PROVE TypeOK'
  BY <1>3 DEF Fetch
<1>4. ASSUME NEW t \in Threads, Serve(t) PROVE TypeOK'
  BY <1>4 DEF Serve
<1>5. ASSUME NEW t \in Threads, FetchFails(t) PROVE TypeOK'
  BY <1>5 DEF FetchFails
<1>6. ASSUME NEW t \in Threads, Deliver(t) PROVE TypeOK'
  BY <1>6 DEF Deliver
<1>7. ASSUME NEW t \in Threads, NEW k \in Kids, Insert(t, k) PROVE TypeOK'
  BY <1>7 DEF Insert, InTime
<1>8. ASSUME NEW t \in Threads, Finish(t) PROVE TypeOK'
  BY <1>8 DEF Finish
<1>9. ASSUME NEW t \in Threads, Lookup(t) PROVE TypeOK'
  BY <1>9 DEF Lookup
<1>10. CASE Crash
  BY <1>10 DEF Crash
<1>11. ASSUME NEW k \in Kids, Rotate(k) PROVE TypeOK'
  BY <1>11 DEF Rotate
<1>12. CASE Tick
  BY <1>12 DEF Tick
<1>13. CASE UNCHANGED vars
  BY <1>13 DEF vars
<1> QED
  BY <1>1, <1>2, <1>3, <1>4, <1>5, <1>6, <1>7, <1>8, <1>9, <1>10, <1>11, <1>12, <1>13
  DEF Next, Keyfunc

-----------------------------------------------------------------------------
LEMMA CacheInit == Init => CacheInv
<1> SUFFICES ASSUME Init PROVE CacheInv
  OBVIOUS
<1>1. TypeOK
  BY TypeInit
<1>2. InTime
  BY Times DEF Init, InTime, Fetching
<1>3. NothingOlder /\ NothingLeftOut
  BY DEF Init, NothingOlder, NothingLeftOut, Inserting
<1> QED BY <1>1, <1>2, <1>3 DEF CacheInv

\* Time does not pass while a thread is between its test and its lookup.
LEMMA InTimeStep == CacheInv /\ [Next]_vars => InTime'
<1> SUFFICES ASSUME TypeOK, InTime, [Next]_vars PROVE InTime'
  BY DEF CacheInv
<1> USE Times DEF TypeOK, InTime, Fetching, keys, At, Go
<1>1. ASSUME NEW t \in Threads, NEW k \in Kids, Call(t, k) PROVE InTime'
  BY <1>1 DEF Call
<1>2. ASSUME NEW t \in Threads, UseCache(t) PROVE InTime'
  BY <1>2 DEF UseCache, Stale
<1>3. ASSUME NEW t \in Threads, Fetch(t) PROVE InTime'
  BY <1>3 DEF Fetch
<1>4. ASSUME NEW t \in Threads, Serve(t) PROVE InTime'
  BY <1>4 DEF Serve
<1>5. ASSUME NEW t \in Threads, FetchFails(t) PROVE InTime'
  BY <1>5 DEF FetchFails
<1>6. ASSUME NEW t \in Threads, Deliver(t) PROVE InTime'
  BY <1>6, NilIsNoKeySet DEF Deliver
<1>7. ASSUME NEW t \in Threads, NEW k \in Kids, Insert(t, k) PROVE InTime'
  BY <1>7, NilIsNoKeySet DEF Insert
<1>8. ASSUME NEW t \in Threads, Finish(t) PROVE InTime'
  BY <1>8 DEF Finish
<1>9. ASSUME NEW t \in Threads, Lookup(t) PROVE InTime'
  BY <1>9 DEF Lookup
<1>10. CASE Crash
  BY <1>10 DEF Crash
<1>11. ASSUME NEW k \in Kids, Rotate(k) PROVE InTime'
  BY <1>11 DEF Rotate
<1>12. CASE Tick
  BY <1>12 DEF Tick
<1>13. CASE UNCHANGED vars
  BY <1>13 DEF vars
<1> QED
  BY <1>1, <1>2, <1>3, <1>4, <1>5, <1>6, <1>7, <1>8, <1>9, <1>10, <1>11, <1>12, <1>13
  DEF Next, Keyfunc

\* What is fetched is on the page, and what is put in the cache was fetched.
LEMMA NothingOlderStep == CacheInv /\ [Next]_vars => NothingOlder'
<1> SUFFICES ASSUME TypeOK, InTime, NothingOlder, [Next]_vars PROVE NothingOlder'
  BY DEF CacheInv
<1> USE Times DEF TypeOK, InTime, NothingOlder, OnPageSince, Fetching, Inserting, keys, At, Go
<1>1. ASSUME NEW t \in Threads, NEW k \in Kids, Call(t, k) PROVE NothingOlder'
  BY <1>1 DEF Call
<1>2. ASSUME NEW t \in Threads, UseCache(t) PROVE NothingOlder'
  BY <1>2 DEF UseCache, Stale
<1>3. ASSUME NEW t \in Threads, Fetch(t) PROVE NothingOlder'
  BY <1>3 DEF Fetch
<1>4. ASSUME NEW t \in Threads, Serve(t) PROVE NothingOlder'
  BY <1>4 DEF Serve
<1>5. ASSUME NEW t \in Threads, FetchFails(t) PROVE NothingOlder'
  BY <1>5 DEF FetchFails
<1>6. ASSUME NEW t \in Threads, Deliver(t) PROVE NothingOlder'
  BY <1>6 DEF Deliver
<1>7. ASSUME NEW t \in Threads, NEW k \in Kids, Insert(t, k) PROVE NothingOlder'
  BY <1>7 DEF Insert
<1>8. ASSUME NEW t \in Threads, Finish(t) PROVE NothingOlder'
  BY <1>8 DEF Finish
<1>9. ASSUME NEW t \in Threads, Lookup(t) PROVE NothingOlder'
  BY <1>9 DEF Lookup
<1>10. CASE Crash
  BY <1>10 DEF Crash
<1>11. ASSUME NEW k \in Kids, Rotate(k) PROVE NothingOlder'
  BY <1>11 DEF Rotate
<1>12. CASE Tick
  BY <1>12 DEF Tick
<1>13. CASE UNCHANGED vars
  BY <1>13 DEF vars
<1> QED
  BY <1>1, <1>2, <1>3, <1>4, <1>5, <1>6, <1>7, <1>8, <1>9, <1>10, <1>11, <1>12, <1>13
  DEF Next, Keyfunc

\* Whoever empties the cache brings the whole page, and no other thread takes
\* out what has been put in.
LEMMA NothingLeftOutStep == CacheInv /\ [Next]_vars => NothingLeftOut'
<1> SUFFICES ASSUME TypeOK, InTime, NothingLeftOut, [Next]_vars PROVE NothingLeftOut'
  BY DEF CacheInv
<1> USE Times DEF TypeOK, InTime, NothingLeftOut, OnPageBefore, Fetching, Inserting, keys, At, Go
<1>1. ASSUME NEW t \in Threads, NEW k \in Kids, Call(t, k) PROVE NothingLeftOut'
  BY <1>1 DEF Call
<1>2. ASSUME NEW t \in Threads, UseCache(t) PROVE NothingLeftOut'
  BY <1>2 DEF UseCache, Stale
<1>3. ASSUME NEW t \in Threads, Fetch(t) PROVE NothingLeftOut'
  BY <1>3 DEF Fetch
<1>4. ASSUME NEW t \in Threads, Serve(t) PROVE NothingLeftOut'
  BY <1>4 DEF Serve
<1>5. ASSUME NEW t \in Threads, FetchFails(t) PROVE NothingLeftOut'
  BY <1>5 DEF FetchFails
<1>6. ASSUME NEW t \in Threads, Deliver(t) PROVE NothingLeftOut'
  BY <1>6 DEF Deliver
<1>7. ASSUME NEW t \in Threads, NEW k \in Kids, Insert(t, k) PROVE NothingLeftOut'
  BY <1>7 DEF Insert
<1>8. ASSUME NEW t \in Threads, Finish(t) PROVE NothingLeftOut'
  BY <1>8 DEF Finish
<1>9. ASSUME NEW t \in Threads, Lookup(t) PROVE NothingLeftOut'
  BY <1>9 DEF Lookup
<1>10. CASE Crash
  BY <1>10 DEF Crash
<1>11. ASSUME NEW k \in Kids, Rotate(k) PROVE NothingLeftOut'
  BY <1>11 DEF Rotate
<1>12. CASE Tick
  BY <1>12 DEF Tick
<1>13. CASE UNCHANGED vars
  BY <1>13 DEF vars
<1> QED
  BY <1>1, <1>2, <1>3, <1>4, <1>5, <1>6, <1>7, <1>8, <1>9, <1>10, <1>11, <1>12, <1>13
  DEF Next, Keyfunc

LEMMA CacheStep == CacheInv /\ [Next]_vars => CacheInv'
BY TypeStep, InTimeStep, NothingOlderStep, NothingLeftOutStep DEF CacheInv

-----------------------------------------------------------------------------
\* However handlers, fetches and rotations interleave, the variables keep their
\* types.
THEOREM JwksTypeCorrect == Spec => []TypeOK
<1>1. CacheInv => TypeOK
  BY DEF CacheInv
<1> QED BY <1>1, CacheInit, CacheStep, PTL DEF Spec

\* A key that Google withdrew is accepted no longer than a cache's life and one
\* fetch after that.
THEOREM WithdrawnRefused == Spec => WithdrawnKeyRefused
<1> DEFINE Refused(t) ==
      Lookup(t) /\ answer'[t] = "key" =>
        kid[t] \in published \/ now - since[kid[t]] <= MaxStale
<1>1. ASSUME CacheInv, NEW t \in Threads PROVE Refused(t)
  <2> SUFFICES ASSUME Lookup(t), answer'[t] = "key"
               PROVE  kid[t] \in published \/ now - since[kid[t]] <= MaxStale
    OBVIOUS
  <2> USE <1>1, Times DEF CacheInv, TypeOK
  <2>1. pc[t] = "lookup" /\ kid[t] \in cache
    BY DEF Lookup, At
  <2>2. cache # Nil /\ now - last <= RefreshAfter
    BY <2>1 DEF InTime
  <2>3. OnPageSince(kid[t], last - FetchTimeout)
    BY <2>1, <2>2 DEF NothingOlder
  <2>4. since[kid[t]] \in Int /\ now \in Int /\ last \in Int
    OBVIOUS
  <2> QED BY <2>2, <2>3, <2>4 DEF OnPageSince, MaxStale
<1>2. CacheInv /\ [Next]_vars => [\A t \in Threads : Refused(t)]_vars
  BY <1>1
<1> QED BY <1>2, CacheInit, CacheStep, PTL DEF Spec, WithdrawnKeyRefused

\* A key that has been on the page for that long is missed only while another
\* handler fills the cache, or after an answer without keys.
THEOREM MissesAccountedFor == Spec => MissesExplained
<1> DEFINE Explained(t) ==
      /\ Lookup(t) /\ answer'[t] = "notFound"
      /\ kid[t] \in published /\ now - since[kid[t]] > MaxStale
      => \/ \E u \in Threads : At(u, "insert")
         \/ now - blank <= MaxStale
<1>1. ASSUME CacheInv, NEW t \in Threads PROVE Explained(t)
  <2> SUFFICES ASSUME Lookup(t), answer'[t] = "notFound",
                      kid[t] \in published, now - since[kid[t]] > MaxStale,
                      ~ \E u \in Threads : At(u, "insert")
               PROVE  now - blank <= MaxStale
    OBVIOUS
  <2> USE <1>1, Times DEF CacheInv, TypeOK
  <2>1. pc[t] = "lookup" /\ kid[t] \notin cache
    BY DEF Lookup, At
  <2>2. cache # Nil /\ now - last <= RefreshAfter
    BY <2>1 DEF InTime
  <2>3. OnPageBefore(kid[t], last - FetchTimeout)
    BY <2>2 DEF OnPageBefore, MaxStale
  <2>4. blank = last
    BY <2>1, <2>2, <2>3 DEF NothingLeftOut, Inserting, At
  <2> QED BY <2>2, <2>4 DEF MaxStale
<1>2. CacheInv /\ [Next]_vars => [\A t \in Threads : Explained(t)]_vars
  BY <1>1
<1> QED BY <1>2, CacheInit, CacheStep, PTL DEF Spec, MissesExplained

(***************************************************************************)
(* Why the receiver does what was asked.  Each visited event is taken from *)
(* left; what was done names visited events only, so that a new one cannot *)
(* repeat it, and each one that asks for it was acted on before it left.   *)
(***************************************************************************)
\* The events of the token that ask for a mitigation.
Wanted == DOMAIN token.events \cap {Disabled, CredentialChange}

\* Only a process with all four settings, the issuer among them, has the test keys;
\* its verifier takes no token.  What is past the checks has passed them.
Verified ==
  /\ page = "test" => testIssuer
  /\ step = "events" \/ acts # <<>> => Valid /\ audMatches

\* Nothing is done before the events, nothing undone is answered.
InSequence ==
  /\ step \in {"idle", "verify"} => acts = <<>> /\ left = {} /\ status = 0
  /\ step = "events" => status = 0
  /\ status = 204 => left = {}
  /\ status = 400 => acts = <<>>

\* What was done was done for events that were visited, once and in order.
ActsExplained ==
  /\ \A n \in 1 .. Len(acts) :
       /\ acts[n] = <<acts[n][1], acts[n][2], uid>>
       /\ acts[n][2] \in Wanted \ left
       /\ acts[n][1] = "KillSessions" =>
            \E m \in 1 .. n - 1 : acts[m] = <<"MarkHighRisk", acts[n][2], acts[n][3]>>
  /\ \A n, m \in 1 .. Len(acts) : acts[n] = acts[m] => n = m

\* Every event that was visited and asks for it has been acted on.
VisitedMitigated ==
  step = "events" \/ status = 204 =>
    \A e \in Wanted \ left : \E n \in 1 .. Len(acts) : acts[n][1] = "KillSessions" /\ acts[n][2] = e

ReceiverInv == RiscTypeOK /\ Verified /\ InSequence /\ ActsExplained /\ VisitedMitigated

-----------------------------------------------------------------------------
Kinds == {"MarkHighRisk", "KillSessions"}

\* Two calls more at the end of what was done.
LEMMA TwoMore ==
  ASSUME NEW S, NEW s \in Seq(S), NEW a \in S, NEW b \in S
  PROVE  /\ s \o <<a, b>> \in Seq(S) /\ Len(s) \in Nat /\ Len(s \o <<a, b>>) = Len(s) + 2
         /\ \A n \in 1 .. Len(s) : (s \o <<a, b>>)[n] = s[n]
         /\ (s \o <<a, b>>)[Len(s) + 1] = a /\ (s \o <<a, b>>)[Len(s) + 2] = b
OBVIOUS

LEMMA ReceiverBegins == RiscInit => ReceiverInv
<1> SUFFICES ASSUME RiscInit PROVE ReceiverInv
  OBVIOUS
<1>1. /\ token = NoToken /\ step = "idle" /\ uid = NoUser /\ left = {} /\ acts = <<>> /\ status = 0
      /\ testIssuer \in BOOLEAN /\ page \in discoverCAPJWKS \cup {"test"}
      /\ page = "test" => testIssuer
  <2>1. PICK set \in SUBSET TestSettings :
          testIssuer = ("RISC_TEST_ISSUER" \in set) /\ page \in Pages(set)
    BY DEF RiscInit
  <2>2. page \in discoverCAPJWKS \cup {"test"} /\ (page = "test" => TestSettings \subseteq set)
    BY <2>1 DEF Pages, discoverCAPJWKS
  <2>3. page = "test" => testIssuer
    BY <2>1, <2>2 DEF TestSettings
  <2>4. testIssuer \in BOOLEAN
    BY <2>1
  <2> QED BY <2>2, <2>3, <2>4 DEF RiscInit
<1>2. acts \in Seq(Kinds \X Types \X (Users \cup {NoUser})) /\ Len(acts) = 0
  BY <1>1
<1>3. RiscTypeOK
  BY <1>1, <1>2 DEF RiscTypeOK, Kinds
<1>4. Verified /\ InSequence /\ VisitedMitigated
  BY <1>1 DEF Verified, InSequence, VisitedMitigated
<1>5. ActsExplained
  BY <1>2 DEF ActsExplained
<1> QED BY <1>3, <1>4, <1>5 DEF ReceiverInv

\* What happens to no token and to nobody's acts keeps what explains them.
LEMMA SameActs ==
  ASSUME ActsExplained, UNCHANGED <<token, uid, left, acts>>
  PROVE  ActsExplained'
BY DEF ActsExplained, Wanted

LEMMA NoActs == ASSUME acts' = <<>> PROVE ActsExplained'
<1>1. Len(acts') = 0
  OBVIOUS
<1> QED BY <1>1 DEF ActsExplained

LEMMA ReceiveKeeps ==
  ASSUME ReceiverInv, NEW t \in Tokens, Receive(t)
  PROVE  ReceiverInv'
<1>1. /\ step = "idle" /\ token' = t /\ step' = "verify"
      /\ UNCHANGED <<testIssuer, page, uid, left, acts, status>>
  BY DEF Receive
<1>2. acts = <<>> /\ left = {} /\ status = 0
  BY <1>1 DEF ReceiverInv, InSequence
<1>3. RiscTypeOK'
  BY <1>1, <1>2 DEF ReceiverInv, RiscTypeOK
<1>4. Verified' /\ InSequence' /\ VisitedMitigated'
  BY <1>1, <1>2 DEF ReceiverInv, Verified, InSequence, VisitedMitigated
<1> QED BY <1>1, <1>2, <1>3, <1>4, NoActs DEF ReceiverInv

\* A reply, of a token that is refused before anything was done for it or of one
\* whose events were all visited.
LEMMA ReplyKeeps ==
  ASSUME ReceiverInv, NEW code, Reply(code),
         \/ code = 400 /\ step = "verify"
         \/ code = 204 /\ step = "events" /\ left = {}
  PROVE  ReceiverInv'
<1>1. /\ status' = code /\ step' = "answered"
      /\ UNCHANGED <<testIssuer, page, token, uid, left, acts>>
  BY DEF Reply
<1>2. RiscTypeOK'
  BY <1>1 DEF ReceiverInv, RiscTypeOK
<1>3. Verified'
  BY <1>1 DEF ReceiverInv, Verified, Valid, SignedBy, IssuerAccepted, audMatches
<1>4. InSequence'
  BY <1>1 DEF ReceiverInv, InSequence
<1>5. ActsExplained'
  BY <1>1, SameActs DEF ReceiverInv
<1>6. VisitedMitigated'
  BY <1>1 DEF ReceiverInv, VisitedMitigated, Wanted
<1> QED BY <1>2, <1>3, <1>4, <1>5, <1>6 DEF ReceiverInv

LEMMA ChooseKeeps == ASSUME ReceiverInv, ChooseUser PROVE ReceiverInv'
<1>1. /\ step = "verify" /\ Valid /\ audMatches /\ left' = DOMAIN token.events /\ step' = "events"
      /\ uid' \in (IF token.sub # NoUser THEN {token.sub} ELSE SubjectsInEvents)
      /\ UNCHANGED <<testIssuer, page, token, acts, status>>
  BY DEF ChooseUser
<1>2. acts = <<>> /\ status = 0
  BY <1>1 DEF ReceiverInv, InSequence
<1>3. token \in Tokens
  BY <1>1 DEF ReceiverInv, RiscTypeOK, Valid, SignedBy, NoToken
<1>4. uid' \in Users \cup {NoUser}
  <2>1. token.sub \in Users \cup {NoUser} /\ token.events \in EventMaps
    BY <1>3 DEF Tokens
  <2>2. PICK D \in SUBSET Types : token.events \in [D -> Bodies]
    BY <2>1 DEF EventMaps
  <2>3. \A e \in DOMAIN token.events : token.events[e].who \in Users
    BY <2>2 DEF Bodies
  <2> QED BY <1>1, <2>1, <2>3 DEF SubjectsInEvents
<1>5. RiscTypeOK'
  BY <1>1, <1>2, <1>4 DEF ReceiverInv, RiscTypeOK
<1>6. Verified'
  BY <1>1 DEF ReceiverInv, Verified, Valid, SignedBy, IssuerAccepted, audMatches
<1>7. InSequence' /\ VisitedMitigated'
  BY <1>1, <1>2 DEF InSequence, VisitedMitigated, Wanted
<1> QED BY <1>1, <1>2, <1>5, <1>6, <1>7, NoActs DEF ReceiverInv

LEMMA HandleKeeps ==
  ASSUME ReceiverInv, NEW e \in Types, HandleEvent(e)
  PROVE  ReceiverInv'
<1>1. /\ step = "events" /\ e \in left /\ left' = left \ {e}
      /\ acts' = IF Mitigated(e) THEN acts \o <<MarkHighRisk(e), KillSessions(e)>> ELSE acts
      /\ UNCHANGED <<testIssuer, page, token, step, uid, status>>
  BY DEF HandleEvent
<1>2. /\ status = 0 /\ e \in DOMAIN token.events /\ Wanted' = Wanted
  BY <1>1 DEF ReceiverInv, InSequence, RiscTypeOK, Wanted
<1>3. Verified'
  BY <1>1 DEF ReceiverInv, Verified, Valid, SignedBy, IssuerAccepted, audMatches
<1>4. InSequence'
  BY <1>1, <1>2 DEF InSequence
<1>5. CASE ~Mitigated(e)
  <2>1. acts' = acts /\ Wanted \ left' = Wanted \ left
    BY <1>1, <1>5 DEF Mitigated, Wanted
  <2>2. RiscTypeOK'
    BY <1>1, <2>1 DEF ReceiverInv, RiscTypeOK
  <2>3. ActsExplained'
    BY <1>1, <1>2, <2>1 DEF ReceiverInv, ActsExplained
  <2>4. VisitedMitigated'
    BY <1>1, <1>2, <2>1 DEF ReceiverInv, VisitedMitigated
  <2> QED BY <1>3, <1>4, <2>2, <2>3, <2>4 DEF ReceiverInv
<1>6. CASE Mitigated(e)
  <2> DEFINE S == Kinds \X Types \X (Users \cup {NoUser})
             L == Len(acts)
  <2>1. /\ acts \in Seq(S) /\ MarkHighRisk(e) \in S /\ KillSessions(e) \in S
        /\ acts' = acts \o <<MarkHighRisk(e), KillSessions(e)>>
    BY <1>1, <1>6 DEF ReceiverInv, RiscTypeOK, MarkHighRisk, KillSessions, Kinds
  <2>2. /\ acts' \in Seq(S) /\ L \in Nat /\ Len(acts') = L + 2
        /\ \A n \in 1 .. L : acts'[n] = acts[n]
        /\ acts'[L + 1] = <<"MarkHighRisk", e, uid>> /\ acts'[L + 2] = <<"KillSessions", e, uid>>
    <3> HIDE DEF S
    <3> QED BY <2>1, TwoMore DEF MarkHighRisk, KillSessions
  <2>3. RiscTypeOK'
    BY <1>1, <2>2 DEF ReceiverInv, RiscTypeOK, Kinds
  <2>4. e \in Wanted /\ Wanted' \ left' = (Wanted \ left) \cup {e}
    BY <1>1, <1>2, <1>6 DEF Mitigated, Wanted
  <2>5. \A n \in 1 .. L : acts[n][2] # e
    BY <1>1 DEF ReceiverInv, ActsExplained
  <2>6. ActsExplained'
    <3>1. \A n \in 1 .. L + 2 : n \in 1 .. L \/ n = L + 1 \/ n = L + 2
      BY <2>2
    <3>2. ASSUME NEW n \in 1 .. L + 2
          PROVE  /\ acts'[n] = <<acts'[n][1], acts'[n][2], uid'>>
                 /\ acts'[n][2] \in Wanted' \ left'
                 /\ acts'[n][1] = "KillSessions" =>
                      \E m \in 1 .. n - 1 : acts'[m] = <<"MarkHighRisk", acts'[n][2], acts'[n][3]>>
      <4>1. CASE n \in 1 .. L
        <5>1. acts'[n] = acts[n] /\ acts[n] = <<acts[n][1], acts[n][2], uid>> /\ acts[n][2] \in Wanted \ left
          BY <2>2, <4>1 DEF ReceiverInv, ActsExplained
        <5>2. ASSUME acts[n][1] = "KillSessions"
              PROVE  \E m \in 1 .. n - 1 : acts'[m] = <<"MarkHighRisk", acts[n][2], acts[n][3]>>
          <6>1. PICK m \in 1 .. n - 1 : acts[m] = <<"MarkHighRisk", acts[n][2], acts[n][3]>>
            BY <4>1, <5>2 DEF ReceiverInv, ActsExplained
          <6>2. m \in 1 .. L
            BY <2>2, <4>1
          <6> QED BY <2>2, <6>1, <6>2
        <5> QED BY <1>1, <2>4, <5>1, <5>2
      <4>2. CASE n = L + 1
        BY <1>1, <2>2, <2>4, <4>2
      <4>3. CASE n = L + 2
        <5>1. L + 1 \in 1 .. n - 1
          BY <2>2, <4>3
        <5>2. acts'[n] = <<"KillSessions", e, uid>> /\ uid' = uid /\ e \in Wanted' \ left'
          BY <1>1, <2>2, <2>4, <4>3
        <5>3. acts'[n][2] = e /\ acts'[n][3] = uid
          BY <5>2
        <5>4. \E m \in 1 .. n - 1 : acts'[m] = <<"MarkHighRisk", acts'[n][2], acts'[n][3]>>
          BY <2>2, <5>1, <5>3
        <5> QED BY <5>2, <5>4
      <4> QED BY <3>1, <4>1, <4>2, <4>3
    <3>3. ASSUME NEW n \in 1 .. L + 2, NEW m \in 1 .. L + 2, acts'[n] = acts'[m]
          PROVE  n = m
      <4>1. n \in 1 .. L => acts'[n] = acts[n] /\ acts'[n][2] # e
        BY <2>2, <2>5
      <4>2. m \in 1 .. L => acts'[m] = acts[m] /\ acts'[m][2] # e
        BY <2>2, <2>5
      <4>3. n \notin 1 .. L => acts'[n][2] = e /\ (acts'[n][1] = "MarkHighRisk" <=> n = L + 1)
        BY <2>2, <3>1
      <4>4. m \notin 1 .. L => acts'[m][2] = e /\ (acts'[m][1] = "MarkHighRisk" <=> m = L + 1)
        BY <2>2, <3>1
      <4>5. CASE n \in 1 .. L
        BY <3>3, <4>1, <4>2, <4>4, <4>5 DEF ReceiverInv, ActsExplained
      <4>6. CASE n \notin 1 .. L
        <5>1. m \notin 1 .. L
          BY <3>3, <4>2, <4>3, <4>6
        <5> QED BY <3>1, <3>3, <4>3, <4>4, <4>6, <5>1
      <4> QED BY <4>5, <4>6
    <3> QED BY <2>2, <3>2, <3>3 DEF ActsExplained
  <2>7. VisitedMitigated'
    <3>1. ASSUME NEW x \in Wanted \ left
          PROVE  \E n \in 1 .. L + 2 : acts'[n][1] = "KillSessions" /\ acts'[n][2] = x
      <4>1. PICK n \in 1 .. L : acts[n][1] = "KillSessions" /\ acts[n][2] = x
        BY <1>1 DEF ReceiverInv, VisitedMitigated
      <4>2. n \in 1 .. L + 2
        BY <2>2
      <4> QED BY <2>2, <4>1, <4>2
    <3>2. L + 2 \in 1 .. L + 2
      BY <2>2
    <3>3. \E n \in 1 .. L + 2 : acts'[n][1] = "KillSessions" /\ acts'[n][2] = e
      BY <2>2, <3>2
    <3>4. \A x \in Wanted' \ left' :
            \E n \in 1 .. Len(acts') : acts'[n][1] = "KillSessions" /\ acts'[n][2] = x
      BY <2>2, <2>4, <3>1, <3>3
    <3> QED BY <3>4 DEF VisitedMitigated
  <2> QED BY <1>3, <1>4, <2>3, <2>6, <2>7 DEF ReceiverInv
<1> QED BY <1>5, <1>6

LEMMA ReceiverStep == ReceiverInv /\ [RiscNext]_riscVars => ReceiverInv'
<1> SUFFICES ASSUME ReceiverInv, [RiscNext]_riscVars PROVE ReceiverInv'
  OBVIOUS
<1>1. ASSUME NEW t \in Tokens, Receive(t) PROVE ReceiverInv'
  BY <1>1, ReceiveKeeps
<1>2. CASE RefuseInvalid \/ RefuseAudience \/ Acknowledge
  BY <1>2, ReplyKeeps DEF RefuseInvalid, RefuseAudience, Acknowledge
<1>3. CASE ChooseUser
  BY <1>3, ChooseKeeps
<1>4. ASSUME NEW e \in Types, HandleEvent(e) PROVE ReceiverInv'
  BY <1>4, HandleKeeps
<1>5. CASE UNCHANGED riscVars
  <2>1. UNCHANGED <<testIssuer, page, token, step, uid, left, acts, status>>
    BY <1>5 DEF riscVars
  <2>2. RiscTypeOK'
    BY <2>1 DEF ReceiverInv, RiscTypeOK
  <2>3. Verified'
    BY <2>1 DEF ReceiverInv, Verified, Valid, SignedBy, IssuerAccepted, audMatches
  <2>4. InSequence' /\ VisitedMitigated'
    BY <2>1 DEF ReceiverInv, InSequence, VisitedMitigated, Wanted
  <2> QED BY <2>1, <2>2, <2>3, <2>4, SameActs DEF ReceiverInv
<1> QED BY <1>1, <1>2, <1>3, <1>4, <1>5 DEF RiscNext

\* RiscReceiver: a token, its user, its events and what was done keep their types.
THEOREM RiscTypeCorrect == RiscSpec => []RiscTypeOK
<1>1. ReceiverInv => RiscTypeOK
  BY DEF ReceiverInv
<1> QED BY <1>1, ReceiverBegins, ReceiverStep, PTL DEF RiscSpec

\* RiscReceiver: what is done to a user is what the token's events ask for, once
\* each and in order, all of it before the 204 and none of it for a refused token.
THEOREM MitigationsAsAsked == RiscSpec => []MitigatesWhatWasAsked
<1>1. ReceiverInv => MitigatesWhatWasAsked
  <2> SUFFICES ASSUME ReceiverInv PROVE MitigatesWhatWasAsked
    OBVIOUS
  <2>1. \A n \in 1 .. Len(acts) : acts[n][2] \in DOMAIN token.events \cap {Disabled, CredentialChange}
    BY DEF ReceiverInv, ActsExplained, Wanted
  <2>2. status = 204 =>
          \A e \in DOMAIN token.events \cap {Disabled, CredentialChange} :
            \E n \in 1 .. Len(acts) : acts[n][1] = "KillSessions" /\ acts[n][2] = e
    BY DEF ReceiverInv, InSequence, VisitedMitigated, Wanted
  <2> QED BY <2>1, <2>2 DEF ReceiverInv, ActsExplained, InSequence, MitigatesWhatWasAsked
<1> QED BY <1>1, ReceiverBegins, ReceiverStep, PTL DEF RiscSpec

\* RiscReceiver: whatever is set at start-up, only tokens signed and issued by Google,
\* for this audience, have consequences.
THEOREM OnlyGoogleActs == RiscSpec => []OnlyVerified
<1>1. ReceiverInv => OnlyVerified
  BY DEF ReceiverInv, Verified, Valid, IssuerAccepted, SignedBy, OnlyVerified
<1> QED BY <1>1, ReceiverBegins, ReceiverStep, PTL DEF RiscSpec
=============================================================================
