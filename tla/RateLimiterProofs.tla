------------------------- MODULE RateLimiterProofs -------------------------
(***************************************************************************)
(* Theorems about RateLimiter for any callers, limit, burst and window:    *)
(* types, how many requests a window lets through, and who is denied.      *)
(***************************************************************************)
EXTENDS RateLimiter, FiniteSetTheorems, TLAPS

Entries == [key : Keys, at : 0 .. Horizon, what : Outcomes]
Counted == {"allowed", "denied", "unseen"}

\* Between, of any history.
EntriesOf(h, k, i, j, what) == {m \in i .. j : h[m].key = k /\ h[m].what \in what}

\* Entries are made in the order of their times.
InOrder ==
  \A i \in 1 .. Len(history) :
    /\ history[i].at <= now
    /\ \A j \in i .. Len(history) : history[i].at <= history[j].at

\* A counter that has counted since position i, less than Window ago and with its
\* key not evicted, has counted all of it and will outlive that window.
CountsWindow ==
  \A k \in Keys : \A i \in 1 .. Len(history) :
    /\ now - history[i].at < Window
    /\ EntriesOf(history, k, i, Len(history), {"evicted"}) = {}
    /\ EntriesOf(history, k, i, Len(history), Counted) # {}
    => /\ Cardinality(EntriesOf(history, k, i, Len(history), Counted)) <= count[k]
       /\ history[i].at + Window <= dead[k]

\* The entries of k from i on are at least the c that its counter says, each less
\* than Window before a later one, and the last of them, l, keeps the key alive
\* until d.
ChainTo(h, c, d, k, i, l) ==
  LET chain == EntriesOf(h, k, i, Len(h), Counted) IN
  /\ l \in chain
  /\ c <= Cardinality(chain)
  /\ d <= h[l].at + Window
  /\ \A m \in chain \ {l} : \E n \in chain : n > m /\ h[n].at - h[m].at < Window

\* A counter that is alive has such a chain.
CountsChain ==
  \A k \in Keys : now < dead[k] =>
    \E i \in 1 .. Len(history) : \E l \in 1 .. Len(history) :
      ChainTo(history, count[k], dead[k], k, i, l)

\* AllowedPerWindow and DeniedOnlyWhenBusy, of any history.
AllowedIn(h) ==
  \A k \in Keys : \A i \in 1 .. Len(h) : \A j \in i .. Len(h) :
    /\ h[j].at - h[i].at < Window
    /\ EntriesOf(h, k, i, j, {"evicted"}) = {}
    => Cardinality(EntriesOf(h, k, i, j, {"allowed"})) <= Limit + Burst
DeniedIn(h) ==
  \A j \in 1 .. Len(h) : h[j].what = "denied" =>
    \E i \in 1 .. j :
      LET chain == EntriesOf(h, h[j].key, i, j, Counted) IN
      /\ Cardinality(chain) > Limit + Burst
      /\ \A m \in chain \ {j} : \E n \in chain : n > m /\ h[n].at - h[m].at < Window

LimiterInv ==
  TypeOK /\ InOrder /\ CountsWindow /\ CountsChain /\ AllowedIn(history) /\ DeniedIn(history)

-----------------------------------------------------------------------------
\* The entries between two positions are finitely many, and fewer of fewer kinds.
LEMMA EntriesFinite ==
  ASSUME NEW h, NEW k, NEW i \in Int, NEW j \in Int, NEW S, NEW T \in SUBSET S
  PROVE  /\ IsFiniteSet(EntriesOf(h, k, i, j, S))
         /\ Cardinality(EntriesOf(h, k, i, j, S)) \in Nat
         /\ Cardinality(EntriesOf(h, k, i, j, T)) <= Cardinality(EntriesOf(h, k, i, j, S))
<1>1. IsFiniteSet(i .. j)
  BY FS_Interval
<1>2. EntriesOf(h, k, i, j, S) \in SUBSET (i .. j)
  BY DEF EntriesOf
<1>3. IsFiniteSet(EntriesOf(h, k, i, j, S))
  BY <1>1, <1>2, FS_Subset
<1>4. EntriesOf(h, k, i, j, T) \in SUBSET EntriesOf(h, k, i, j, S)
  BY DEF EntriesOf
<1> QED BY <1>3, <1>4, FS_Subset, FS_CardinalityType

\* What an entry that is added changes in the entries between two positions:
\* nothing before it, and up to it that one is added.
LEMMA EntriesAppend ==
  ASSUME NEW h \in Seq(Entries), NEW e \in Entries
  PROVE  /\ Append(h, e) \in Seq(Entries)
         /\ Len(Append(h, e)) = Len(h) + 1 /\ Append(h, e)[Len(h) + 1] = e
         /\ \A m \in 1 .. Len(h) : Append(h, e)[m] = h[m]
         /\ \A k, S : \A i \in 1 .. Len(h) : \A j \in i .. Len(h) :
              EntriesOf(Append(h, e), k, i, j, S) = EntriesOf(h, k, i, j, S)
         /\ \A k, S : \A i \in 1 .. Len(h) + 1 :
              EntriesOf(Append(h, e), k, i, Len(h) + 1, S) =
                EntriesOf(h, k, i, Len(h), S)
                  \cup (IF e.key = k /\ e.what \in S THEN {Len(h) + 1} ELSE {})
<1> DEFINE g == Append(h, e)
<1>1. /\ g \in Seq(Entries) /\ Len(g) = Len(h) + 1 /\ g[Len(h) + 1] = e
      /\ \A m \in 1 .. Len(h) : g[m] = h[m]
  OBVIOUS
<1>2. Len(h) \in Nat
  OBVIOUS
<1> HIDE DEF g
<1>3. ASSUME NEW k, NEW S, NEW i \in 1 .. Len(h), NEW j \in i .. Len(h)
      PROVE  EntriesOf(g, k, i, j, S) = EntriesOf(h, k, i, j, S)
  <2>1. \A m \in i .. j : g[m] = h[m]
    BY <1>1, <1>2
  <2> QED BY <2>1 DEF EntriesOf
<1>4. ASSUME NEW k, NEW S, NEW i \in 1 .. Len(h) + 1
      PROVE  EntriesOf(g, k, i, Len(h) + 1, S) =
               EntriesOf(h, k, i, Len(h), S)
                 \cup (IF e.key = k /\ e.what \in S THEN {Len(h) + 1} ELSE {})
  <2>1. i .. Len(h) + 1 = (i .. Len(h)) \cup {Len(h) + 1}
    BY <1>2
  <2>2. \A m \in i .. Len(h) : g[m] = h[m]
    BY <1>1, <1>2
  <2> QED BY <1>1, <2>1, <2>2 DEF EntriesOf
<1> QED BY <1>1, <1>3, <1>4 DEF g

-----------------------------------------------------------------------------
LEMMA TypeInit == Init => TypeOK
<1> SUFFICES ASSUME Init PROVE TypeOK
  OBVIOUS
<1>1. now \in 0 .. Horizon /\ count \in [Keys -> Nat] /\ dead \in [Keys -> 0 .. Horizon + Window]
  BY LimiterAssumption DEF Init
<1>2. limiting \in [Instances -> BOOLEAN]
  BY DEF Init
<1>3. history \in Seq([key : Keys, at : 0 .. Horizon, what : Outcomes])
  BY DEF Init
<1> QED BY <1>1, <1>2, <1>3 DEF Init, TypeOK

\* A request that is counted keeps the types of the counters and of the history.
LEMMA CountType ==
  ASSUME TypeOK, NEW k \in Keys, Count(k)
  PROVE  count' \in [Keys -> Nat] /\ dead' \in [Keys -> 0 .. Horizon + Window]
BY LimiterAssumption DEF TypeOK, Count

LEMMA LogType ==
  ASSUME TypeOK, NEW k \in Keys, NEW what \in Outcomes, Log(k, what)
  PROVE  history' \in Seq(Entries)
<1>1. [key |-> k, at |-> now, what |-> what] \in Entries /\ history \in Seq(Entries)
  BY DEF TypeOK, Entries
<1> QED BY <1>1, EntriesAppend DEF Log

\* Every step keeps the types.
LEMMA TypeStep == TypeOK /\ [Next]_vars => TypeOK'
<1> SUFFICES ASSUME TypeOK, [Next]_vars PROVE TypeOK'
  OBVIOUS
<1> USE DEF TypeOK
<1>0. \A c \in Callers : keyFor(c) \in Keys
  BY DEF Keys
<1>1. ASSUME NEW i \in Instances, Boot(i) PROVE TypeOK'
  BY <1>1 DEF Boot
<1>2. ASSUME NEW i \in Instances, NEW c \in Callers, Allow(i, c) PROVE TypeOK'
  <2>1. history' \in Seq(Entries)
    BY <1>0, <1>2, LogType DEF Allow, Outcomes
  <2> QED BY <1>0, <1>2, <2>1, CountType DEF Allow, Entries
<1>3. ASSUME NEW i \in Instances, NEW c \in Callers, Deny(i, c) PROVE TypeOK'
  <2>1. history' \in Seq(Entries)
    BY <1>0, <1>3, LogType DEF Deny, Outcomes
  <2> QED BY <1>0, <1>3, <2>1, CountType DEF Deny, Entries
<1>4. ASSUME NEW i \in Instances, NEW c \in Callers, AllowUnseen(i, c) PROVE TypeOK'
  <2>1. history' \in Seq(Entries)
    BY <1>0, <1>4, LogType DEF AllowUnseen, Outcomes
  <2> QED BY <1>0, <1>4, <2>1, CountType DEF AllowUnseen, Entries
<1>5. ASSUME NEW i \in Instances, NEW c \in Callers, AllowUncounted(i, c) PROVE TypeOK'
  BY <1>5 DEF AllowUncounted
<1>6. ASSUME NEW k \in Keys, Evict(k) PROVE TypeOK'
  <2>1. history' \in Seq(Entries)
    BY <1>6, LogType DEF Evict, Outcomes
  <2>2. dead' \in [Keys -> 0 .. Horizon + Window]
    BY <1>6, LimiterAssumption DEF Evict
  <2> QED BY <1>6, <2>1, <2>2 DEF Evict, Entries
<1>7. CASE Tick
  BY <1>7, LimiterAssumption DEF Tick
<1>8. CASE UNCHANGED vars
  BY <1>8 DEF vars
<1> QED BY <1>1, <1>2, <1>3, <1>4, <1>5, <1>6, <1>7, <1>8 DEF Next

\* However requests, evictions and boots interleave, the variables keep their
\* types.
THEOREM LimiterTypeCorrect == Spec => []TypeOK
<1> QED BY TypeInit, TypeStep, PTL DEF Spec

-----------------------------------------------------------------------------
\* A request of key k is counted, and told what the count says.
CountedAs(k, what) ==
  /\ Count(k) /\ Log(k, what) /\ UNCHANGED now
  /\ what = "allowed" => count'[k] <= Limit + Burst
  /\ what = "denied" => count'[k] > Limit + Burst

Quiet == UNCHANGED <<count, dead, history>> /\ now' >= now

\* A step counts a request, evicts a key, or leaves the counters alone.
LEMMA StepKinds ==
  ASSUME TypeOK, [Next]_vars
  PROVE  \/ \E k \in Keys : \E what \in Counted : CountedAs(k, what)
         \/ \E k \in Keys : Evict(k)
         \/ Quiet
<1>0. \A c \in Callers : keyFor(c) \in Keys
  BY DEF Keys
<1>1. now \in Int
  BY DEF TypeOK
<1>2. ASSUME NEW i \in Instances, NEW c \in Callers, Allow(i, c)
      PROVE  CountedAs(keyFor(c), "allowed")
  BY <1>2 DEF Allow, CountedAs
<1>3. ASSUME NEW i \in Instances, NEW c \in Callers, Deny(i, c)
      PROVE  CountedAs(keyFor(c), "denied")
  BY <1>3 DEF Deny, CountedAs
<1>4. ASSUME NEW i \in Instances, NEW c \in Callers, AllowUnseen(i, c)
      PROVE  CountedAs(keyFor(c), "unseen")
  BY <1>4 DEF AllowUnseen, CountedAs
<1>5. ASSUME NEW i \in Instances, NEW c \in Callers, AllowUncounted(i, c) PROVE Quiet
  BY <1>1, <1>5 DEF AllowUncounted, Quiet
<1>6. ASSUME NEW i \in Instances, Boot(i) PROVE Quiet
  BY <1>1, <1>6 DEF Boot, Quiet
<1>7. Tick \/ UNCHANGED vars => Quiet
  BY <1>1 DEF Tick, vars, Quiet
<1>8. Counted = {"allowed", "denied", "unseen"}
  BY DEF Counted
<1> QED BY <1>0, <1>2, <1>3, <1>4, <1>5, <1>6, <1>7, <1>8 DEF Next

\* An entry that is logged, and what it adds to the entries of each key.
LEMMA Logged ==
  ASSUME TypeOK, NEW k \in Keys, NEW what \in Outcomes, Log(k, what)
  PROVE  /\ Len(history) \in Nat /\ Len(history') = Len(history) + 1
         /\ history'[Len(history) + 1] = [key |-> k, at |-> now, what |-> what]
         /\ \A m \in 1 .. Len(history) : history'[m] = history[m]
         /\ \A q, S : \A i \in 1 .. Len(history) : \A j \in i .. Len(history) :
              EntriesOf(history', q, i, j, S) = EntriesOf(history, q, i, j, S)
         /\ \A q, S : \A i \in 1 .. Len(history) + 1 :
              EntriesOf(history', q, i, Len(history) + 1, S) =
                EntriesOf(history, q, i, Len(history), S)
                  \cup (IF k = q /\ what \in S THEN {Len(history) + 1} ELSE {})
<1> DEFINE e == [key |-> k, at |-> now, what |-> what]
<1>1. e \in Entries /\ history \in Seq(Entries) /\ e.key = k /\ e.what = what
  BY DEF TypeOK, Entries
<1>2. history' = Append(history, e)
  BY DEF Log
<1>3. Len(history) \in Nat
  BY <1>1
<1> HIDE DEF e
<1>4. e = [key |-> k, at |-> now, what |-> what]
  BY DEF e
<1>5. /\ Len(Append(history, e)) = Len(history) + 1 /\ Append(history, e)[Len(history) + 1] = e
      /\ \A m \in 1 .. Len(history) : Append(history, e)[m] = history[m]
      /\ \A q, S : \A i \in 1 .. Len(history) : \A j \in i .. Len(history) :
           EntriesOf(Append(history, e), q, i, j, S) = EntriesOf(history, q, i, j, S)
      /\ \A q, S : \A i \in 1 .. Len(history) + 1 :
           EntriesOf(Append(history, e), q, i, Len(history) + 1, S) =
             EntriesOf(history, q, i, Len(history), S)
               \cup (IF e.key = q /\ e.what \in S THEN {Len(history) + 1} ELSE {})
  BY <1>1, EntriesAppend
<1> QED BY <1>1, <1>2, <1>3, <1>4, <1>5

\* Entries of a history, and a counted one, are of an outcome.
LEMMA EntryTypes ==
  ASSUME TypeOK
  PROVE  /\ now \in Int /\ Len(history) \in Nat
         /\ \A i \in 1 .. Len(history) :
              history[i].at \in Int /\ history[i].key \in Keys /\ history[i].what \in Outcomes
         /\ Counted \subseteq Outcomes
         /\ Limit \in Nat /\ Burst \in Nat /\ Window \in Nat /\ Window # 0
<1>1. history \in Seq(Entries)
  BY DEF TypeOK, Entries
<1>2. \A i \in 1 .. Len(history) : history[i] \in Entries
  BY <1>1
<1>3. \A x \in Entries : x.at \in Int /\ x.key \in Keys /\ x.what \in Outcomes
  BY LimiterAssumption DEF Entries
<1> QED BY <1>1, <1>2, <1>3, LimiterAssumption DEF TypeOK, Counted, Outcomes

LEMMA OrderStep == TypeOK /\ InOrder /\ [Next]_vars => InOrder'
<1> SUFFICES ASSUME TypeOK, InOrder, [Next]_vars PROVE InOrder'
  OBVIOUS
<1> USE EntryTypes
<1>1. ASSUME NEW k \in Keys, NEW what \in Outcomes, Log(k, what), UNCHANGED now PROVE InOrder'
  <2>1. /\ Len(history') = Len(history) + 1
        /\ history'[Len(history) + 1].at = now
        /\ \A m \in 1 .. Len(history) : history'[m] = history[m]
    <3>1. /\ Len(history') = Len(history) + 1
          /\ history'[Len(history) + 1] = [key |-> k, at |-> now, what |-> what]
          /\ \A m \in 1 .. Len(history) : history'[m] = history[m]
      BY <1>1, Logged
    <3> QED BY <3>1
  <2>2. \A i \in 1 .. Len(history') : i \in 1 .. Len(history) \/ i = Len(history) + 1
    BY <2>1
  <2> QED BY <1>1, <2>1, <2>2 DEF InOrder
<1>2. ASSUME NEW k \in Keys, NEW what \in Counted, CountedAs(k, what) PROVE InOrder'
  BY <1>1, <1>2 DEF CountedAs
<1>3. ASSUME NEW k \in Keys, Evict(k) PROVE InOrder'
  BY <1>1, <1>3 DEF Evict, Outcomes
<1>4. CASE Quiet
  <2>1. now' \in Int
    BY TypeStep DEF TypeOK
  <2> QED BY <1>4, <2>1 DEF Quiet, InOrder
<1> QED BY <1>2, <1>3, <1>4, StepKinds

\* One more entry is one more entry.
LEMMA OneMore ==
  ASSUME NEW h, NEW k, NEW i \in Int, NEW n \in Int, NEW S
  PROVE  Cardinality(EntriesOf(h, k, i, n, S) \cup {n + 1}) = Cardinality(EntriesOf(h, k, i, n, S)) + 1
<1>1. n + 1 \notin EntriesOf(h, k, i, n, S)
  BY DEF EntriesOf
<1> QED BY <1>1, EntriesFinite, FS_AddElement

\* A counter that starts anew in a window has counted nothing in it before.
LEMMA WindowStep == LimiterInv /\ [Next]_vars => CountsWindow'
<1> SUFFICES ASSUME TypeOK, InOrder, CountsWindow, [Next]_vars,
                    NEW q \in Keys, NEW i \in 1 .. Len(history'),
                    now' - history'[i].at < Window,
                    EntriesOf(history', q, i, Len(history'), {"evicted"}) = {},
                    EntriesOf(history', q, i, Len(history'), Counted) # {}
             PROVE  /\ Cardinality(EntriesOf(history', q, i, Len(history'), Counted)) <= count'[q]
                    /\ history'[i].at + Window <= dead'[q]
  BY DEF LimiterInv, CountsWindow
<1> DEFINE n == Len(history)
           old == EntriesOf(history, q, i, n, Counted)
           new == EntriesOf(history', q, i, n + 1, Counted)
<1> USE EntryTypes
<1>0. /\ count \in [Keys -> Nat] /\ dead \in [Keys -> 0 .. Horizon + Window] /\ now' \in Int
      /\ dead[q] \in Int /\ dead'[q] \in Int /\ count[q] \in Nat /\ count'[q] \in Nat
  <2>1. TypeOK /\ TypeOK'
    BY TypeStep
  <2>2. dead[q] \in 0 .. Horizon + Window /\ dead'[q] \in 0 .. Horizon + Window
    BY <2>1 DEF TypeOK
  <2>3. count[q] \in Nat /\ count'[q] \in Nat /\ now' \in 0 .. Horizon
    BY <2>1 DEF TypeOK
  <2>4. count \in [Keys -> Nat] /\ dead \in [Keys -> 0 .. Horizon + Window]
    BY DEF TypeOK
  <2> QED BY <2>2, <2>3, <2>4, LimiterAssumption
<1>1. ASSUME NEW k \in Keys, NEW what \in Outcomes, Log(k, what), UNCHANGED now
      PROVE  /\ Len(history') = n + 1 /\ i \in 1 .. n + 1
             /\ EntriesOf(history, q, i, n, {"evicted"}) = {}
             /\ ~ (k = q /\ what = "evicted")
             /\ history'[i].at \in Int /\ history'[i].at <= now
             /\ i \in 1 .. n => history'[i] = history[i]
             /\ new = old \cup (IF k = q /\ what \in Counted THEN {n + 1} ELSE {})
             /\ i = n + 1 => old = {}
  <2>1. Len(history') = n + 1 /\ i \in 1 .. n + 1
    BY <1>1, Logged
  <2>2. \A S : EntriesOf(history', q, i, n + 1, S) =
                 EntriesOf(history, q, i, n, S) \cup (IF k = q /\ what \in S THEN {n + 1} ELSE {})
    <3>1. \A r, S : \A j \in 1 .. n + 1 :
            EntriesOf(history', r, j, n + 1, S) =
              EntriesOf(history, r, j, n, S) \cup (IF k = r /\ what \in S THEN {n + 1} ELSE {})
      BY <1>1, Logged
    <3> QED BY <2>1, <3>1, Zenon
  <2>7. EntriesOf(history', q, i, n + 1, {"evicted"}) = {}
    BY <2>1
  <2>8. EntriesOf(history, q, i, n, {"evicted"}) = {} /\ ~ (k = q /\ what = "evicted")
    BY <2>2, <2>7
  <2>4. i \in 1 .. n => history'[i] = history[i]
    BY <1>1, Logged
  <2>3. history'[i].at \in Int /\ history'[i].at <= now
    <3>1. i = n + 1 => history'[i] = [key |-> k, at |-> now, what |-> what]
      BY <1>1, Logged
    <3> QED BY <2>1, <2>4, <3>1 DEF InOrder
  <2>5. new = old \cup (IF k = q /\ what \in Counted THEN {n + 1} ELSE {})
    BY <2>2
  <2>6. i = n + 1 => old = {}
    BY DEF EntriesOf
  <2> QED BY <2>1, <2>3, <2>4, <2>5, <2>6, <2>8
<1>2. ASSUME old # {}, i \in 1 .. n, now - history[i].at < Window,
             EntriesOf(history, q, i, n, {"evicted"}) = {}
      PROVE  Cardinality(old) <= count[q] /\ history[i].at + Window <= dead[q]
  BY <1>2 DEF CountsWindow
<1>3. ASSUME NEW k \in Keys, NEW what \in Counted, CountedAs(k, what)
      PROVE  Cardinality(new) <= count'[q] /\ history'[i].at + Window <= dead'[q]
  <2>1. Count(k) /\ Log(k, what) /\ UNCHANGED now /\ what \in Outcomes
    BY <1>3 DEF CountedAs
  <2>2. /\ i \in 1 .. n + 1 /\ history'[i].at \in Int /\ history'[i].at <= now
        /\ EntriesOf(history, q, i, n, {"evicted"}) = {}
        /\ i \in 1 .. n => history'[i] = history[i]
        /\ new = old \cup (IF k = q THEN {n + 1} ELSE {})
        /\ i = n + 1 => old = {}
    BY <1>1, <2>1
  <2>3. Cardinality(old) \in Nat /\ Cardinality(old \cup {n + 1}) = Cardinality(old) + 1
    BY <2>2, OneMore, EntriesFinite
  <2>4. CASE k = q /\ old = {}
    <3>1. Cardinality(new) = 1
      BY <2>2, <2>4, FS_Singleton
    <3>2. count'[q] >= 1 /\ dead'[q] = now + Window
      BY <1>0, <2>1, <2>4 DEF Count
    <3> QED BY <1>0, <2>1, <2>2, <3>1, <3>2
  <2>5. CASE k = q /\ old # {}
    <3>1. i \in 1 .. n /\ history'[i] = history[i] /\ now - history[i].at < Window
      BY <2>1, <2>2, <2>5
    <3>2. Cardinality(old) <= count[q] /\ history[i].at + Window <= dead[q]
      BY <1>2, <2>2, <2>5, <3>1
    <3>3. count'[q] = count[q] + 1 /\ dead'[q] = now + Window
      BY <1>0, <2>1, <2>5, <3>1, <3>2 DEF Count
    <3>4. new = old \cup {n + 1}
      BY <2>2, <2>5
    <3>5. Cardinality(new) = Cardinality(old) + 1
      BY <2>3, <3>4
    <3>6. Cardinality(new) <= count'[q]
      BY <1>0, <2>3, <3>2, <3>3, <3>5
    <3> QED BY <2>2, <3>3, <3>6
  <2>6. CASE k # q
    <3>1. new = old /\ old # {}
      BY <1>1, <2>1, <2>2, <2>6
    <3>2. i \in 1 .. n /\ history'[i] = history[i] /\ now - history[i].at < Window
      BY <2>1, <2>2, <3>1
    <3>3. count'[q] = count[q] /\ dead'[q] = dead[q]
      BY <1>0, <2>1, <2>6 DEF Count
    <3> QED BY <1>2, <2>2, <3>1, <3>2, <3>3
  <2> QED BY <2>4, <2>5, <2>6
<1>4. ASSUME NEW k \in Keys, Evict(k)
      PROVE  Cardinality(new) <= count'[q] /\ history'[i].at + Window <= dead'[q]
  <2>1. Log(k, "evicted") /\ "evicted" \in Outcomes /\ UNCHANGED now /\ "evicted" \notin Counted
    BY <1>4 DEF Evict, Outcomes, Counted
  <2>2. /\ i \in 1 .. n + 1 /\ k # q
        /\ EntriesOf(history, q, i, n, {"evicted"}) = {}
        /\ i \in 1 .. n => history'[i] = history[i]
        /\ new = old
        /\ i = n + 1 => old = {}
        /\ Len(history') = n + 1
    BY <1>1, <2>1
  <2>3. i \in 1 .. n /\ history'[i] = history[i] /\ now - history[i].at < Window /\ old # {}
    BY <2>1, <2>2
  <2>4. count'[q] = count[q] /\ dead'[q] = dead[q]
    BY <1>0, <1>4, <2>2 DEF Evict
  <2> QED BY <1>2, <2>2, <2>3, <2>4
<1>5. CASE Quiet
  <2>1. history' = history /\ i \in 1 .. n /\ now - history[i].at < Window
    BY <1>0, <1>5 DEF Quiet
  <2> QED BY <1>2, <1>5, <2>1 DEF Quiet
<1>6. ASSUME NEW k \in Keys, NEW what \in Outcomes, Log(k, what) PROVE Len(history') = n + 1
  BY <1>6, Logged
<1> QED BY <1>3, <1>4, <1>5, <1>6, StepKinds DEF CountedAs, Evict, Outcomes

\* A window that reaches up to a request that is let through has no more of them
\* than the counter has counted.
LEMMA AllowedStep == LimiterInv /\ [Next]_vars => AllowedIn(history')
<1> SUFFICES ASSUME LimiterInv, [Next]_vars,
                    NEW q \in Keys, NEW i \in 1 .. Len(history'), NEW j \in i .. Len(history'),
                    history'[j].at - history'[i].at < Window,
                    EntriesOf(history', q, i, j, {"evicted"}) = {}
             PROVE  Cardinality(EntriesOf(history', q, i, j, {"allowed"})) <= Limit + Burst
  BY DEF AllowedIn
<1> DEFINE n == Len(history)
<1>0. TypeOK /\ InOrder /\ AllowedIn(history) /\ CountsWindow'
  BY WindowStep DEF LimiterInv
<1> USE EntryTypes
<1>a. count'[q] \in Nat
  BY <1>0, TypeStep DEF TypeOK
<1>1. ASSUME NEW k \in Keys, NEW what \in Outcomes, Log(k, what), UNCHANGED now,
             k = q /\ what = "allowed" => count'[q] <= Limit + Burst
      PROVE  Cardinality(EntriesOf(history', q, i, j, {"allowed"})) <= Limit + Burst
  <2>1. /\ Len(history') = n + 1 /\ i \in 1 .. n + 1 /\ j \in 1 .. n + 1 /\ i <= j
        /\ history'[n + 1] = [key |-> k, at |-> now, what |-> what]
        /\ \A m \in 1 .. n : history'[m] = history[m]
    BY <1>0, <1>1, Logged
  <2>2. \A S : EntriesOf(history', q, i, n + 1, S) =
                 EntriesOf(history, q, i, n, S) \cup (IF k = q /\ what \in S THEN {n + 1} ELSE {})
    <3>1. \A r, S : \A m \in 1 .. n + 1 :
            EntriesOf(history', r, m, n + 1, S) =
              EntriesOf(history, r, m, n, S) \cup (IF k = r /\ what \in S THEN {n + 1} ELSE {})
      BY <1>0, <1>1, Logged
    <3> QED BY <2>1, <3>1, Zenon
  <2>3. CASE j # n + 1
    <3>1. i \in 1 .. n /\ j \in i .. n
      BY <2>1, <2>3
    <3>2. \A S : EntriesOf(history', q, i, j, S) = EntriesOf(history, q, i, j, S)
      <4>1. \A r, S : \A m \in 1 .. n : \A o \in m .. n :
              EntriesOf(history', r, m, o, S) = EntriesOf(history, r, m, o, S)
        BY <1>0, <1>1, Logged
      <4> QED BY <3>1, <4>1, Zenon
    <3>3. history'[i] = history[i] /\ history'[j] = history[j]
      BY <2>1, <3>1
    <3> QED BY <1>0, <3>1, <3>2, <3>3 DEF AllowedIn
  <2>4. CASE j = n + 1 /\ k = q /\ what = "allowed"
    <3>1. n + 1 \in EntriesOf(history', q, i, n + 1, Counted)
      BY <2>2, <2>4 DEF Counted
    <3>2. now' - history'[i].at < Window
      BY <1>1, <2>1, <2>4
    <3>3. Cardinality(EntriesOf(history', q, i, n + 1, Counted)) <= count'[q]
      <4>1. i \in 1 .. Len(history') /\ Len(history') = n + 1
        BY <2>1
      <4>2. EntriesOf(history', q, i, Len(history'), {"evicted"}) = {}
        BY <2>4, <4>1
      <4>3. EntriesOf(history', q, i, Len(history'), Counted) # {}
        BY <3>1, <4>1
      <4>4. Cardinality(EntriesOf(history', q, i, Len(history'), Counted)) <= count'[q]
        BY <1>0, <3>2, <4>2, <4>3 DEF CountsWindow
      <4> QED BY <4>1, <4>4
    <3>4. {"allowed"} \in SUBSET Counted
      BY DEF Counted
    <3>5. /\ Cardinality(EntriesOf(history', q, i, n + 1, Counted)) \in Nat
          /\ Cardinality(EntriesOf(history', q, i, n + 1, {"allowed"}))
               <= Cardinality(EntriesOf(history', q, i, n + 1, Counted))
      BY <1>0, <2>1, <3>4, EntriesFinite
    <3>6. Cardinality(EntriesOf(history', q, i, n + 1, {"allowed"})) \in Nat
      BY <1>0, <2>1, EntriesFinite
    <3>7. count'[q] <= Limit + Burst
      BY <1>1, <2>4
    <3> QED BY <1>0, <1>a, <2>4, <3>3, <3>5, <3>6, <3>7
  <2>5. CASE j = n + 1 /\ ~ (k = q /\ what = "allowed")
    <3>1. EntriesOf(history', q, i, n + 1, {"allowed"}) = EntriesOf(history, q, i, n, {"allowed"})
      BY <2>2, <2>5
    <3>2. EntriesOf(history, q, i, n, {"evicted"}) = {}
      BY <2>2, <2>5
    <3>3. CASE i = n + 1
      <4>1. EntriesOf(history, q, i, n, {"allowed"}) = {}
        BY <1>0, <3>3 DEF EntriesOf
      <4>2. Cardinality(EntriesOf(history', q, i, j, {"allowed"})) = 0
        BY <2>5, <3>1, <4>1, FS_EmptySet
      <4> QED BY <1>0, <4>2
    <3>4. CASE i # n + 1
      <4>1. i \in 1 .. n /\ n \in i .. n /\ history'[i] = history[i]
        BY <1>0, <2>1, <3>4
      <4>2. history[n].at - history[i].at < Window
        <5>1. history[n].at <= now /\ history[n].at \in Int /\ history[i].at \in Int
          BY <1>0, <4>1 DEF InOrder
        <5>2. now - history[i].at < Window
          BY <2>1, <2>5, <4>1
        <5> QED BY <1>0, <5>1, <5>2
      <4> QED BY <1>0, <2>5, <3>1, <3>2, <4>1, <4>2 DEF AllowedIn
    <3> QED BY <3>3, <3>4
  <2> QED BY <2>3, <2>4, <2>5
<1>2. ASSUME NEW k \in Keys, NEW what \in Counted, CountedAs(k, what)
      PROVE  Cardinality(EntriesOf(history', q, i, j, {"allowed"})) <= Limit + Burst
  BY <1>0, <1>1, <1>2 DEF CountedAs
<1>3. ASSUME NEW k \in Keys, Evict(k)
      PROVE  Cardinality(EntriesOf(history', q, i, j, {"allowed"})) <= Limit + Burst
  BY <1>1, <1>3 DEF Evict, Outcomes
<1>4. CASE Quiet
  BY <1>0, <1>4 DEF Quiet, AllowedIn
<1> QED BY <1>0, <1>2, <1>3, <1>4, StepKinds

\* A chain is a chain in any history that has the same entries up to its end.
LEMMA ChainKept ==
  ASSUME NEW h, NEW g, NEW c, NEW d, NEW k, NEW i \in Int, NEW l, Len(h) \in Nat, Len(g) \in Nat,
         EntriesOf(g, k, i, Len(g), Counted) = EntriesOf(h, k, i, Len(h), Counted),
         \A m \in 1 .. Len(h) : g[m] = h[m], 1 <= i,
         ChainTo(h, c, d, k, i, l)
  PROVE  ChainTo(g, c, d, k, i, l)
<1> DEFINE chain == EntriesOf(h, k, i, Len(h), Counted)
<1>1. \A m \in chain : g[m] = h[m]
  BY DEF EntriesOf
<1>2. chain = EntriesOf(g, k, i, Len(g), Counted)
  OBVIOUS
<1>3. /\ l \in chain /\ c <= Cardinality(chain) /\ d <= h[l].at + Window
      /\ \A m \in chain \ {l} : \E n \in chain : n > m /\ h[n].at - h[m].at < Window
  BY DEF ChainTo
<1> HIDE DEF chain
<1>4. /\ l \in chain /\ c <= Cardinality(chain) /\ d <= g[l].at + Window
      /\ \A m \in chain \ {l} : \E n \in chain : n > m /\ g[n].at - g[m].at < Window
  BY <1>1, <1>3
<1> QED BY <1>2, <1>4 DEF ChainTo

\* A request that is counted prolongs its key's chain or starts a new one.
LEMMA ChainStep == LimiterInv /\ [Next]_vars => CountsChain'
<1> SUFFICES ASSUME LimiterInv, [Next]_vars, NEW q \in Keys, now' < dead'[q]
             PROVE  \E i \in 1 .. Len(history') : \E l \in 1 .. Len(history') :
                      ChainTo(history', count'[q], dead'[q], q, i, l)
  BY DEF CountsChain
<1> DEFINE n == Len(history)
           Goal == \E i \in 1 .. Len(history') : \E l \in 1 .. Len(history') :
                     ChainTo(history', count'[q], dead'[q], q, i, l)
<1> HIDE DEF Goal
<1>0. TypeOK /\ CountsChain
  BY DEF LimiterInv
<1> USE EntryTypes
<1>a. /\ count \in [Keys -> Nat] /\ dead \in [Keys -> 0 .. Horizon + Window]
      /\ count[q] \in Nat /\ dead[q] \in Int
  <2>1. count \in [Keys -> Nat] /\ dead \in [Keys -> 0 .. Horizon + Window]
    BY <1>0 DEF TypeOK
  <2>2. dead[q] \in 0 .. Horizon + Window
    BY <2>1
  <2> QED BY <2>1, <2>2, LimiterAssumption
<1>1. ASSUME now < dead[q] PROVE \E i \in 1 .. n : \E l \in 1 .. n :
                                 ChainTo(history, count[q], dead[q], q, i, l)
  BY <1>0, <1>1 DEF CountsChain
<1>2. ASSUME NEW k \in Keys, NEW what \in Outcomes, Log(k, what), ~ (k = q /\ what \in Counted),
             now < dead[q], count'[q] = count[q], dead'[q] = dead[q]
      PROVE  Goal
  <2>1. PICK i \in 1 .. n, l \in 1 .. n : ChainTo(history, count[q], dead[q], q, i, l)
    BY <1>1, <1>2
  <2>2. Len(history') = n + 1 /\ \A m \in 1 .. n : history'[m] = history[m]
    BY <1>0, <1>2, Logged
  <2>3. EntriesOf(history', q, i, n + 1, Counted) = EntriesOf(history, q, i, n, Counted)
    <3>1. \A r, S : \A m \in 1 .. n + 1 :
            EntriesOf(history', r, m, n + 1, S) =
              EntriesOf(history, r, m, n, S) \cup (IF k = r /\ what \in S THEN {n + 1} ELSE {})
      BY <1>0, <1>2, Logged
    <3>2. i \in 1 .. n + 1
      BY <1>0
    <3>3. EntriesOf(history', q, i, n + 1, Counted) =
            EntriesOf(history, q, i, n, Counted) \cup (IF k = q /\ what \in Counted THEN {n + 1} ELSE {})
      BY <3>1, <3>2, Zenon
    <3> QED BY <1>2, <3>3
  <2>4. ChainTo(history', count[q], dead[q], q, i, l)
    BY <1>0, <2>1, <2>2, <2>3, ChainKept
  <2> QED BY <1>0, <1>2, <2>2, <2>4 DEF Goal
<1>3. ASSUME NEW k \in Keys, NEW what \in Counted, CountedAs(k, what) PROVE Goal
  <2>1. Count(k) /\ Log(k, what) /\ UNCHANGED now /\ what \in Outcomes
    BY <1>0, <1>3 DEF CountedAs
  <2>2. /\ Len(history') = n + 1 /\ history'[n + 1] = [key |-> k, at |-> now, what |-> what]
        /\ \A m \in 1 .. n : history'[m] = history[m]
    BY <1>0, <2>1, Logged
  <2>3. CASE k # q
    <3>1. count'[q] = count[q] /\ dead'[q] = dead[q]
      BY <1>a, <2>1, <2>3 DEF Count
    <3> QED BY <1>2, <2>1, <2>3, <3>1
  <2>4. ASSUME k = q, NEW i \in 1 .. n + 1
        PROVE  EntriesOf(history', q, i, n + 1, Counted)
                 = EntriesOf(history, q, i, n, Counted) \cup {n + 1}
    <3>1. \A r, S : \A m \in 1 .. n + 1 :
            EntriesOf(history', r, m, n + 1, S) =
              EntriesOf(history, r, m, n, S) \cup (IF k = r /\ what \in S THEN {n + 1} ELSE {})
      BY <1>0, <2>1, Logged
    <3> QED BY <2>4, <3>1
  <2>5. CASE k = q /\ now < dead[q]
    <3>1. PICK i \in 1 .. n, l \in 1 .. n : ChainTo(history, count[q], dead[q], q, i, l)
      BY <1>1, <2>5
    <3> DEFINE old == EntriesOf(history, q, i, n, Counted)
               new == EntriesOf(history', q, i, n + 1, Counted)
    <3>2. new = old \cup {n + 1}
      BY <1>0, <2>4, <2>5
    <3>3. count'[q] = count[q] + 1 /\ dead'[q] = now + Window
      BY <1>a, <2>1, <2>5 DEF Count
    <3>4. Cardinality(old) \in Nat /\ Cardinality(old \cup {n + 1}) = Cardinality(old) + 1
      BY <1>0, OneMore, EntriesFinite
    <3>5. count'[q] <= Cardinality(new)
      <4>1. count[q] <= Cardinality(old)
        BY <3>1 DEF ChainTo
      <4>2. Cardinality(new) = Cardinality(old) + 1
        BY <3>2, <3>4
      <4> QED BY <1>a, <3>3, <3>4, <4>1, <4>2
    <3>6. \A m \in old : m \in 1 .. n
      BY DEF EntriesOf
    <3>7. history'[n + 1].at = now /\ history[l].at \in Int /\ dead[q] <= history[l].at + Window
      BY <1>0, <2>2, <3>1 DEF ChainTo
    <3>8. ASSUME NEW m \in new \ {n + 1}
          PROVE  \E o \in new : o > m /\ history'[o].at - history'[m].at < Window
      <4>1. m \in old /\ m \in 1 .. n /\ history'[m] = history[m] /\ n + 1 \in new
        BY <2>2, <3>2, <3>6, <3>8
      <4>2. CASE m = l
        <5>1. history'[m].at = history[l].at /\ now < history[l].at + Window
          BY <1>0, <1>a, <2>5, <3>7, <4>1, <4>2
        <5>2. n + 1 > m /\ history'[n + 1].at - history'[m].at < Window
          BY <1>0, <3>7, <4>1, <5>1
        <5> QED BY <4>1, <5>2
      <4>3. CASE m # l
        <5>1. PICK o \in old : o > m /\ history[o].at - history[m].at < Window
          BY <3>1, <4>1, <4>3 DEF ChainTo
        <5> QED BY <2>2, <3>2, <3>6, <4>1, <5>1
      <4> QED BY <4>2, <4>3
    <3>9. ChainTo(history', count'[q], dead'[q], q, i, n + 1)
      <4>1. n + 1 \in new /\ dead'[q] <= history'[n + 1].at + Window
        BY <1>0, <3>2, <3>3, <3>7
      <4> QED BY <2>2, <3>5, <3>8, <4>1 DEF ChainTo
    <3> QED BY <1>0, <2>2, <3>9 DEF Goal
  <2>6. CASE k = q /\ ~ (now < dead[q])
    <3>1. EntriesOf(history, q, n + 1, n, Counted) = {}
      BY <1>0 DEF EntriesOf
    <3>2. EntriesOf(history', q, n + 1, n + 1, Counted) = {n + 1}
      BY <1>0, <2>4, <2>6, <3>1
    <3>3. count'[q] = 1 /\ dead'[q] = now + Window
      BY <1>a, <2>1, <2>6 DEF Count
    <3>4. dead'[q] <= history'[n + 1].at + Window
      BY <1>0, <2>2, <3>3
    <3>5. ChainTo(history', count'[q], dead'[q], q, n + 1, n + 1)
      <4> DEFINE new == EntriesOf(history', q, n + 1, Len(history'), Counted)
      <4>1. new = {n + 1}
        BY <2>2, <3>2
      <4>2. Cardinality(new) = 1
        BY <4>1, FS_Singleton
      <4>3. count'[q] <= Cardinality(new)
        BY <3>3, <4>2
      <4> HIDE DEF new
      <4>4. n + 1 \in new /\ \A m \in new \ {n + 1} : \E o \in new : o > m /\ history'[o].at - history'[m].at < Window
        BY <4>1
      <4> QED BY <3>4, <4>3, <4>4 DEF ChainTo, new
    <3> QED BY <1>0, <2>2, <3>5 DEF Goal
  <2> QED BY <2>3, <2>5, <2>6
<1>4. ASSUME NEW k \in Keys, Evict(k) PROVE Goal
  <2>1. Log(k, "evicted") /\ "evicted" \in Outcomes /\ UNCHANGED now /\ "evicted" \notin Counted
    BY <1>4 DEF Evict, Outcomes, Counted
  <2>2. k # q
    BY <1>a, <1>0, <1>4 DEF Evict
  <2>3. count'[q] = count[q] /\ dead'[q] = dead[q]
    BY <1>a, <1>4, <2>2 DEF Evict
  <2> QED BY <1>2, <2>1, <2>3
<1>5. CASE Quiet
  <2>1. now < dead[q] /\ UNCHANGED <<count, dead, history>>
    <3>1. now' \in Int
      BY <1>0, TypeStep DEF TypeOK
    <3> QED BY <1>0, <1>5, <1>a, <3>1 DEF Quiet
  <2> QED BY <1>1, <2>1 DEF Goal
<1> QED BY <1>0, <1>3, <1>4, <1>5, StepKinds DEF Goal

\* A request is denied at the end of its key's chain.
LEMMA DeniedStep == LimiterInv /\ [Next]_vars => DeniedIn(history')
<1> SUFFICES ASSUME LimiterInv, [Next]_vars, NEW j \in 1 .. Len(history'), history'[j].what = "denied"
             PROVE  \E i \in 1 .. j :
                      LET chain == EntriesOf(history', history'[j].key, i, j, Counted) IN
                      /\ Cardinality(chain) > Limit + Burst
                      /\ \A m \in chain \ {j} :
                           \E o \in chain : o > m /\ history'[o].at - history'[m].at < Window
  BY DEF DeniedIn
<1> DEFINE n == Len(history)
           Busy(q, i) ==
             /\ Cardinality(EntriesOf(history', q, i, j, Counted)) > Limit + Burst
             /\ \A m \in EntriesOf(history', q, i, j, Counted) \ {j} :
                  \E o \in EntriesOf(history', q, i, j, Counted) :
                    o > m /\ history'[o].at - history'[m].at < Window
           Goal == \E i \in 1 .. j : Busy(history'[j].key, i)
<1> SUFFICES Goal
  OBVIOUS
<1> HIDE DEF Goal
<1>0. TypeOK /\ DeniedIn(history) /\ CountsChain'
  BY ChainStep DEF LimiterInv
<1> USE EntryTypes
\* An entry that was there before is as busy as it was.
<1>1. ASSUME NEW k \in Keys, NEW what \in Outcomes, Log(k, what), j # n + 1 PROVE Goal
  <2>1. /\ Len(history') = n + 1 /\ j \in 1 .. n
        /\ \A m \in 1 .. n : history'[m] = history[m]
    <3>1. Len(history') = n + 1 /\ \A m \in 1 .. n : history'[m] = history[m]
      BY <1>0, <1>1, Logged
    <3> QED BY <1>0, <1>1, <3>1
  <2>2. history[j].what = "denied" /\ history'[j].key = history[j].key
    BY <2>1
  <2> DEFINE chain(i) == EntriesOf(history, history[j].key, i, j, Counted)
  <2>3. PICK i \in 1 .. j : /\ Cardinality(chain(i)) > Limit + Burst
                            /\ \A m \in chain(i) \ {j} :
                                 \E o \in chain(i) : o > m /\ history[o].at - history[m].at < Window
    BY <1>0, <2>1, <2>2 DEF DeniedIn
  <2>4. EntriesOf(history', history'[j].key, i, j, Counted) = chain(i)
    <3>1. \A r, S : \A m \in 1 .. n : \A o \in m .. n :
            EntriesOf(history', r, m, o, S) = EntriesOf(history, r, m, o, S)
      BY <1>0, <1>1, Logged
    <3>2. i \in 1 .. n /\ j \in i .. n
      BY <1>0, <2>1
    <3> QED BY <2>2, <3>1, <3>2, Zenon
  <2>5. \A m \in chain(i) : history'[m] = history[m]
    BY <1>0, <2>1 DEF EntriesOf
  <2> HIDE DEF chain
  <2>6. Busy(history'[j].key, i)
    BY <2>3, <2>4, <2>5
  <2> QED BY <2>6 DEF Goal
<1>2. ASSUME NEW k \in Keys, NEW what \in Counted, CountedAs(k, what) PROVE Goal
  <2>1. Count(k) /\ Log(k, what) /\ UNCHANGED now /\ what \in Outcomes
    BY <1>0, <1>2 DEF CountedAs
  <2>2. /\ Len(history') = n + 1 /\ history'[n + 1] = [key |-> k, at |-> now, what |-> what]
    BY <1>0, <2>1, Logged
  <2>3. CASE j # n + 1
    BY <1>1, <2>1, <2>3
  <2>4. CASE j = n + 1
    <3>1. what = "denied" /\ history'[j].key = k
      BY <2>2, <2>4
    <3>2. count'[k] > Limit + Burst /\ count'[k] \in Nat
      BY <1>0, <1>2, <3>1, CountType DEF CountedAs
    <3>3. now' < dead'[k]
      BY <1>0, <2>1 DEF Count, TypeOK
    <3>4. PICK i \in 1 .. n + 1, l \in 1 .. n + 1 :
            ChainTo(history', count'[k], dead'[k], k, i, l)
      <4>1. \E i \in 1 .. Len(history') : \E l \in 1 .. Len(history') :
              ChainTo(history', count'[k], dead'[k], k, i, l)
        BY <1>0, <3>3 DEF CountsChain
      <4> QED BY <2>2, <4>1
    <3> DEFINE chain == EntriesOf(history', k, i, n + 1, Counted)
    <3>5. /\ l \in chain /\ count'[k] <= Cardinality(chain)
          /\ \A m \in chain \ {l} : \E o \in chain : o > m /\ history'[o].at - history'[m].at < Window
      BY <2>2, <3>4 DEF ChainTo
    <3>6. n + 1 \in chain
      BY <1>0, <2>2, <3>4 DEF EntriesOf
    <3>7. \A m \in chain : m <= n + 1 /\ m \in Int
      BY <1>0 DEF EntriesOf
    <3>8. l = n + 1
      BY <1>0, <3>5, <3>6, <3>7
    <3>9. Cardinality(chain) > Limit + Burst
      <4>1. Cardinality(chain) \in Nat
        BY <1>0, EntriesFinite
      <4> QED BY <1>0, <3>2, <3>5, <4>1
    <3>10. Busy(history'[j].key, i)
      BY <2>4, <3>1, <3>5, <3>8, <3>9
    <3>11. i \in 1 .. j
      BY <2>4
    <3> QED BY <3>10, <3>11 DEF Goal
  <2> QED BY <2>3, <2>4
<1>3. ASSUME NEW k \in Keys, Evict(k) PROVE Goal
  <2>1. Log(k, "evicted") /\ "evicted" \in Outcomes
    BY <1>3 DEF Evict, Outcomes
  <2>2. history'[n + 1] = [key |-> k, at |-> now, what |-> "evicted"]
    BY <1>0, <2>1, Logged
  <2>3. j # n + 1
    BY <2>2
  <2> QED BY <1>1, <2>1, <2>3
<1>4. CASE Quiet
  <2>1. history' = history
    BY <1>4 DEF Quiet
  <2> QED BY <1>0, <2>1 DEF DeniedIn, Goal
<1> QED BY <1>0, <1>2, <1>3, <1>4, StepKinds

LEMMA LimiterInit == Init => LimiterInv
<1> SUFFICES ASSUME Init PROVE LimiterInv
  OBVIOUS
<1>1. TypeOK
  BY TypeInit
<1>2. Len(history) = 0 /\ now = 0 /\ dead = [k \in Keys |-> 0]
  BY DEF Init
<1>3. CountsChain
  BY <1>2 DEF CountsChain
<1> QED BY <1>1, <1>2, <1>3 DEF LimiterInv, InOrder, CountsWindow, AllowedIn, DeniedIn

LEMMA LimiterStep == LimiterInv /\ [Next]_vars => LimiterInv'
<1> SUFFICES ASSUME LimiterInv, [Next]_vars PROVE LimiterInv'
  OBVIOUS
<1>1. TypeOK' /\ InOrder'
  BY TypeStep, OrderStep DEF LimiterInv
<1>2. CountsWindow' /\ CountsChain'
  BY WindowStep, ChainStep
<1>3. AllowedIn(history') /\ DeniedIn(history')
  BY AllowedStep, DeniedStep
<1> QED BY <1>1, <1>2, <1>3 DEF LimiterInv

-----------------------------------------------------------------------------
\* No stretch of time shorter than Window sees more than Limit + Burst of a key's
\* requests let through by the counter, as long as Redis keeps the key: for any
\* callers, limit, burst, window and number of requests.
THEOREM WindowIsLimited == Spec => []AllowedPerWindow
<1>1. LimiterInv => AllowedPerWindow
  <2> SUFFICES ASSUME LimiterInv, NEW k \in Keys,
                      NEW i \in 1 .. Len(history), NEW j \in 1 .. Len(history),
                      i <= j, history[j].at - history[i].at < Window,
                      Between(k, i, j, {"evicted"}) = {}
               PROVE  Cardinality(Between(k, i, j, {"allowed"})) <= Limit + Burst
    BY DEF AllowedPerWindow
  <2>1. \A S : Between(k, i, j, S) = EntriesOf(history, k, i, j, S)
    BY DEF Between, EntriesOf
  <2>2. j \in i .. Len(history)
    BY EntryTypes DEF LimiterInv
  <2> QED BY <2>1, <2>2 DEF LimiterInv, AllowedIn
<1> QED BY <1>1, LimiterInit, LimiterStep, PTL DEF Spec

\* A request is denied only after an unbroken chain of Limit + Burst earlier ones
\* under the same key, each less than Window before the next.
THEOREM DenialsAreEarned == Spec => []DeniedOnlyWhenBusy
<1>1. LimiterInv => DeniedOnlyWhenBusy
  <2> SUFFICES ASSUME LimiterInv PROVE DeniedOnlyWhenBusy
    OBVIOUS
  <2>1. \A k, i, j : Between(k, i, j, {"allowed", "denied", "unseen"}) = EntriesOf(history, k, i, j, Counted)
    BY DEF Between, EntriesOf, Counted
  <2> QED BY <2>1 DEF LimiterInv, DeniedIn, DeniedOnlyWhenBusy
<1> QED BY <1>1, LimiterInit, LimiterStep, PTL DEF Spec
=============================================================================
