--------------------------- MODULE DevKeysProofs ---------------------------
(***************************************************************************)
(* Theorems about DevKeys for any number of senders and keys and a file of *)
(* any length: types, that a token fits, and what a failed start means.    *)
(***************************************************************************)
EXTENDS DevKeys, TLAPS

\* Who writes has a part left to write, and whoever is past "generate" has a key.
PartsLeft ==
  \A p \in Procs :
    /\ pc[p] = "write" => written[p] < Parts
    /\ pc[p] \in {"save", "write", "up"} => key[p] # NoKey

TypeInv == TypeOK /\ PartsLeft

Creating(p) == pc[p] \in {"generate", "save", "write"}

\* At most one process creates the file, and until it opens it there is none.
OneCreator ==
  /\ \A p, q \in Procs : Creating(p) /\ Creating(q) => p = q
  /\ \A p \in Procs : /\ pc[p] \in {"generate", "save"} => ~exists
                      /\ pc[p] = "write" => exists

\* What is being written is the writer's key so far, and nothing after it.
WrittenSoFar ==
  \A p \in Procs : pc[p] = "write" =>
    \A n \in 1 .. Parts : file[n] = IF n <= written[p] THEN key[p] ELSE NoKey

\* Whoever is up has the key in the file, and so has the receiver.
SameKey ==
  /\ \A p \in Procs : pc[p] = "up" => Holds(key[p])
  /\ trusted # NoKey => Holds(trusted)

\* A file that is there and not one key's is being written, or its writer was cut off.
BadFileExplained ==
  exists /\ ~Readable => cut \/ \E q \in Procs : pc[q] = "write"

KeysInv ==
  ~raced => /\ OneCreator /\ WrittenSoFar /\ SameKey /\ BadFileExplained
            /\ TokenFitsUnlessRaced

-----------------------------------------------------------------------------
LEMMA TypeInit == Init => TypeInv
<1> SUFFICES ASSUME Init PROVE TypeInv
  OBVIOUS
<1>1. exists \in BOOLEAN /\ raced \in BOOLEAN /\ cut \in BOOLEAN
  BY DEF Init
<1>2. file \in [1 .. Parts -> Keys \cup {NoKey}] /\ trusted \in Keys \cup {NoKey}
  BY DEF Init, Blank
<1>3. pc \in [Procs -> {"off", "load", "generate", "save", "write", "up"}]
  BY DEF Init
<1>4. key \in [Procs -> Keys \cup {NoKey}] /\ written \in [Procs -> 0 .. Parts]
  BY DevKeysAssumption DEF Init
<1>5. verdict \in [Senders -> {"none", "fits", "wrongKey", "noKey"}]
  BY DEF Init
<1>6. PartsLeft
  BY DEF Init, PartsLeft
<1> QED BY <1>1, <1>2, <1>3, <1>4, <1>5, <1>6 DEF TypeInv, TypeOK

\* Every step keeps the types and leaves a writer that goes on a part to write.
LEMMA TypeStep == TypeInv /\ [Next]_vars => TypeInv'
<1> SUFFICES ASSUME TypeInv, [Next]_vars PROVE TypeInv'
  OBVIOUS
<1> USE DevKeysAssumption DEF TypeInv, TypeOK, PartsLeft, Go
<1>1. ASSUME NEW p \in Procs, Start(p) PROVE TypeInv'
  BY <1>1 DEF Start
<1>2. ASSUME NEW p \in Procs, LoadFails(p) PROVE TypeInv'
  BY <1>2 DEF LoadFails
<1>3. ASSUME NEW p \in Procs, FindNone(p) PROVE TypeInv'
  BY <1>3 DEF FindNone
<1>4. ASSUME NEW p \in Procs, Generate(p) PROVE TypeInv'
  BY <1>4 DEF Generate
<1>5. ASSUME NEW p \in Procs, Open(p) PROVE TypeInv'
  BY <1>5 DEF Open, Blank
<1>6. ASSUME NEW p \in Procs, Write(p) PROVE TypeInv'
  <2>1. written[p] + 1 \in 1 .. Parts /\ written'[p] = written[p] + 1
    BY <1>6 DEF Write
  <2>2. file' \in [1 .. Parts -> Keys \cup {NoKey}]
    BY <1>6, <2>1 DEF Write
  <2>3. CASE written'[p] = Parts
    BY <1>6, <2>1, <2>2, <2>3 DEF Write
  <2>4. CASE written'[p] # Parts
    BY <1>6, <2>1, <2>2, <2>4 DEF Write
  <2> QED BY <2>3, <2>4
<1>7. ASSUME NEW p \in Procs, Stop(p) PROVE TypeInv'
  BY <1>7 DEF Stop
<1>8. ASSUME NEW p \in Procs, NEW k \in Keys, Load(p, k) PROVE TypeInv'
  BY <1>8 DEF Load
<1>9. CASE Refresh
  BY <1>9 DEF Refresh, Procs
<1>10. ASSUME NEW p \in Senders, Post(p) PROVE TypeInv'
  BY <1>10 DEF Post, Procs
<1>11. CASE UNCHANGED vars
  BY <1>11 DEF vars
<1> QED BY <1>1, <1>2, <1>3, <1>4, <1>5, <1>6, <1>7, <1>8, <1>9, <1>10, <1>11 DEF Next

\* DevKeys, all variables: they keep their types.
THEOREM DevKeysTypeCorrect == Spec => []TypeOK
<1>1. TypeInv => TypeOK
  BY DEF TypeInv
<1> QED BY <1>1, TypeInit, TypeStep, PTL DEF Spec

-----------------------------------------------------------------------------
\* Two keys that fill a file are one.
LEMMA OneKeyFits ==
  ASSUME TypeInv, NEW j, NEW k, Holds(j), Holds(k) PROVE j = k
<1>1. 1 \in 1 .. Parts
  BY DevKeysAssumption
<1> QED BY <1>1 DEF Holds

\* While somebody creates the file in an orderly way it is no key's.
LEMMA UnfinishedIsNoKeys ==
  ASSUME TypeInv, OneCreator, WrittenSoFar, NEW q \in Procs, Creating(q),
         NEW k, k # NoKey
  PROVE ~Holds(k)
<1>1. CASE pc[q] \in {"generate", "save"}
  BY <1>1 DEF OneCreator, Holds
<1>2. CASE pc[q] = "write"
  <2>1. Parts \in 1 .. Parts /\ ~(Parts <= written[q])
    BY <1>2, DevKeysAssumption DEF TypeInv, TypeOK, PartsLeft
  <2>2. file[Parts] = NoKey
    BY <1>2, <2>1 DEF WrittenSoFar
  <2> QED BY <2>1, <2>2 DEF Holds
<1> QED BY <1>1, <1>2 DEF Creating

\* So meanwhile nobody is up and the receiver has no key.
LEMMA NobodyIsUp ==
  ASSUME TypeInv, OneCreator, WrittenSoFar, SameKey, NEW q \in Procs, Creating(q)
  PROVE  trusted = NoKey /\ \A p \in Procs : pc[p] # "up"
<1>1. ASSUME trusted # NoKey PROVE FALSE
  BY <1>1, UnfinishedIsNoKeys DEF SameKey
<1>2. ASSUME NEW p \in Procs, pc[p] = "up" PROVE FALSE
  <2>1. key[p] # NoKey /\ Holds(key[p])
    BY <1>2 DEF TypeInv, PartsLeft, SameKey
  <2> QED BY <2>1, UnfinishedIsNoKeys
<1> QED BY <1>1, <1>2

-----------------------------------------------------------------------------
LEMMA KeysInit == Init => KeysInv
BY DevKeysAssumption
   DEF Init, KeysInv, OneCreator, Creating, WrittenSoFar, SameKey, BadFileExplained,
       TokenFitsUnlessRaced, Procs

\* A step that leaves the file alone and lets nobody begin to create it.
LEMMA FileUntouched ==
  ASSUME KeysInv, UNCHANGED <<exists, file, written, raced>>,
         \A p \in Procs : Creating(p)' => pc'[p] = pc[p] /\ key'[p] = key[p],
         ~raced /\ (\E p \in Procs : pc[p] = "write" /\ pc'[p] # "write") => cut',
         cut => cut',
         ~raced => SameKey' /\ TokenFitsUnlessRaced'
  PROVE  KeysInv'
<1> SUFFICES ASSUME ~raced' PROVE /\ OneCreator' /\ WrittenSoFar' /\ SameKey'
                                  /\ BadFileExplained' /\ TokenFitsUnlessRaced'
  BY DEF KeysInv
<1>1. ~raced /\ OneCreator /\ WrittenSoFar /\ BadFileExplained
  BY DEF KeysInv
<1>2. OneCreator'
  BY <1>1 DEF OneCreator, Creating
<1>3. WrittenSoFar'
  BY <1>1 DEF WrittenSoFar, Creating
<1>4. BadFileExplained'
  BY <1>1 DEF BadFileExplained, Readable, Holds
<1> QED BY <1>1, <1>2, <1>3, <1>4

LEMMA KeysStep == TypeInv /\ KeysInv /\ [Next]_vars => KeysInv'
<1> SUFFICES ASSUME TypeInv, KeysInv, [Next]_vars PROVE KeysInv'
  OBVIOUS
<1> USE DEF Go
<1>0. ASSUME ~raced
      PROVE  OneCreator /\ WrittenSoFar /\ SameKey /\ BadFileExplained /\ TokenFitsUnlessRaced
  BY <1>0 DEF KeysInv
<1>1. ASSUME NEW p \in Procs, Start(p) PROVE KeysInv'
  <2>1. ~raced => SameKey' /\ TokenFitsUnlessRaced'
    BY <1>0, <1>1 DEF Start, SameKey, Holds, TokenFitsUnlessRaced, TypeInv, TypeOK
  <2> QED BY <1>1, <2>1, FileUntouched DEF Start, Creating, TypeInv, TypeOK
<1>2. ASSUME NEW p \in Procs, LoadFails(p) PROVE KeysInv'
  <2>1. ~raced => SameKey' /\ TokenFitsUnlessRaced'
    BY <1>0, <1>2 DEF LoadFails, SameKey, Holds, TokenFitsUnlessRaced, TypeInv, TypeOK
  <2> QED BY <1>2, <2>1, FileUntouched DEF LoadFails, Creating, TypeInv, TypeOK
<1>3. ASSUME NEW p \in Procs, FindNone(p) PROVE KeysInv'
  <2> SUFFICES ASSUME ~raced' PROVE /\ OneCreator' /\ WrittenSoFar' /\ SameKey'
                                    /\ BadFileExplained' /\ TokenFitsUnlessRaced'
    BY DEF KeysInv
  <2>1. ~raced /\ ~exists /\ \A q \in Procs : pc[q] \notin {"generate", "save"}
    BY <1>3 DEF FindNone, TypeInv, TypeOK
  <2>2. \A q \in Procs : ~Creating(q)
    BY <1>0, <2>1 DEF OneCreator, Creating
  <2>3. pc' = [pc EXCEPT ![p] = "generate"] /\ UNCHANGED <<exists, file, key, written, trusted, verdict, cut>>
    BY <1>3 DEF FindNone
  <2>4. OneCreator'
    BY <2>1, <2>2, <2>3 DEF OneCreator, Creating, TypeInv, TypeOK
  <2>5. WrittenSoFar' /\ BadFileExplained'
    BY <1>0, <2>1, <2>2, <2>3 DEF WrittenSoFar, Creating, BadFileExplained, TypeInv, TypeOK
  <2>6. SameKey' /\ TokenFitsUnlessRaced'
    BY <1>0, <2>1, <2>3 DEF SameKey, Holds, TokenFitsUnlessRaced, TypeInv, TypeOK
  <2> QED BY <2>4, <2>5, <2>6
<1>4. ASSUME NEW p \in Procs, Generate(p) PROVE KeysInv'
  <2> SUFFICES ASSUME ~raced' PROVE /\ OneCreator' /\ WrittenSoFar' /\ SameKey'
                                    /\ BadFileExplained' /\ TokenFitsUnlessRaced'
    BY DEF KeysInv
  <2>1. /\ ~raced /\ Creating(p) /\ pc[p] = "generate" /\ pc' = [pc EXCEPT ![p] = "save"]
        /\ UNCHANGED <<exists, file, written, trusted, verdict, cut>>
    BY <1>4 DEF Generate, Creating
  <2>2. \A q \in Procs : q # p => ~Creating(q) /\ key'[q] = key[q]
    BY <1>0, <1>4, <2>1 DEF Generate, OneCreator, TypeInv, TypeOK
  <2>3. trusted = NoKey /\ \A q \in Procs : pc[q] # "up"
    BY <1>0, <2>1, NobodyIsUp
  <2>4. OneCreator'
    BY <1>0, <2>1, <2>2 DEF OneCreator, Creating, TypeInv, TypeOK
  <2>5. WrittenSoFar' /\ BadFileExplained'
    BY <1>0, <2>1, <2>2 DEF OneCreator, WrittenSoFar, Creating, BadFileExplained, TypeInv, TypeOK
  <2>6. SameKey' /\ TokenFitsUnlessRaced'
    BY <1>0, <2>1, <2>3 DEF SameKey, TokenFitsUnlessRaced, TypeInv, TypeOK
  <2> QED BY <2>4, <2>5, <2>6
<1>5. ASSUME NEW p \in Procs, Open(p) PROVE KeysInv'
  <2> SUFFICES ASSUME ~raced' PROVE /\ OneCreator' /\ WrittenSoFar' /\ SameKey'
                                    /\ BadFileExplained' /\ TokenFitsUnlessRaced'
    BY DEF KeysInv
  <2>1. /\ ~raced /\ Creating(p) /\ pc' = [pc EXCEPT ![p] = "write"]
        /\ exists' = TRUE /\ file' = Blank /\ written' = [written EXCEPT ![p] = 0]
        /\ UNCHANGED <<key, trusted, verdict, cut>>
    BY <1>5 DEF Open, Creating
  <2>2. \A q \in Procs : q # p => ~Creating(q)
    BY <1>0, <2>1 DEF OneCreator
  <2>3. trusted = NoKey /\ \A q \in Procs : pc[q] # "up"
    BY <1>0, <2>1, NobodyIsUp
  <2>4. OneCreator'
    BY <2>1, <2>2 DEF OneCreator, Creating, TypeInv, TypeOK
  <2>5. WrittenSoFar'
    BY <2>1, <2>2 DEF WrittenSoFar, Creating, Blank, TypeInv, TypeOK
  <2>6. SameKey' /\ TokenFitsUnlessRaced' /\ BadFileExplained'
    BY <1>0, <2>1, <2>3 DEF SameKey, TokenFitsUnlessRaced, BadFileExplained, TypeInv, TypeOK
  <2> QED BY <2>4, <2>5, <2>6
<1>6. ASSUME NEW p \in Procs, Write(p) PROVE KeysInv'
  <2> SUFFICES ASSUME ~raced' PROVE /\ OneCreator' /\ WrittenSoFar' /\ SameKey'
                                    /\ BadFileExplained' /\ TokenFitsUnlessRaced'
    BY DEF KeysInv
  <2> DEFINE n == written[p] + 1
  <2>1. /\ ~raced /\ Creating(p) /\ pc[p] = "write"
        /\ pc' = IF n = Parts THEN [pc EXCEPT ![p] = "up"] ELSE pc
        /\ file' = [file EXCEPT ![n] = key[p]]
        /\ written' = [written EXCEPT ![p] = n]
        /\ UNCHANGED <<exists, key, trusted, verdict, cut>>
    BY <1>6 DEF Write, Creating, TypeInv, TypeOK
  <2>2. n \in 1 .. Parts
    BY <2>1, DevKeysAssumption DEF TypeInv, TypeOK, PartsLeft
  <2>3. \A q \in Procs : q # p => ~Creating(q)
    BY <1>0, <2>1 DEF OneCreator
  <2>4. trusted = NoKey /\ \A q \in Procs : pc[q] # "up"
    BY <1>0, <2>1, NobodyIsUp
  <2>5. exists /\ key[p] \in Keys
    BY <1>0, <2>1 DEF OneCreator, TypeInv, TypeOK, PartsLeft
  <2>6. \A m \in 1 .. Parts : file'[m] = IF m <= n THEN key[p] ELSE NoKey
    BY <1>0, <2>1, <2>2, DevKeysAssumption DEF WrittenSoFar, TypeInv, TypeOK
  <2>7. CASE n = Parts
    <3>1. Holds(key[p])'
      BY <2>1, <2>2, <2>5, <2>6, <2>7, DevKeysAssumption DEF Holds
    <3>2. \A q \in Procs : ~Creating(q)' /\ (pc'[q] = "up" => q = p)
      BY <2>1, <2>3, <2>4, <2>7 DEF Creating, TypeInv, TypeOK
    <3>3. OneCreator' /\ WrittenSoFar'
      BY <3>2 DEF OneCreator, WrittenSoFar, Creating
    <3>4. SameKey'
      BY <2>1, <2>4, <3>1, <3>2 DEF SameKey
    <3>5. BadFileExplained'
      BY <2>1, <2>5, <3>1 DEF BadFileExplained, Readable
    <3> QED BY <1>0, <2>1, <3>3, <3>4, <3>5 DEF TokenFitsUnlessRaced
  <2>8. CASE n # Parts
    <3>1. pc' = pc
      BY <2>1, <2>8
    <3>2. OneCreator' /\ BadFileExplained'
      BY <1>0, <2>1, <3>1 DEF OneCreator, Creating, BadFileExplained
    <3>3. WrittenSoFar'
      BY <2>1, <2>3, <2>6, <3>1 DEF WrittenSoFar, Creating, TypeInv, TypeOK
    <3>4. SameKey' /\ TokenFitsUnlessRaced'
      BY <1>0, <2>1, <2>4, <3>1 DEF SameKey, TokenFitsUnlessRaced
    <3> QED BY <3>2, <3>3, <3>4
  <2> QED BY <2>7, <2>8
<1>7. ASSUME NEW p \in Procs, Stop(p) PROVE KeysInv'
  <2>1. ~raced => SameKey' /\ TokenFitsUnlessRaced'
    BY <1>0, <1>7 DEF Stop, SameKey, Holds, TokenFitsUnlessRaced, TypeInv, TypeOK
  <2> QED BY <1>7, <2>1, FileUntouched DEF Stop, Creating, TypeInv, TypeOK
<1>8. ASSUME NEW p \in Procs, NEW k \in Keys, Load(p, k) PROVE KeysInv'
  <2>1. ~raced => SameKey' /\ TokenFitsUnlessRaced'
    BY <1>0, <1>8 DEF Load, SameKey, Holds, TokenFitsUnlessRaced, TypeInv, TypeOK
  <2> QED BY <1>8, <2>1, FileUntouched DEF Load, Creating, TypeInv, TypeOK
<1>9. CASE Refresh
  <2>1. ~raced => SameKey' /\ TokenFitsUnlessRaced'
    BY <1>0, <1>9 DEF Refresh, SameKey, Holds, TokenFitsUnlessRaced, Procs
  <2> QED BY <1>9, <2>1, FileUntouched DEF Refresh, Creating
<1>10. ASSUME NEW p \in Senders, Post(p) PROVE KeysInv'
  <2> p \in Procs
    BY DEF Procs
  \* The receiver's key and the sender's are both the file's.
  <2>1. ASSUME ~raced, trusted # NoKey PROVE trusted = key[p]
    BY <1>0, <1>10, <2>1, OneKeyFits DEF Post, SameKey
  <2>2. ~raced => TokenFitsUnlessRaced'
    BY <1>0, <1>10, <2>1 DEF Post, TokenFitsUnlessRaced, TypeInv, TypeOK
  <2>3. ~raced => SameKey'
    BY <1>0, <1>10 DEF Post, SameKey, Holds, TypeInv, TypeOK
  <2> QED BY <1>10, <2>2, <2>3, FileUntouched DEF Post, Creating, TypeInv, TypeOK
<1>11. CASE UNCHANGED vars
  BY <1>11 DEF vars, KeysInv, OneCreator, Creating, WrittenSoFar, SameKey, BadFileExplained,
               Readable, Holds, TokenFitsUnlessRaced
<1> QED BY <1>1, <1>2, <1>3, <1>4, <1>5, <1>6, <1>7, <1>8, <1>9, <1>10, <1>11 DEF Next

\* DevKeys: both sides take their key from one file that is written once, so the
\* receiver takes no sender's key for a wrong one unless two creators overlapped.
THEOREM TokensFit == Spec => []TokenFitsUnlessRaced
<1>1. KeysInv => TokenFitsUnlessRaced
  BY DEF KeysInv, TokenFitsUnlessRaced
<1> QED BY <1>1, TypeInit, TypeStep, KeysInit, KeysStep, PTL DEF Spec

\* DevKeys: a file that keeps a process from starting is being written, or was
\* left by a writer that was stopped or by two at a time.
THEOREM FailedStartsExplained == Spec => FailedStartExplained
<1>1. KeysInv /\ [Next]_vars =>
        [\A p \in Procs : LoadFails(p) => cut \/ raced \/ \E q \in Procs : pc[q] = "write"]_vars
  BY DEF KeysInv, BadFileExplained, LoadFails
<1> QED BY <1>1, TypeInit, TypeStep, KeysInit, KeysStep, PTL DEF Spec, FailedStartExplained

=============================================================================
