---------------------- MODULE BlockingFunctionsProofs ----------------------
(***************************************************************************)
(* Theorems about BlockingFunctions for any number of requests and any     *)
(* policy: types, that no handler goes on without the dependencies of the  *)
(* project that is configured, that the first outcome is everybody's, and  *)
(* that whoever waits waits for somebody.                                  *)
(***************************************************************************)
EXTENDS BlockingFunctions, TLAPS

\* Two settings, the first that is not empty.
LEMMA FirstOfTwo ==
  ASSUME NEW a, NEW b
  PROVE  FirstSet(<<a, b>>) = IF a # None THEN a ELSE IF b # None THEN b ELSE None
<1> DEFINE s == <<a, b>>
           some == {n \in DOMAIN s : s[n] # None}
           first == CHOOSE n \in some : \A m \in some : n <= m
<1>1. DOMAIN s = {1, 2} /\ s[1] = a /\ s[2] = b
  OBVIOUS
<1>2. CASE a # None
  <2>1. 1 \in some /\ \A m \in some : 1 <= m
    BY <1>1, <1>2
  <2>2. first \in some /\ \A m \in some : first <= m
    BY <2>1
  <2>3. first = 1
    BY <1>1, <2>1, <2>2
  <2> QED BY <1>1, <1>2, <2>1, <2>3 DEF FirstSet
<1>3. CASE a = None /\ b # None
  <2>1. some = {2}
    BY <1>1, <1>3
  <2>2. first = 2
    BY <2>1
  <2> QED BY <1>1, <1>3, <2>1, <2>2 DEF FirstSet
<1>4. CASE a = None /\ b = None
  <2>1. some = {}
    BY <1>1, <1>4
  <2> QED BY <1>4, <2>1 DEF FirstSet
<1> QED BY <1>2, <1>3, <1>4

\* Three settings, the first that is not empty.
LEMMA FirstOfThree ==
  ASSUME NEW a, NEW b, NEW c
  PROVE  FirstSet(<<a, b, c>>) = IF a # None THEN a ELSE IF b # None THEN b
                                 ELSE IF c # None THEN c ELSE None
<1> DEFINE s == <<a, b, c>>
           some == {n \in DOMAIN s : s[n] # None}
           first == CHOOSE n \in some : \A m \in some : n <= m
<1>1. DOMAIN s = {1, 2, 3} /\ s[1] = a /\ s[2] = b /\ s[3] = c
  OBVIOUS
<1>2. CASE a # None
  <2>1. 1 \in some /\ \A m \in some : 1 <= m
    BY <1>1, <1>2
  <2>2. first \in some /\ \A m \in some : first <= m
    BY <2>1
  <2>3. first = 1
    BY <1>1, <2>1, <2>2
  <2> QED BY <1>1, <1>2, <2>1, <2>3 DEF FirstSet
<1>3. CASE a = None /\ b # None
  <2>1. 2 \in some /\ \A m \in some : 2 <= m
    BY <1>1, <1>3
  <2>2. first \in some /\ \A m \in some : first <= m
    BY <2>1
  <2>3. first = 2
    BY <1>1, <2>1, <2>2
  <2> QED BY <1>1, <1>3, <2>1, <2>3 DEF FirstSet
<1>4. CASE a = None /\ b = None /\ c # None
  <2>1. some = {3}
    BY <1>1, <1>4
  <2>2. first = 3
    BY <2>1
  <2> QED BY <1>1, <1>4, <2>1, <2>2 DEF FirstSet
<1>5. CASE a = None /\ b = None /\ c = None
  <2>1. some = {}
    BY <1>1, <1>5
  <2> QED BY <1>5, <2>1 DEF FirstSet
<1> QED BY <1>2, <1>3, <1>4, <1>5

\* The project of the environment, from whichever variable names it.
Project ==
  IF env.gcp # None THEN env.gcp ELSE IF env.gcloud # None THEN env.gcloud
  ELSE IF env.emulator THEN Demo ELSE None

\* Either program arrives at it, with dependencies that are there.
LEMMA SameProject ==
  /\ ClientOptions(env.gcp).project = Project /\ ClientOptions(env.gcp) # NoDeps
  /\ BootstrapDeps.project = Project /\ BootstrapDeps # NoDeps
<1>1. ASSUME NEW c, c = env.gcp \/ c = FirstSet(<<env.gcp, env.gcloud>>)
      PROVE  ClientOptions(c).project = Project /\ ClientOptions(c) # NoDeps
  <2>1. FirstSet(<<c, env.gcp, env.gcloud>>) =
          IF env.gcp # None THEN env.gcp ELSE IF env.gcloud # None THEN env.gcloud ELSE None
    BY <1>1, FirstOfTwo, FirstOfThree
  <2>2. ClientOptions(c).project = Project
    BY <2>1 DEF ClientOptions, Project, Demo, None
  <2>3. ClientOptions(c).auth \in {"none", "file", "default"}
    BY DEF ClientOptions
  <2> QED BY <2>2, <2>3 DEF NoDeps
<1> QED BY <1>1 DEF BootstrapDeps

-----------------------------------------------------------------------------
\* getUserMap finds no user in an empty body, and who has none is a guest.
LEMMA GuestsOnly ==
  /\ getUserMap(NoBody) = NoUser
  /\ \A cfg, b, late : Decide(cfg, b, getUserMap(NoBody), late) = "guest"
<1>1. getUserMap(NoBody) = NoUser
  BY DEF getUserMap, NoBody
<1> QED BY <1>1 DEF Decide


Answers == {"none", "500", "400", "403", "422", "503", "412", "guest", "user", "claims", "ensured"}
Steps == {"unsent", "check", "once", "init", "assign", "decode", "done"}

\* What a request with a body is answered, as far as the types go.
Answered(r) ==
  /\ pc[r] = "decode" /\ UNCHANGED <<input, once, global, deps, got>>
  /\ pc' = [pc EXCEPT ![r] = "done"]
  /\ \E a \in Answers \ {"none", "500"} : answer' = [answer EXCEPT ![r] = a]

\* The steps that answer a decoded request do no more than that.
LEMMA DecodedIsAnswered ==
  ASSUME NEW r \in Requests
  PROVE  BadJSON(r) \/ Ensure(r) \/ (\E b \in Bodies : BeforeCreate(r, b) \/ BeforeSignIn(r, b))
         => Answered(r)
<1>1. BadJSON(r) => Answered(r)
  BY DEF BadJSON, Answered, Reply, Go, Answers
<1>2. Ensure(r) => Answered(r)
  BY DEF Ensure, Answered, Reply, Go, Answers
<1>3. ASSUME NEW b \in Bodies, BeforeCreate(r, b) PROVE Answered(r)
  <2>1. Reply(r, "guest")
    BY <1>3, GuestsOnly DEF BeforeCreate
  <2> QED BY <1>3, <2>1 DEF BeforeCreate, Answered, Reply, Go, Answers
<1>4. ASSUME NEW b \in Bodies, BeforeSignIn(r, b) PROVE Answered(r)
  <2>1. Reply(r, "claims")
    BY <1>4, GuestsOnly DEF BeforeSignIn
  <2> QED BY <1>4, <2>1 DEF BeforeSignIn, Answered, Reply, Go, Answers
<1> QED BY <1>1, <1>2, <1>3, <1>4

LEMMA TypeInit == Init => TypeOK
<1> SUFFICES ASSUME Init PROVE TypeOK
  OBVIOUS
<1>1. deps \in [Lazy -> AllDeps]
  BY DEF Init, AllDeps
<1> QED BY <1>1 DEF Init, TypeOK, AllDeps, Lazy

\* Every step keeps the types.
LEMMA TypeStep == TypeOK /\ [Next]_vars => TypeOK'
<1> SUFFICES ASSUME TypeOK, [Next]_vars PROVE TypeOK'
  OBVIOUS
<1>1. ASSUME env' = env PROVE AllDeps' = AllDeps
  BY <1>1 DEF AllDeps, BootstrapDeps, ClientOptions
<1>2. ASSUME NEW r \in Requests, NEW h \in Lazy \cup {"signIn"}, Arrive(r, h) PROVE TypeOK'
  <2>1. AllDeps' = AllDeps
    BY <1>1, <1>2 DEF Arrive
  <2> QED BY <1>2, <2>1 DEF Arrive, TypeOK, Go
<1>3. ASSUME NEW r \in Requests, Check(r) PROVE TypeOK'
  <2>1. AllDeps' = AllDeps
    BY <1>1, <1>3 DEF Check, input
  <2> QED BY <1>3, <2>1 DEF Check, TypeOK, Go, input
<1>4. ASSUME NEW r \in Requests, Enter(r) PROVE TypeOK'
  <2>1. AllDeps' = AllDeps
    BY <1>1, <1>4 DEF Enter, input
  <2> QED BY <1>4, <2>1 DEF Enter, TypeOK, Go, input
<1>5. ASSUME NEW r \in Requests, InitEnds(r) PROVE TypeOK'
  <2>1. AllDeps' = AllDeps
    BY <1>1, <1>5 DEF InitEnds, input
  <2>2. global' \in AllDeps
    BY <1>5 DEF InitEnds, AllDeps
  <2> QED BY <1>5, <2>1, <2>2 DEF InitEnds, TypeOK, Go, input
<1>6. ASSUME NEW r \in Requests, Done(r) PROVE TypeOK'
  <2>1. AllDeps' = AllDeps
    BY <1>1, <1>6 DEF Done, input
  <2> QED BY <1>6, <2>1 DEF Done, TypeOK, Go, input
<1>7. ASSUME NEW r \in Requests, Assign(r) PROVE TypeOK'
  <2>1. AllDeps' = AllDeps
    BY <1>1, <1>7 DEF Assign, input
  <2>2. deps' \in [Lazy -> AllDeps] /\ got' \in [Requests -> AllDeps]
    BY <1>7 DEF Assign, TypeOK, AllDeps
  <2>3. pc' \in [Requests -> Steps] /\ answer' \in [Requests -> Answers]
    BY <1>7 DEF Assign, TypeOK, Reply, Go, Steps, Answers
  <2> QED BY <1>7, <2>1, <2>2, <2>3 DEF Assign, TypeOK, input, Steps, Answers
<1>8. ASSUME NEW r \in Requests, Answered(r) PROVE TypeOK'
  <2>1. AllDeps' = AllDeps
    BY <1>1, <1>8 DEF Answered, input
  <2> QED BY <1>8, <2>1 DEF Answered, TypeOK, input, Answers
<1>9. CASE UNCHANGED vars
  <2>1. AllDeps' = AllDeps
    BY <1>1, <1>9 DEF vars
  <2> QED BY <1>9, <2>1 DEF vars, TypeOK
<1> QED BY <1>2, <1>3, <1>4, <1>5, <1>6, <1>7, <1>8, <1>9, DecodedIsAnswered DEF Next, Handle

\* BlockingFunctions: the variables that the handlers share keep their types.
THEOREM BlockingTypeCorrect == Spec => []TypeOK
BY TypeInit, TypeStep, PTL DEF Spec

-----------------------------------------------------------------------------
\* The once is held by whoever initialises, and nothing is made before it is done.
Sync ==
  /\ \A r \in Requests : pc[r] = "init" => once = "running"
  /\ \A r, s \in Requests : pc[r] = "init" /\ pc[s] = "init" => r = s
  /\ once # "done" => global = NoDeps
  /\ \A r \in Requests : pc[r] = "assign" => once = "done" /\ got[r] = global
  /\ \A r \in Requests : pc[r] \in {"check", "once", "init", "assign"} => handler[r] \in Lazy
  /\ \A r \in Requests : pc[r] # "done" => answer[r] = "none"

\* The handlers were mounted with dependencies: nobody needs the once.
Given ==
  /\ \A h \in Lazy : deps[h] = ClientOptions(env.gcp)
  /\ \A r \in Requests : pc[r] \notin {"once", "init", "assign"} /\ answer[r] # "500"

\* They were not: what a handler has is what the once has made, and who goes on
\* or was served has it.
Made ==
  /\ global \in {NoDeps, BootstrapDeps}
  /\ \A h \in Lazy : deps[h] \in {NoDeps, global}
  /\ \A r \in Requests : answer[r] = "500" => once = "done" /\ global = NoDeps
  /\ \A r \in Requests : handler[r] \in Lazy =>
       /\ pc[r] = "decode" => deps[handler[r]] # NoDeps
       /\ answer[r] \notin {"none", "500"} => global # NoDeps

DepsInv == TypeOK /\ Sync /\ (Given \/ Made)

LEMMA DepsInit == Init => DepsInv
<1> SUFFICES ASSUME Init PROVE Sync /\ (Given \/ Made)
  BY TypeInit DEF DepsInv
<1>1. Sync
  BY DEF Init, Sync, Lazy
<1>2. PICK d \in {NoDeps, ClientOptions(env.gcp)} : deps = [h \in Lazy |-> d]
  BY DEF Init
<1>3. \A r \in Requests : pc[r] = "unsent" /\ answer[r] = "none"
  BY DEF Init
<1>4. \A h \in Lazy : deps[h] = d
  BY <1>2
<1>5. CASE d = NoDeps
  <2>1. global = NoDeps /\ \A h \in Lazy : deps[h] = NoDeps
    BY <1>4, <1>5 DEF Init
  <2> QED BY <1>1, <1>3, <2>1 DEF Made
<1>6. CASE d = ClientOptions(env.gcp)
  <2>1. \A h \in Lazy : deps[h] = ClientOptions(env.gcp)
    BY <1>4, <1>6
  <2> QED BY <1>1, <1>3, <2>1 DEF Given
<1> QED BY <1>2, <1>5, <1>6

\* Every step keeps it; only an initialisation changes what was made, when nobody
\* has any of it.
LEMMA DepsStep == DepsInv /\ [Next]_vars => DepsInv'
<1> SUFFICES ASSUME DepsInv, [Next]_vars PROVE Sync' /\ (Given' \/ Made')
  BY TypeStep DEF DepsInv
<1> USE DEF Go
<1>0. TypeOK /\ Sync /\ (Given \/ Made)
  BY DEF DepsInv
<1>1. ASSUME env' = env
      PROVE  ClientOptions(env.gcp)' = ClientOptions(env.gcp) /\ BootstrapDeps' = BootstrapDeps
  BY <1>1 DEF ClientOptions, BootstrapDeps
<1>2. ASSUME NEW r \in Requests, NEW h \in Lazy \cup {"signIn"}, Arrive(r, h)
      PROVE  Sync' /\ (Given' \/ Made')
  <2>1. Sync'
    BY <1>0, <1>2 DEF Arrive, Sync, TypeOK
  <2>2. Given => Given'
    BY <1>0, <1>1, <1>2 DEF Arrive, Given, TypeOK
  <2>3. pc'[r] = (IF h \in Lazy THEN "check" ELSE "decode") /\ handler'[r] = h /\ answer'[r] = "none"
    BY <1>0, <1>2 DEF Arrive, TypeOK, Sync
  <2>4. Made => Made'
    BY <1>0, <1>1, <1>2, <2>3 DEF Arrive, Made, TypeOK
  <2> QED BY <1>0, <2>1, <2>2, <2>4
<1>3. ASSUME NEW r \in Requests, Check(r) PROVE Sync' /\ (Given' \/ Made')
  <2>1. Sync'
    BY <1>0, <1>3 DEF Check, Sync, TypeOK, input
  <2>2. handler[r] \in Lazy /\ pc'[r] = IF deps[handler[r]] = NoDeps THEN "once" ELSE "decode"
    BY <1>0, <1>3 DEF Check, Sync, TypeOK
  <2>3. Given => Given'
    BY <1>0, <1>1, <1>3, <2>2, SameProject DEF Check, Given, TypeOK, input
  <2>4. Made => Made'
    BY <1>0, <1>1, <1>3, <2>2 DEF Check, Made, TypeOK, input
  <2> QED BY <1>0, <2>1, <2>3, <2>4
<1>4. ASSUME NEW r \in Requests, Enter(r) PROVE Sync' /\ (Given' \/ Made')
  <2>1. Sync'
    BY <1>0, <1>4 DEF Enter, Sync, TypeOK, input
  <2>2. ~Given
    BY <1>4 DEF Enter, Given
  <2>3. Made => Made'
    BY <1>0, <1>1, <1>4 DEF Enter, Made, TypeOK, input
  <2> QED BY <1>0, <2>1, <2>2, <2>3
<1>5. ASSUME NEW r \in Requests, InitEnds(r) PROVE Sync' /\ (Given' \/ Made')
  <2>1. Sync'
    BY <1>0, <1>5 DEF InitEnds, Sync, TypeOK, input
  <2>2. Made /\ global = NoDeps
    BY <1>0, <1>5 DEF InitEnds, Given, Sync
  <2>3. (\A h \in Lazy : deps[h] = NoDeps) /\ (\A s \in Requests : answer[s] # "500")
    BY <1>0, <1>5, <2>2 DEF Made, Sync, InitEnds
  <2>4. Made'
    BY <1>0, <1>1, <1>5, <2>2, <2>3 DEF InitEnds, Made, TypeOK, input
  <2> QED BY <2>1, <2>4
<1>6. ASSUME NEW r \in Requests, Done(r) PROVE Sync' /\ (Given' \/ Made')
  <2>1. Sync'
    BY <1>0, <1>6 DEF Done, Sync, TypeOK, input
  <2>2. ~Given
    BY <1>6 DEF Done, Given
  <2>3. Made => Made'
    BY <1>0, <1>1, <1>6 DEF Done, Made, TypeOK, input
  <2> QED BY <1>0, <2>1, <2>2, <2>3
<1>7. ASSUME NEW r \in Requests, Assign(r) PROVE Sync' /\ (Given' \/ Made')
  <2>1. /\ Made /\ once = "done" /\ got[r] = global /\ handler[r] \in Lazy
        /\ UNCHANGED <<env, handler, once, global>>
    BY <1>0, <1>7 DEF Assign, Given, Sync, input
  <2>2. \A h \in Lazy : deps'[h] = IF h = handler[r] THEN global ELSE deps[h]
    BY <1>0, <1>7, <2>1 DEF Assign, TypeOK
  <2>3. \A s \in Requests : s # r => pc'[s] = pc[s] /\ answer'[s] = answer[s] /\ got'[s] = got[s]
    BY <1>0, <1>7 DEF Assign, Reply, TypeOK
  <2>4. IF global = NoDeps THEN pc'[r] = "done" /\ answer'[r] = "500"
                           ELSE pc'[r] = "decode" /\ answer'[r] = answer[r]
    BY <1>0, <1>7, <2>1 DEF Assign, Reply, TypeOK
  <2>5. answer[r] = "none"
    BY <1>0, <1>7 DEF Assign, Sync
  <2>6. Sync'
    BY <1>0, <2>1, <2>3, <2>4, <2>5 DEF Sync
  <2>7. Made'
    BY <1>0, <1>1, <2>1, <2>2, <2>3, <2>4, <2>5 DEF Made
  <2> QED BY <2>6, <2>7
<1>8. ASSUME NEW r \in Requests, Answered(r) PROVE Sync' /\ (Given' \/ Made')
  <2>1. PICK a \in Answers \ {"none", "500"} : answer' = [answer EXCEPT ![r] = a]
    BY <1>8 DEF Answered
  <2>2. Sync'
    BY <1>0, <1>8, <2>1 DEF Answered, Sync, TypeOK, input
  <2>3. Given => Given'
    BY <1>0, <1>1, <1>8, <2>1 DEF Answered, Given, TypeOK, input
  <2>4. Made /\ handler[r] \in Lazy => global # NoDeps
    BY <1>8 DEF Answered, Made
  <2>5. Made => Made'
    BY <1>0, <1>1, <1>8, <2>1, <2>4 DEF Answered, Made, TypeOK, input
  <2> QED BY <1>0, <2>2, <2>3, <2>5
<1>9. CASE UNCHANGED vars
  BY <1>0, <1>1, <1>9 DEF vars, Sync, Given, Made
<1> QED BY <1>2, <1>3, <1>4, <1>5, <1>6, <1>7, <1>8, <1>9, DecodedIsAnswered DEF Next, Handle

\* BlockingFunctions: whoever goes on has dependencies, of the project that the
\* environment names, although the handlers' variables are not locked.
THEOREM NobodyWithoutDeps == Spec => []DepsInUse
<1>1. DepsInv => DepsInUse
  <2> SUFFICES ASSUME DepsInv, NEW r \in Requests, pc[r] = "decode", handler[r] \in Lazy
               PROVE  deps[handler[r]] # NoDeps /\ deps[handler[r]].project = Project
    BY DEF DepsInUse, Project
  <2>1. CASE Given
    BY <2>1, SameProject DEF Given
  <2>2. CASE Made
    BY <2>2, SameProject DEF Made
  <2> QED BY <2>1, <2>2 DEF DepsInv
<1> QED BY <1>1, DepsInit, DepsStep, PTL DEF Spec

\* BlockingFunctions: once a request has been refused for want of dependencies,
\* none that needs them is served.
THEOREM FirstOutcomeIsFinal == Spec => []FirstOutcomeLasts
<1>1. DepsInv => FirstOutcomeLasts
  <2> SUFFICES ASSUME DepsInv, NEW r \in Requests, NEW s \in Requests, answer[r] = "500",
                      handler[s] \in Lazy
               PROVE  pc[s] # "decode" /\ answer[s] \in {"none", "500"}
    BY DEF FirstOutcomeLasts
  <2>1. Made /\ global = NoDeps
    BY DEF DepsInv, Given, Made
  <2> QED BY <2>1 DEF Made
<1> QED BY <1>1, DepsInit, DepsStep, PTL DEF Spec

-----------------------------------------------------------------------------
\* Whoever finds the once taken waits for a request that is initialising.
WaitsForSomebody ==
  \A r \in Requests : pc[r] = "once" =>
    once \in {"new", "done"} \/ \E s \in Requests : pc[s] = "init"

HolderAtWork == once = "running" => \E s \in Requests : pc[s] = "init"

LEMMA HolderStep == TypeOK /\ HolderAtWork /\ [Next]_vars => HolderAtWork'
<1> SUFFICES ASSUME TypeOK, HolderAtWork, [Next]_vars, once' = "running"
             PROVE  \E s \in Requests : pc'[s] = "init"
  BY DEF HolderAtWork
<1>1. ASSUME NEW r \in Requests, Enter(r) PROVE \E s \in Requests : pc'[s] = "init"
  BY <1>1 DEF Enter, Go, TypeOK
<1>2. ASSUME NEW r \in Requests, InitEnds(r) PROVE FALSE
  BY <1>2 DEF InitEnds
<1>3. ASSUME NEW r \in Requests, once' = once, pc[r] # "init",
             \A s \in Requests : s # r => pc'[s] = pc[s]
      PROVE  \E s \in Requests : pc'[s] = "init"
  BY <1>3 DEF HolderAtWork
<1>4. ASSUME NEW r \in Requests, NEW h, Arrive(r, h) PROVE \E s \in Requests : pc'[s] = "init"
  BY <1>3, <1>4 DEF Arrive, Go, TypeOK
<1>5. ASSUME NEW r \in Requests, Check(r) \/ Done(r) PROVE \E s \in Requests : pc'[s] = "init"
  BY <1>3, <1>5 DEF Check, Done, Go, TypeOK
<1>6. ASSUME NEW r \in Requests, Assign(r) PROVE \E s \in Requests : pc'[s] = "init"
  BY <1>3, <1>6 DEF Assign, Reply, Go, TypeOK
<1>7. ASSUME NEW r \in Requests, Answered(r) PROVE \E s \in Requests : pc'[s] = "init"
  BY <1>3, <1>7 DEF Answered, TypeOK
<1>8. CASE UNCHANGED vars
  BY <1>8 DEF vars, HolderAtWork
<1> QED BY <1>1, <1>2, <1>4, <1>5, <1>6, <1>7, <1>8, DecodedIsAnswered DEF Next, Handle

\* BlockingFunctions: nobody waits for nobody: as long as a request waits at the once
\* another one is initialising, which no request can keep from ending.
THEOREM WaitsAreForSomebody == Spec => []WaitsForSomebody
<1>1. Init => HolderAtWork
  BY DEF Init, HolderAtWork
<1>2. TypeOK /\ HolderAtWork => WaitsForSomebody
  BY DEF TypeOK, HolderAtWork, WaitsForSomebody
<1> QED BY <1>1, <1>2, TypeInit, TypeStep, HolderStep, PTL DEF Spec
=============================================================================
