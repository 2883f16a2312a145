------------------------- MODULE UserAccountsProofs -------------------------
(***************************************************************************)
(* Theorems about how a person comes into the app.                         *)
(*                                                                         *)
(* UserAccounts, for any number of devices and requests, and any number of *)
(* attempts and writes: types, the profile's dates, and why somebody may   *)
(* have none.  OnboardingFlow, the pages before it, for every idle time:   *)
(* types, and that the flow does not strand on a page.                     *)
(***************************************************************************)
EXTENDS UserAccounts, OnboardingFlow, TLAPS

\* A request that is to read has an attempt left, and one that is to write has
\* read a document that exists.
RequestsFit ==
  \A r \in Requests :
    /\ ensure[r].step = "unsent" => ensure[r].attempt = 0
    /\ ensure[r].step = "get" => ensure[r].attempt < MaxAttempts
    /\ ensure[r].step = "set" => ensure[r].saw # 0

\* The document that is there has both of its dates.
BothDates == profile.createdAt = 0 <=> profile.lastSignedIn = 0

TypeInv == TypeOK /\ RequestsFit /\ BothDates

\* The account's first write is still to be sent by d, or on its way.
Writing(d) == pc[d] = "create" \/ d \in queue

\* There is one first write: nothing comes before the account; one device has the
\* write, once, and while it has, nothing is settled; then the write is either the
\* profile or lost.
OneFate ==
  /\ account = "none" => ~Exists /\ lost = "no" /\ \A d \in Devices : ~Writing(d)
  /\ \A d \in Devices :
       /\ Writing(d) => ~Exists /\ lost = "no" /\ \A e \in Devices \ {d} : ~Writing(e)
       /\ pc[d] = "create" => d \notin queue
  /\ account # "none" /\ (\A d \in Devices : ~Writing(d)) => (Exists <=> lost = "no")

NewUserHasProfile ==
  \A d \in Devices : wasNew[d] /\ outcome[d] = "ok" /\ pc[d] = "idle" => Exists

ProfileInv == TypeInv /\ OneFate /\ NewUserHasProfile

-----------------------------------------------------------------------------
LEMMA TypeInit == Init => TypeInv
BY AccountsAssumption
   DEF Init, TypeInv, TypeOK, RequestsFit, BothDates, NoProfile, Unsent

\* A next write's time fits the bound.
LEMMA NextWrite ==
  ASSUME TypeOK, writes < MaxWrites
  PROVE  writes + 1 \in 1 .. MaxWrites
BY AccountsAssumption DEF TypeOK

RequestStates == [step : {"unsent", "get", "set", "200", "412", "500"},
                  saw : 0 .. MaxWrites, attempt : 0 .. MaxAttempts]

\* A request that moves to another step and is otherwise as before.
LEMMA StepType ==
  ASSUME TypeOK, RequestsFit, NEW r \in Requests,
         NEW s \in {"get", "200", "412", "500"}, Step(r, s),
         s = "get" => ensure[r].attempt < MaxAttempts
  PROVE  ensure' \in [Requests -> RequestStates] /\ RequestsFit'
<1>1. [ensure[r] EXCEPT !.step = s] \in RequestStates
  BY DEF TypeOK, RequestStates
<1>2. ensure' = [ensure EXCEPT ![r] = [ensure[r] EXCEPT !.step = s]]
  BY DEF Step
<1>3. ensure' \in [Requests -> RequestStates]
  BY <1>1, <1>2 DEF TypeOK, RequestStates
<1>4. /\ ensure'[r].step = s /\ ensure'[r].attempt = ensure[r].attempt
      /\ \A q \in Requests \ {r} : ensure'[q] = ensure[q]
  BY <1>2 DEF TypeOK
<1>5. RequestsFit'
  BY <1>4 DEF RequestsFit
<1> QED BY <1>3, <1>5

\* Every step keeps the types, and both dates of the document together.
LEMMA TypeStep == TypeInv /\ [Next]_vars => TypeInv'
<1> SUFFICES ASSUME TypeInv, [Next]_vars PROVE TypeInv'
  OBVIOUS
<1> USE AccountsAssumption DEF TypeInv, TypeOK, Go, End
<1>1. ASSUME NEW d \in Devices, SignIn(d) PROVE TypeInv'
  BY <1>1 DEF SignIn, RequestsFit, BothDates
<1>2. ASSUME NEW d \in Devices, Firebase(d) PROVE TypeInv'
  <2>1. wasNew' \in [Devices -> BOOLEAN] /\ session' \in [Devices -> BOOLEAN]
    BY <1>2, Zenon DEF Firebase
  <2> QED BY <1>2, <2>1 DEF Firebase, RequestsFit, BothDates
<1>3. ASSUME NEW d \in Devices, FirebaseThrows(d) PROVE TypeInv'
  BY <1>3 DEF FirebaseThrows, Unheard, RequestsFit, BothDates
<1>4. ASSUME NEW d \in Devices, Upsert(d) PROVE TypeInv'
  BY <1>4 DEF Upsert, RequestsFit, BothDates
<1>5. ASSUME NEW d \in Devices, Apply(d) PROVE TypeInv'
  <2>1. writes + 1 \in 1 .. MaxWrites
    BY <1>5, NextWrite DEF Apply
  <2>2. CASE RulesAllow
    <3>1. /\ writes' = writes + 1 /\ writes' \in 1 .. MaxWrites
          /\ profile' = [createdAt |-> writes', lastSignedIn |-> writes']
      BY <1>5, <2>1, <2>2 DEF Apply
    <3>2. /\ pc' \in [Devices -> {"idle", "firebase", "create", "await"}]
          /\ outcome' \in [Devices -> {"none", "ok", "threw", "killed"}]
      BY <1>5, <2>2 DEF Apply
    <3>3. /\ queue' \subseteq Devices
          /\ UNCHANGED <<account, session, wasNew, validData, lost, ensure>>
      BY <1>5, <2>2 DEF Apply
    <3>4. RequestsFit' /\ BothDates'
      BY <3>1, <3>3 DEF RequestsFit, BothDates
    <3> QED BY <3>1, <3>2, <3>3, <3>4
  <2>3. CASE ~RulesAllow
    BY <1>5, <2>3 DEF Apply, RequestsFit, BothDates
  <2> QED BY <2>2, <2>3
<1>6. ASSUME NEW d \in Devices, Kill(d) PROVE TypeInv'
  BY <1>6 DEF Kill, Unheard, RequestsFit, BothDates
<1>7. ASSUME NEW d \in Devices, SignOut(d) PROVE TypeInv'
  BY <1>7 DEF SignOut, RequestsFit, BothDates
<1>8. ASSUME NEW d \in Devices, FinishSignIn(d) PROVE TypeInv'
  BY <1>8 DEF FinishSignIn, RequestsFit, BothDates
<1>9. ASSUME NEW d \in Devices, NEW r \in Requests, Send(r, d) PROVE TypeInv'
  <2>1. ensure' \in [Requests -> RequestStates] /\ RequestsFit'
    BY <1>9, StepType DEF Send, RequestsFit
  <2> QED BY <1>9, <2>1 DEF Send, client, device, BothDates, RequestStates
<1>10. ASSUME NEW r \in Requests, EnsureFails(r) PROVE TypeInv'
  <2>1. ensure' \in [Requests -> RequestStates] /\ RequestsFit'
    BY <1>10, StepType DEF EnsureFails
  <2> QED BY <1>10, <2>1 DEF EnsureFails, client, device, BothDates, RequestStates
<1>11. ASSUME NEW r \in Requests, Get(r) PROVE TypeInv'
  <2>1. ensure[r].attempt + 1 \in 0 .. MaxAttempts
    BY <1>11 DEF Get, RequestsFit
  <2> QED BY <1>11, <2>1 DEF Get, client, device, RequestsFit, BothDates, Exists
<1>12. ASSUME NEW r \in Requests, Set(r) PROVE TypeInv'
  <2>1. writes + 1 \in 1 .. MaxWrites
    BY <1>12, NextWrite DEF Set
  <2>2. ensure' \in [Requests -> RequestStates] /\ RequestsFit'
    BY <1>12, StepType DEF Set
  <2>3. profile.createdAt # 0 /\ profile' = [profile EXCEPT !.lastSignedIn = writes + 1]
    BY <1>12 DEF Set, RequestsFit, BothDates
  <2> QED BY <1>12, <2>1, <2>2, <2>3 DEF Set, client, device, BothDates, RequestStates
<1>13. ASSUME NEW r \in Requests, Conflict(r) PROVE TypeInv'
  <2>1. ensure' \in [Requests -> RequestStates] /\ RequestsFit'
    BY <1>13, StepType DEF Conflict
  <2> QED BY <1>13, <2>1 DEF Conflict, client, device, BothDates, RequestStates
<1>14. CASE UNCHANGED vars
  BY <1>14 DEF vars, RequestsFit, BothDates
<1> QED
  BY <1>1, <1>2, <1>3, <1>4, <1>5, <1>6, <1>7, <1>8, <1>9, <1>10, <1>11, <1>12, <1>13, <1>14
  DEF Next

\* Whatever the devices and the backend do, the variables keep their types; the
\* transaction ends within its attempts.
THEOREM AccountsTypeCorrect == Spec => []TypeOK
<1>1. TypeInv => TypeOK
  BY DEF TypeInv
<1> QED BY <1>1, TypeInit, TypeStep, PTL DEF Spec

-----------------------------------------------------------------------------
\* A step that writes the document either makes it or leaves its first date.
LEMMA DateStep ==
  TypeInv /\ [Next]_vars => (Exists => profile'.createdAt = profile.createdAt /\ Exists')
<1> SUFFICES ASSUME TypeInv, [Next]_vars, Exists
             PROVE  profile'.createdAt = profile.createdAt /\ Exists'
  OBVIOUS
<1> USE DEF Exists, TypeInv, TypeOK
<1>1. ASSUME NEW d \in Devices, Apply(d)
      PROVE  profile'.createdAt = profile.createdAt /\ Exists'
  BY <1>1 DEF Apply, RulesAllow
<1>2. ASSUME NEW r \in Requests, Set(r)
      PROVE  profile'.createdAt = profile.createdAt /\ Exists'
  BY <1>2, NextWrite DEF Set
<1>3. CASE UNCHANGED profile
  BY <1>3
<1> QED
  BY <1>1, <1>2, <1>3
  DEF Next, vars, SignIn, Firebase, FirebaseThrows, Upsert, Kill, SignOut, FinishSignIn,
      Send, EnsureFails, Get, Conflict

\* The document is dated by its first write and keeps that date, however devices
\* and backend transactions interleave.
THEOREM ProfileDatedOnce == Spec => DatedOnce
<1>1. TypeInv => (Exists => profile.createdAt # 0)
  BY DEF TypeInv, BothDates, Exists
<1>2. TypeInv /\ [Next]_vars => [Exists => profile'.createdAt = profile.createdAt]_vars
  BY DateStep
<1> QED BY <1>1, <1>2, TypeInit, TypeStep, PTL DEF Spec, DatedOnce

-----------------------------------------------------------------------------
LEMMA ProfileInit == Init => ProfileInv
<1> SUFFICES ASSUME Init PROVE ProfileInv
  OBVIOUS
<1>1. TypeInv
  BY TypeInit
<1> QED BY <1>1 
   DEF Init, ProfileInv, OneFate, Writing, NewUserHasProfile, Exists, NoProfile

\* The document comes to be by a device's write alone: the backend writes one that
\* exists.
LEMMA ExistsStep ==
  TypeInv /\ [Next]_vars => (Exists' <=> Exists) \/ \E d \in Devices : Apply(d)
<1> SUFFICES ASSUME TypeInv, [Next]_vars, ~Exists, \A d \in Devices : ~Apply(d) PROVE ~Exists'
  BY DateStep
<1>1. ASSUME NEW r \in Requests, Set(r) PROVE ~Exists'
  BY <1>1 DEF Set, Exists, TypeInv, RequestsFit
<1>2. CASE UNCHANGED profile
  BY <1>2 DEF Exists
<1> QED
  BY <1>1, <1>2
  DEF Next, vars, SignIn, Firebase, FirebaseThrows, Upsert, Kill, SignOut, FinishSignIn,
      Send, EnsureFails, Get, Conflict

\* Every step leaves the first write where it is, or hands it on, or settles it.
LEMMA ProfileStep == ProfileInv /\ [Next]_vars => ProfileInv'
<1> SUFFICES ASSUME ProfileInv, [Next]_vars PROVE ProfileInv'
  OBVIOUS
<1>0. TypeInv' /\ (Exists => Exists')
  BY TypeStep, DateStep DEF ProfileInv
<1>a. TypeOK
  BY DEF ProfileInv, TypeInv
<1>b. (Exists' <=> Exists) \/ \E d \in Devices : Apply(d)
  BY ExistsStep DEF ProfileInv
<1> DEFINE Rest == OneFate /\ NewUserHasProfile
<1> USE DEF OneFate, Writing, NewUserHasProfile, ProfileInv, Go, End
<1>1. ASSUME NEW d \in Devices, SignIn(d) PROVE Rest'
  BY <1>1, <1>a DEF SignIn, TypeOK, Exists
<1>2. ASSUME NEW d \in Devices, Firebase(d) PROVE Rest'
  <2>1. CASE account = "none"
    BY <1>2, <2>1, <1>a DEF Firebase, TypeOK, Exists
  <2>2. CASE account # "none"
    <3>1. /\ pc' = [pc EXCEPT ![d] = "idle"] /\ pc[d] = "firebase"
          /\ wasNew' = [wasNew EXCEPT ![d] = FALSE]
          /\ outcome' = [outcome EXCEPT ![d] = "ok"]
          /\ UNCHANGED <<account, queue, profile, lost>>
      BY <1>2, <2>2 DEF Firebase
    <3>2. OneFate'
      BY <3>1, <1>a DEF TypeOK, Exists
    <3>3. ASSUME NEW e \in Devices, (wasNew[e] /\ outcome[e] = "ok" /\ pc[e] = "idle")' PROVE Exists
      <4>1. e # d
        BY <3>1, <3>3, <1>a DEF TypeOK
      <4> QED BY <3>1, <3>3, <4>1, <1>a DEF TypeOK
    <3> QED BY <3>1, <3>2, <3>3 DEF Exists
  <2> QED BY <2>1, <2>2
<1>3. ASSUME NEW d \in Devices, FirebaseThrows(d) PROVE Rest'
  BY <1>3, <1>a DEF FirebaseThrows, Unheard, TypeOK, Exists
<1>4. ASSUME NEW d \in Devices, Upsert(d) PROVE Rest'
  BY <1>4, <1>a DEF Upsert, TypeOK, Exists
<1>5. ASSUME NEW d \in Devices, Apply(d) PROVE Rest'
  <2>1. /\ ~Exists /\ lost = "no" /\ account # "none" /\ pc[d] # "create"
        /\ \A e \in Devices \ {d} : ~Writing(e)
    BY <1>5 DEF Apply
  <2>2. /\ \A e \in Devices : ~Writing(e)'
        /\ account' # "none"
    BY <1>5, <2>1, <1>a DEF Apply, TypeOK
  <2>3. Exists' <=> lost' = "no"
    BY <1>5, <2>1, <1>a, NextWrite DEF Apply, TypeOK, RulesAllow, Exists
  <2>4. OneFate'
    BY <2>2, <2>3
  <2>5. NewUserHasProfile'
    <3>1. CASE RulesAllow
      BY <1>5, <2>1, <2>3, <3>1 DEF Apply
    <3>2. CASE ~RulesAllow
      BY <1>5, <2>1, <3>2, <1>a DEF Apply, TypeOK
    <3> QED BY <3>1, <3>2
  <2> QED BY <2>4, <2>5
<1>6. ASSUME NEW d \in Devices, Kill(d) PROVE Rest'
  <2>1. /\ Exists' <=> Exists
        /\ \A e \in Devices \ {d} : Writing(e)' <=> Writing(e)
        /\ pc'[d] = "idle" /\ (Writing(d)' <=> d \in queue') /\ (d \in queue' => d \in queue)
    BY <1>6, <1>a DEF Kill, TypeOK, Exists
  <2>2. NewUserHasProfile'
    BY <1>6, <2>1, <1>a DEF Kill, TypeOK
  <2>3. CASE pc[d] = "firebase" /\ account = "none"
    BY <1>6, <2>1, <2>2, <2>3, <1>a DEF Kill, Unheard, TypeOK
  <2>4. CASE ~(pc[d] = "firebase" /\ account = "none")
    <3>1. /\ lost' = IF pc[d] = "create" \/ d \in queue \ queue' THEN "killed" ELSE lost
          /\ account' = account
      BY <1>6, <2>4 DEF Kill
    <3>2. CASE Writing(d) /\ ~Writing(d)'
      BY <2>1, <2>2, <3>1, <3>2, <1>6, <1>a DEF Kill, TypeOK
    <3>3. CASE Writing(d) <=> Writing(d)'
      BY <2>1, <2>2, <3>1, <3>3, <1>6, <1>a DEF Kill, TypeOK
    <3> QED BY <2>1, <3>2, <3>3
  <2> QED BY <2>3, <2>4
<1>7. ASSUME NEW d \in Devices, SignOut(d) PROVE Rest'
  BY <1>7, <1>a DEF SignOut, TypeOK, Exists
<1>8. ASSUME NEW d \in Devices, FinishSignIn(d) PROVE Rest'
  BY <1>8, <1>a DEF FinishSignIn, TypeOK, Exists
<1>9. ASSUME UNCHANGED client, Exists' <=> Exists PROVE Rest'
  BY <1>9 DEF client, device
<1>10. ASSUME \A d \in Devices : ~Apply(d), UNCHANGED client PROVE Rest'
  BY <1>b, <1>9, <1>10
<1> QED
  BY <1>0, <1>1, <1>2, <1>3, <1>4, <1>5, <1>6, <1>7, <1>8, <1>10
  DEF Next, vars, client, device, Send, EnsureFails, Get, Set, Conflict

\* A signIn that returns to a new user has left a profile behind, and an account
\* whose first write is over has one exactly if it was lost in none of the four ways.
THEOREM ProfilesAccountedFor == Spec => []MissingProfileExplained
<1>1. ProfileInv => MissingProfileExplained
  BY DEF ProfileInv, OneFate, Writing, NewUserHasProfile, MissingProfileExplained
<1> QED BY <1>1, ProfileInit, ProfileStep, PTL DEF Spec

-----------------------------------------------------------------------------
(* OnboardingFlow *)

\* As long as the user has not turned back the view goes on page by page: a page
\* beyond the one it goes to was never built, and the timer of the one it goes to
\* is running, from zero until it is there.
GoesOn ==
  mounted /\ "return" \notin inputs =>
    /\ \/ inView = {goal} /\ page = goal
       \/ inView = {goal - 1, goal} /\ page \in inView
    /\ \A p \in Pages : p > goal => elapsed[p] = Unbuilt
    /\ goal # Last => elapsed[goal] \in 0 .. Idle
    /\ goal # Last /\ inView # {goal} => elapsed[goal] = 0

\* In an undisturbed flow no other timer is.
OneTimer == mounted /\ inputs = {} => \A p \in Pages : Running(p) => p = goal

\* The last page has no timer.
LoginUntimed == elapsed[Last] = Unbuilt

FlowInv == FlowTypeOK /\ LoginUntimed /\ GoesOn /\ OneTimer

-----------------------------------------------------------------------------
Timers == [Pages -> Unbuilt .. Completed]

LEMMA IdleFacts ==
  /\ Idle \in Nat /\ Idle # 0 /\ Completed \in Nat /\ Completed = Idle + 1 /\ Unbuilt = -1
  /\ 0 \in Unbuilt .. Completed /\ Unbuilt \in Unbuilt .. Completed /\ Completed \in Unbuilt .. Completed
BY IdleAssumption DEF Completed, Unbuilt

\* What is seen is built, and the timer of anything else goes on or goes away.
LEMMA ShowFacts ==
  ASSUME NEW el \in Timers, NEW seen
  PROVE  /\ Show(el, seen) \in Timers
         /\ Show(el, seen)[Last] = el[Last]
         /\ \A p \in Pages :
              /\ p \notin seen => Show(el, seen)[p] \in {el[p], Unbuilt}
              /\ p # Last /\ el[p] = Unbuilt /\ p \in seen => Show(el, seen)[p] = 0
              /\ el[p] = Unbuilt /\ p \notin seen => Show(el, seen)[p] = Unbuilt
              /\ el[p] # Unbuilt /\ p \in seen => Show(el, seen)[p] = el[p]
              /\ el[p] # Unbuilt => Show(el, seen)[p] \in {el[p], Unbuilt}
              /\ Show(el, seen)[p] \in {el[p], Unbuilt, 0}
BY IdleFacts DEF Show, Timers, Pages, Last

LEMMA ResetFacts ==
  ASSUME elapsed \in Timers, NEW p \in Pages
  PROVE  /\ ResetIdle(p) \in Timers
         /\ ResetIdle(p)[Last] = elapsed[Last]
         /\ \A x \in Pages : /\ x # p => ResetIdle(p)[x] = elapsed[x]
                             /\ x = p /\ p # Last => ResetIdle(p)[x] = 0
                             /\ x = Last => ResetIdle(p)[x] = elapsed[x]
BY IdleFacts DEF ResetIdle, Timers

LEMMA FreshFacts ==
  ASSUME NEW on \in BOOLEAN
  PROVE  /\ Fresh(on) \in Timers
         /\ \A p \in Pages : p # 0 => Fresh(on)[p] = Unbuilt
         /\ Fresh(on)[Last] = Unbuilt
         /\ on => Fresh(on)[0] = 0
BY IdleFacts DEF Fresh, Timers, Pages, Last

\* The flow is entered, or left.
LEMMA BecomesKeeps ==
  ASSUME NEW on \in BOOLEAN, Becomes(on)
  PROVE  FlowInv'
<1>1. /\ mounted' = on /\ page' = 0 /\ goal' = 0 /\ inView' = {0}
      /\ elapsed' = Fresh(on) /\ inputs' = {}
  BY DEF Becomes
<1>2. elapsed' \in Timers /\ elapsed'[Last] = Unbuilt /\ 0 \in Pages
  BY <1>1, FreshFacts DEF Pages
<1>3. FlowTypeOK' /\ LoginUntimed'
  BY <1>1, <1>2 DEF FlowTypeOK, Timers, LoginUntimed
<1>4. /\ mounted' => elapsed'[0] = 0
      /\ \A p \in Pages : p # 0 => elapsed'[p] = Unbuilt
      /\ \A p \in Pages : p > 0 => p # 0
  BY <1>1, FreshFacts
<1>5. 0 \in 0 .. Idle /\ ~(Unbuilt \in 0 .. Idle)
  BY IdleFacts
<1>6. GoesOn'
  BY <1>1, <1>4, <1>5 DEF GoesOn
<1>7. OneTimer'
  BY <1>1, <1>4, <1>5 DEF OneTimer, Running
<1> QED BY <1>3, <1>6, <1>7 DEF FlowInv

LEMMA FlowBegins == FlowInit => FlowInv
<1> SUFFICES ASSUME FlowInit PROVE FlowInv
  OBVIOUS
<1>1. /\ mounted = TRUE /\ page = 0 /\ goal = 0 /\ inView = {0}
      /\ elapsed = Fresh(TRUE) /\ inputs = {}
  BY DEF FlowInit
<1>2. TRUE \in BOOLEAN /\ 0 \in Pages
  BY DEF Pages
<1>3. elapsed \in Timers /\ elapsed[Last] = Unbuilt
  BY <1>1, <1>2, FreshFacts
<1>4. FlowTypeOK /\ LoginUntimed
  BY <1>1, <1>2, <1>3 DEF FlowTypeOK, Timers, LoginUntimed
<1>5. elapsed[0] = 0 /\ \A p \in Pages : p # 0 => elapsed[p] = Unbuilt
  BY <1>1, <1>2, FreshFacts, Zenon
<1>6. 0 \in 0 .. Idle /\ ~(Unbuilt \in 0 .. Idle)
  BY IdleFacts
<1>7. GoesOn
  <2>1. \A p \in Pages : p > 0 => elapsed[p] = Unbuilt
    BY <1>5
  <2> QED BY <1>1, <1>5, <1>6, <2>1 DEF GoesOn
<1>8. OneTimer
  BY <1>1, <1>5, <1>6 DEF OneTimer, Running
<1> QED BY <1>4, <1>7, <1>8 DEF FlowInv

\* Types of a slide to page g.
LEMMA SlideTypes ==
  ASSUME FlowTypeOK, NEW g \in Pages, NEW el \in Timers, SlideTo(g, el)
  PROVE  /\ goal' \in Pages /\ inView' \subseteq Pages /\ elapsed' \in Timers
         /\ elapsed'[Last] = el[Last]
<1>1. goal' = g /\ inView' \in {inView, {page, g}} /\ elapsed' = Show(el, inView')
  BY DEF SlideTo
<1> QED BY <1>1, ShowFacts DEF FlowTypeOK

LEMMA NextTypes ==
  ASSUME FlowTypeOK, NEW el \in Timers, NextPage(el)
  PROVE  /\ goal' \in Pages /\ inView' \subseteq Pages /\ elapsed' \in Timers
         /\ elapsed'[Last] = el[Last]
<1> DEFINE g == IF page < Last THEN page + 1 ELSE goal
<1>1. g \in Pages
  BY DEF FlowTypeOK, Pages, Last
<1> QED BY <1>1, SlideTypes DEF NextPage

\* The view goes on to the page after the one it shows.
LEMMA Advance ==
  ASSUME FlowInv, mounted, "return" \notin inputs, page < Last, NEW el \in Timers,
         \A x \in Pages : x > goal => el[x] = Unbuilt,
         page # goal /\ goal # Last => el[goal] = 0,
         goal' = page + 1, inView' = {page, page + 1}, elapsed' = Show(el, inView'), page' = page
  PROVE  GoesOn'
<1>1. page \in Pages /\ goal \in Pages /\ page + 1 \in Pages /\ (goal = page \/ goal = page + 1)
  BY DEF FlowInv, FlowTypeOK, GoesOn, Pages, Last
<1>2. goal' # Last => elapsed'[goal'] = 0
  <2>1. CASE goal = page
    <3>1. el[page + 1] = Unbuilt
      BY <1>1, <2>1 DEF Pages
    <3> QED BY <1>1, <3>1, ShowFacts
  <2>2. CASE goal = page + 1
    <3>1. goal # Last => el[goal] = 0 /\ el[goal] # Unbuilt
      BY <1>1, <2>2, IdleFacts DEF Pages
    <3> QED BY <1>1, <2>2, <3>1, ShowFacts
  <2> QED BY <1>1, <2>1, <2>2
<1>3. \A x \in Pages : x > goal' => elapsed'[x] = Unbuilt
  <2>1. ASSUME NEW x \in Pages, x > page + 1 PROVE x > goal /\ x \notin inView'
    BY <1>1, <2>1 DEF Pages
  <2> QED BY <2>1, ShowFacts
<1>4. 0 \in 0 .. Idle
  BY IdleFacts
<1>5. inView' = {goal' - 1, goal'} /\ page' \in inView'
  BY <1>1 DEF Pages
<1> QED BY <1>2, <1>3, <1>4, <1>5 DEF GoesOn

\* The view stays where it is, on its page.
LEMMA Stay ==
  ASSUME FlowInv, mounted, "return" \notin inputs, NEW el \in Timers,
         \A x \in Pages : x > goal => el[x] = Unbuilt,
         goal # Last => el[goal] \in 0 .. Idle,
         goal # Last /\ inView # {goal} => el[goal] = 0,
         goal' = goal, inView' = inView, elapsed' = Show(el, inView'), page' = page
  PROVE  GoesOn'
<1>1. goal \in Pages /\ goal \in inView /\ inView \subseteq {goal - 1, goal}
  BY DEF FlowInv, FlowTypeOK, GoesOn
<1>2. goal # Last => elapsed'[goal] = el[goal]
  <2>1. goal # Last => el[goal] # Unbuilt
    BY IdleFacts
  <2> QED BY <1>1, <2>1, ShowFacts
<1>3. \A x \in Pages : x > goal' => elapsed'[x] = Unbuilt
  <2>1. ASSUME NEW x \in Pages, x > goal PROVE x \notin inView'
    BY <1>1, <2>1 DEF Pages
  <2> QED BY <2>1, ShowFacts
<1> QED BY <1>2, <1>3 DEF FlowInv, GoesOn

\* _next, by a timer or a touch.
LEMMA NextKeeps ==
  ASSUME FlowInv, mounted, "return" \notin inputs, NEW el \in Timers, NextPage(el), page' = page,
         \A x \in Pages : x > goal => el[x] = Unbuilt,
         page # goal /\ goal # Last => el[goal] = 0
  PROVE  GoesOn'
<1>1. page \in Pages /\ goal \in Pages /\ (goal = page \/ goal = page + 1)
  BY DEF FlowInv, FlowTypeOK, GoesOn, Pages
<1>2. CASE page < Last
  <2>1. page + 1 # page
    BY <1>1 DEF Pages
  <2>2. goal' = page + 1 /\ inView' = {page, page + 1} /\ elapsed' = Show(el, inView')
    BY <1>2, <2>1 DEF NextPage, SlideTo
  <2> QED BY <1>2, <2>2, Advance
<1>3. CASE ~(page < Last)
  <2>1. page = Last /\ goal = Last
    BY <1>1, <1>3 DEF Pages, Last
  <2>2. goal' = goal /\ inView' = inView /\ elapsed' = Show(el, inView')
    BY <1>3, <2>1 DEF NextPage, SlideTo
  <2> QED BY <2>1, <2>2, Stay
<1> QED BY <1>2, <1>3

LEMMA FireKeeps ==
  ASSUME FlowInv, NEW p \in Pages, Fire(p)
  PROVE  FlowInv'
<1> DEFINE el == [elapsed EXCEPT ![p] = Completed]
<1>1. mounted /\ elapsed[p] = Idle /\ NextPage(el) /\ UNCHANGED <<mounted, page, inputs>>
  BY DEF Fire, Due
<1>2. elapsed \in Timers /\ el \in Timers /\ page \in Pages /\ goal \in Pages
  BY IdleFacts DEF FlowInv, FlowTypeOK, Timers
<1>3. /\ el[p] = Completed /\ \A x \in Pages : x # p => el[x] = elapsed[x]
  BY <1>2 DEF Timers
<1>4. FlowTypeOK' /\ LoginUntimed'
  <2> HIDE DEF el
  <2>1. p # Last /\ Last \in Pages
    BY <1>1, IdleFacts DEF FlowInv, LoginUntimed, Pages, Last
  <2>2. el[Last] = Unbuilt
    BY <1>3, <2>1 DEF FlowInv, LoginUntimed
  <2>3. /\ goal' \in Pages /\ inView' \subseteq Pages /\ elapsed' \in Timers
        /\ elapsed'[Last] = el[Last]
    BY <1>1, <1>2, NextTypes DEF FlowInv
  <2> QED BY <1>1, <2>2, <2>3 DEF FlowInv, FlowTypeOK, LoginUntimed, Timers
<1>5. ASSUME "return" \notin inputs
      PROVE  /\ \A x \in Pages : x > goal => el[x] = Unbuilt
             /\ page # goal /\ goal # Last => el[goal] = 0
  <2>1. ~(p > goal)
    BY <1>1, <1>5, IdleFacts DEF FlowInv, GoesOn
  <2>2. \A x \in Pages : x > goal => el[x] = Unbuilt
    BY <1>1, <1>3, <1>5, <2>1 DEF FlowInv, GoesOn
  <2>3. ASSUME page # goal, goal # Last PROVE el[goal] = 0
    <3>1. inView # {goal}
      BY <1>1, <1>5, <2>3 DEF FlowInv, GoesOn
    <3>2. elapsed[goal] = 0
      BY <1>1, <1>5, <2>3, <3>1 DEF FlowInv, GoesOn
    <3>3. p # goal
      BY <1>1, <3>2, IdleFacts
    <3> QED BY <1>2, <1>3, <3>2, <3>3
  <2> QED BY <2>2, <2>3
<1>6. GoesOn'
  <2> HIDE DEF el
  <2>1. CASE "return" \in inputs
    BY <1>1, <2>1 DEF GoesOn
  <2>2. CASE "return" \notin inputs
    BY <1>1, <1>2, <1>5, <2>2, NextKeeps
  <2> QED BY <2>1, <2>2
<1>7. OneTimer'
  <2> SUFFICES ASSUME inputs = {}, NEW x \in Pages, Running(x)' PROVE x = goal'
    BY <1>1 DEF OneTimer
  <2>1. p = goal
    <3>1. Running(p)
      BY <1>1, IdleFacts DEF Running
    <3> QED BY <1>1, <3>1 DEF FlowInv, OneTimer
  <2>2. \A y \in Pages : ~(el[y] \in 0 .. Idle)
    <3>1. \A y \in Pages : y # goal => ~(elapsed[y] \in 0 .. Idle)
      BY <1>1 DEF FlowInv, OneTimer, Running
    <3>2. ~(Completed \in 0 .. Idle)
      BY IdleFacts
    <3> QED BY <1>3, <2>1, <3>1, <3>2
  <2>3. elapsed' = Show(el, inView') /\ inView' \in {inView, {page, goal'}}
    BY <1>1 DEF NextPage, SlideTo
  <2>4. goal # Last => inView = {goal} /\ page = goal
    <3>1. goal # Last /\ inView # {goal} => elapsed[goal] = 0
      BY <1>1 DEF FlowInv, GoesOn
    <3>2. goal # Last => inView = {goal}
      BY <1>1, <2>1, <3>1, IdleFacts
    <3> QED BY <1>1, <3>2 DEF FlowInv, GoesOn
  <2>5. x \in Pages /\ elapsed'[x] \in 0 .. Idle
    BY DEF Running
  <2>6. x # Last /\ el[x] = Unbuilt /\ x \in inView'
    <3> HIDE DEF el
    <3>1. elapsed'[x] # Unbuilt /\ elapsed'[x] # el[x]
      BY <2>2, <2>5, IdleFacts
    <3>2. el[x] = Unbuilt
      BY <1>2, <2>3, <3>1, ShowFacts
    <3>3. x \in inView'
      BY <1>2, <2>3, <3>1, <3>2, ShowFacts
    <3>4. x # Last
      BY <2>3, <3>1, <1>2, <2>5 DEF Show, Last
    <3> QED BY <3>2, <3>3, <3>4
  <2>7. el[goal] # Unbuilt
    BY <1>3, <2>1, IdleFacts
  <2>8. goal # Last
    BY <1>1, <2>1, IdleFacts DEF FlowInv, LoginUntimed
  <2> QED BY <2>3, <2>4, <2>6, <2>7, <2>8
<1> QED BY <1>4, <1>6, <1>7 DEF FlowInv

LEMMA CrossKeeps == FlowInv /\ Cross => FlowInv'
<1> SUFFICES ASSUME FlowInv, Cross PROVE FlowInv'
  OBVIOUS
<1>1. mounted /\ page # goal /\ page' = goal /\ UNCHANGED <<mounted, goal, inView, elapsed, inputs>>
  BY DEF Cross
<1>2. FlowTypeOK' /\ LoginUntimed'
  BY <1>1 DEF FlowInv, FlowTypeOK, LoginUntimed
<1>3. GoesOn'
  BY <1>1 DEF FlowInv, GoesOn
<1>4. OneTimer'
  BY <1>1 DEF FlowInv, OneTimer, Running
<1> QED BY <1>2, <1>3, <1>4 DEF FlowInv

LEMMA LandKeeps == FlowInv /\ Land => FlowInv'
<1> SUFFICES ASSUME FlowInv, Land PROVE FlowInv'
  OBVIOUS
<1>1. /\ mounted /\ page = goal /\ ~AtRest /\ inView' = {goal}
      /\ elapsed' = Show(elapsed, inView') /\ UNCHANGED <<mounted, page, goal, inputs>>
  BY DEF Land
<1>2. elapsed \in Timers /\ goal \in Pages /\ Last \in Pages
  BY DEF FlowInv, FlowTypeOK, Timers, Pages, Last
<1>3. FlowTypeOK' /\ LoginUntimed'
  BY <1>1, <1>2, ShowFacts DEF FlowInv, FlowTypeOK, Timers, LoginUntimed
<1>4. GoesOn'
  <2> SUFFICES ASSUME "return" \notin inputs
               PROVE  /\ \A p \in Pages : p > goal => elapsed'[p] = Unbuilt
                      /\ goal # Last => elapsed'[goal] \in 0 .. Idle
    BY <1>1 DEF GoesOn
  <2>1. ASSUME NEW p \in Pages, p > goal PROVE elapsed'[p] = Unbuilt
    <3>1. elapsed[p] = Unbuilt
      BY <1>1, <2>1 DEF FlowInv, GoesOn
    <3>2. p \notin inView'
      BY <1>1, <1>2, <2>1 DEF Pages
    <3> QED BY <1>1, <1>2, <3>1, <3>2, ShowFacts
  <2>2. ASSUME goal # Last PROVE elapsed'[goal] \in 0 .. Idle
    <3>1. elapsed[goal] \in 0 .. Idle
      BY <1>1, <2>2 DEF FlowInv, GoesOn
    <3>2. elapsed[goal] # Unbuilt
      BY <3>1, IdleFacts
    <3>3. elapsed'[goal] = elapsed[goal]
      BY <1>1, <1>2, <3>2, ShowFacts
    <3> QED BY <3>1, <3>3
  <2> QED BY <2>1, <2>2
<1>5. OneTimer'
  <2> SUFFICES ASSUME inputs = {}, NEW p \in Pages, elapsed'[p] \in 0 .. Idle, p # goal PROVE FALSE
    BY <1>1 DEF OneTimer, Running
  <2>1. ~(elapsed[p] \in 0 .. Idle) /\ ~(Unbuilt \in 0 .. Idle)
    BY <1>1, IdleFacts DEF FlowInv, OneTimer, Running
  <2>2. p \notin inView'
    BY <1>1
  <2> QED BY <1>1, <1>2, <2>1, <2>2, ShowFacts
<1> QED BY <1>3, <1>4, <1>5 DEF FlowInv

LEMMA TickKeeps == FlowInv /\ Tick => FlowInv'
<1> SUFFICES ASSUME FlowInv, Tick PROVE FlowInv'
  OBVIOUS
<1>1. /\ mounted /\ inView = {page} /\ \A p \in Pages : elapsed[p] # Idle
      /\ elapsed' = Elapse /\ UNCHANGED <<mounted, page, goal, inView, inputs>>
  BY DEF Tick, AtRest, Due
<1>2. elapsed \in Timers /\ goal \in Pages /\ Last \in Pages
  BY DEF FlowInv, FlowTypeOK, Timers, Pages, Last
<1>3. \A p \in Pages : /\ elapsed[p] \in 0 .. Idle => elapsed'[p] = elapsed[p] + 1
                       /\ ~(elapsed[p] \in 0 .. Idle) => elapsed'[p] = elapsed[p]
  BY <1>1, <1>2 DEF Elapse, Running
<1>4. \A p \in Pages : elapsed[p] \in 0 .. Idle => elapsed'[p] \in 0 .. Idle
  BY <1>1, <1>3, IdleFacts
<1>5. /\ ~(Unbuilt \in 0 .. Idle)
      /\ \A t : t \in 0 .. Idle => t \in Unbuilt .. Completed
  BY IdleFacts
<1>6. FlowTypeOK' /\ LoginUntimed'
  <2>1. \A p \in Pages : elapsed'[p] \in Unbuilt .. Completed
    BY <1>2, <1>3, <1>4, <1>5 DEF Timers
  <2>2. elapsed' = [p \in Pages |-> elapsed'[p]]
    BY <1>1 DEF Elapse
  <2>3. elapsed' \in [Pages -> Unbuilt .. Completed]
    BY <2>1, <2>2
  <2>4. LoginUntimed'
    BY <1>2, <1>3, <1>5 DEF FlowInv, LoginUntimed
  <2> QED BY <1>1, <2>3, <2>4 DEF FlowInv, FlowTypeOK
<1>7. GoesOn'
  <2> SUFFICES ASSUME "return" \notin inputs
               PROVE  /\ inView = {goal} /\ page = goal
                      /\ \A p \in Pages : p > goal => elapsed'[p] = Unbuilt
                      /\ goal # Last => elapsed'[goal] \in 0 .. Idle
    BY <1>1 DEF GoesOn
  <2>1. inView = {goal} /\ page = goal
    <3>1. goal - 1 # goal
      BY <1>2 DEF Pages
    <3> QED BY <1>1, <3>1 DEF FlowInv, GoesOn
  <2>2. \A p \in Pages : p > goal => elapsed'[p] = Unbuilt
    BY <1>1, <1>3, <1>5 DEF FlowInv, GoesOn
  <2>3. goal # Last => elapsed'[goal] \in 0 .. Idle
    BY <1>1, <1>2, <1>4 DEF FlowInv, GoesOn
  <2> QED BY <2>1, <2>2, <2>3
<1>8. OneTimer'
  <2> SUFFICES ASSUME inputs = {}, NEW p \in Pages, elapsed'[p] \in 0 .. Idle PROVE p = goal
    BY <1>1 DEF OneTimer, Running
  <2>1. elapsed[p] \in 0 .. Idle
    BY <1>3
  <2> QED BY <1>1, <2>1 DEF FlowInv, OneTimer, Running
<1> QED BY <1>6, <1>7, <1>8 DEF FlowInv

LEMMA TapKeeps ==
  ASSUME FlowInv, NEW p \in Pages, Tap(p)
  PROVE  FlowInv'
<1>1. /\ mounted /\ p \in inView
      /\ inputs' = inputs \cup {IF goal' < goal THEN "return" ELSE "touch"}
      /\ UNCHANGED <<mounted, page>>
      /\ \/ p \in TouchAdvances /\ NextPage(ResetIdle(p))
         \/ SlideTo(page, ResetIdle(p))
  BY DEF Tap, Note
<1>2. elapsed \in Timers /\ page \in Pages /\ goal \in Pages /\ ResetIdle(p) \in Timers
  BY ResetFacts DEF FlowInv, FlowTypeOK, Timers
<1>3. /\ ResetIdle(p)[Last] = elapsed[Last]
      /\ \A x \in Pages : /\ x # p => ResetIdle(p)[x] = elapsed[x]
                          /\ x = p /\ p # Last => ResetIdle(p)[x] = 0
                          /\ x = Last => ResetIdle(p)[x] = elapsed[x]
  BY <1>2, ResetFacts
<1>4. FlowTypeOK' /\ LoginUntimed'
  <2>1. /\ goal' \in Pages /\ inView' \subseteq Pages /\ elapsed' \in Timers
        /\ elapsed'[Last] = ResetIdle(p)[Last]
    BY <1>1, <1>2, NextTypes, SlideTypes DEF FlowInv
  <2>2. inputs' \subseteq {"touch", "return"}
    BY <1>1 DEF FlowInv, FlowTypeOK
  <2> QED BY <1>1, <1>3, <2>1, <2>2 DEF FlowInv, FlowTypeOK, LoginUntimed, Timers
<1>5. OneTimer'
  BY <1>1 DEF OneTimer
<1>6. GoesOn'
  <2> SUFFICES ASSUME "return" \notin inputs' PROVE GoesOn'
    BY DEF GoesOn
  <2>1. "return" \notin inputs /\ ~(goal' < goal)
    BY <1>1
  <2>2. p \in {goal - 1, goal} /\ page \in {goal - 1, goal}
    BY <1>1, <2>1 DEF FlowInv, GoesOn
  <2>3. \A x \in Pages : x > goal => ResetIdle(p)[x] = Unbuilt
    <3>1. \A x \in Pages : x > goal => x # p
      BY <1>2, <2>2 DEF Pages
    <3> QED BY <1>1, <1>3, <2>1, <3>1 DEF FlowInv, GoesOn
  <2>4. goal # Last => ResetIdle(p)[goal] \in {elapsed[goal], 0}
    BY <1>2, <1>3
  <2>5. page # goal => inView # {goal}
    BY <1>1, <2>1 DEF FlowInv, GoesOn
  <2>6. goal # Last /\ inView # {goal} => ResetIdle(p)[goal] = 0
    BY <1>1, <2>1, <2>4 DEF FlowInv, GoesOn
  <2>7. CASE NextPage(ResetIdle(p))
    BY <1>1, <1>2, <2>1, <2>3, <2>5, <2>6, <2>7, NextKeeps
  <2>8. CASE SlideTo(page, ResetIdle(p))
    <3>1. goal' = page /\ inView' = inView /\ elapsed' = Show(ResetIdle(p), inView')
      BY <2>8 DEF SlideTo
    <3>2. page = goal
      BY <1>2, <2>1, <2>2, <3>1 DEF Pages
    <3>3. goal # Last => ResetIdle(p)[goal] \in 0 .. Idle
      <4>1. 0 \in 0 .. Idle
        BY IdleFacts
      <4> QED BY <1>1, <2>1, <2>4, <4>1 DEF FlowInv, GoesOn
    <3> QED BY <1>1, <1>2, <2>1, <2>3, <2>6, <3>1, <3>2, <3>3, Stay
  <2> QED BY <1>1, <2>7, <2>8
<1> QED BY <1>4, <1>5, <1>6 DEF FlowInv

LEMMA SwipeKeeps ==
  ASSUME FlowInv, NEW p \in Pages, NEW q \in Pages, Swipe(p, q)
  PROVE  FlowInv'
<1>1. PICK on \in BOOLEAN :
        /\ goal' = IF on THEN q ELSE page
        /\ inputs' = inputs \cup {IF on /\ q > page THEN "touch" ELSE "return"}
  BY DEF Swipe, Note
<1>2. /\ mounted /\ p \in inView /\ q \in {page - 1, page + 1}
      /\ inView' = {page, q} /\ elapsed' = Show(ResetIdle(p), inView')
      /\ UNCHANGED <<mounted, page>>
  BY DEF Swipe
<1>3. elapsed \in Timers /\ page \in Pages /\ goal \in Pages /\ ResetIdle(p) \in Timers
  BY ResetFacts DEF FlowInv, FlowTypeOK, Timers
<1>4. /\ ResetIdle(p)[Last] = elapsed[Last]
      /\ \A x \in Pages : /\ x # p => ResetIdle(p)[x] = elapsed[x]
                          /\ x = p /\ p # Last => ResetIdle(p)[x] = 0
                          /\ x = Last => ResetIdle(p)[x] = elapsed[x]
  BY <1>3, ResetFacts
<1>5. FlowTypeOK' /\ LoginUntimed'
  <2>1. elapsed' \in Timers /\ elapsed'[Last] = ResetIdle(p)[Last]
    BY <1>2, <1>3, ShowFacts
  <2>2. goal' \in Pages /\ inView' \subseteq Pages /\ inputs' \subseteq {"touch", "return"}
    BY <1>1, <1>2, <1>3 DEF FlowInv, FlowTypeOK
  <2> QED BY <1>2, <1>4, <2>1, <2>2 DEF FlowInv, FlowTypeOK, LoginUntimed, Timers
<1>6. OneTimer'
  BY <1>1 DEF OneTimer
<1>7. GoesOn'
  <2> SUFFICES ASSUME "return" \notin inputs' PROVE GoesOn'
    BY DEF GoesOn
  <2>1. "return" \notin inputs /\ on /\ q > page
    BY <1>1
  <2>2. q = page + 1 /\ page < Last
    BY <1>2, <1>3, <2>1 DEF Pages, Last
  <2>3. p \in {goal - 1, goal}
    BY <1>2, <2>1 DEF FlowInv, GoesOn
  <2>4. \A x \in Pages : x > goal => ResetIdle(p)[x] = Unbuilt
    <3>1. \A x \in Pages : x > goal => x # p
      BY <1>3, <2>3 DEF Pages
    <3> QED BY <1>2, <1>4, <2>1, <3>1 DEF FlowInv, GoesOn
  <2>5. page # goal /\ goal # Last => ResetIdle(p)[goal] = 0
    <3>1. page # goal => inView # {goal}
      BY <1>2, <2>1 DEF FlowInv, GoesOn
    <3>2. goal # Last => ResetIdle(p)[goal] \in {elapsed[goal], 0}
      BY <1>3, <1>4
    <3> QED BY <1>2, <2>1, <3>1, <3>2 DEF FlowInv, GoesOn
  <2>6. goal' = page + 1 /\ inView' = {page, page + 1}
    BY <1>1, <1>2, <2>1, <2>2
  <2> QED BY <1>2, <1>3, <2>1, <2>2, <2>4, <2>5, <2>6, Advance
<1> QED BY <1>5, <1>6, <1>7 DEF FlowInv

LEMMA BackKeeps == FlowInv /\ Back => FlowInv'
<1> SUFFICES ASSUME FlowInv, Back PROVE FlowInv'
  OBVIOUS
<1>1. CASE Becomes(FALSE)
  BY <1>1, BecomesKeeps
<1>2. CASE page > 0 /\ SlideTo(page - 1, elapsed) /\ Note("return") /\ UNCHANGED <<mounted, page>>
  <2>1. elapsed \in Timers /\ page - 1 \in Pages
    BY <1>2 DEF FlowInv, FlowTypeOK, Timers, Pages
  <2>2. /\ goal' \in Pages /\ inView' \subseteq Pages /\ elapsed' \in Timers
        /\ elapsed'[Last] = elapsed[Last]
    BY <1>2, <2>1, SlideTypes DEF FlowInv
  <2>3. "return" \in inputs' /\ inputs' \subseteq {"touch", "return"}
    BY <1>2 DEF Note, FlowInv, FlowTypeOK
  <2>4. FlowTypeOK' /\ LoginUntimed'
    BY <1>2, <2>2, <2>3 DEF FlowInv, FlowTypeOK, LoginUntimed, Timers
  <2>5. GoesOn' /\ OneTimer'
    BY <2>3 DEF GoesOn, OneTimer
  <2> QED BY <2>4, <2>5 DEF FlowInv
<1> QED BY <1>1, <1>2 DEF Back

LEMMA FlowStep == FlowInv /\ [FlowNext]_flowVars => FlowInv'
<1> SUFFICES ASSUME FlowInv, [FlowNext]_flowVars PROVE FlowInv'
  OBVIOUS
<1>1. CASE Cross \/ Land \/ Tick \/ Back
  BY <1>1, CrossKeeps, LandKeeps, TickKeeps, BackKeeps
<1>2. CASE \E p \in Pages : Fire(p)
  BY <1>2, FireKeeps
<1>3. CASE \E p \in Pages : Tap(p)
  BY <1>3, TapKeeps
<1>4. CASE \E p \in Pages : Leave(p)
  BY <1>4, BecomesKeeps DEF Leave
<1>5. CASE \E p, q \in Pages : Swipe(p, q)
  BY <1>5, SwipeKeeps
<1>6. CASE Enter
  BY <1>6, BecomesKeeps DEF Enter
<1>7. CASE UNCHANGED flowVars
  BY <1>7 DEF flowVars, FlowInv, FlowTypeOK, LoginUntimed, GoesOn, OneTimer, Running
<1> QED BY <1>1, <1>2, <1>3, <1>4, <1>5, <1>6, <1>7 DEF FlowNext, User

\* Types, for every idle time.
THEOREM FlowTypeCorrect == FlowSpec => []FlowTypeOK
<1>1. FlowInv => FlowTypeOK
  BY DEF FlowInv
<1> QED BY <1>1, FlowBegins, FlowStep, PTL DEF FlowSpec

\* As long as the user has not turned back the flow does not strand: a page at
\* rest, other than the last, has its timer running, and in an undisturbed flow
\* no other page has, so that each is shown for its whole idle time
\* (_restartIdle and _next of the five screens).
THEOREM PagesAreTimed == FlowSpec => []ShownPageIsTimed
<1>1. FlowInv => ShownPageIsTimed
  <2> SUFFICES ASSUME FlowInv, mounted, AtRest
               PROVE  /\ page # Last /\ "return" \notin inputs => Running(page)
                      /\ inputs = {} => \A p \in Pages : Running(p) => p = page
    BY DEF ShownPageIsTimed
  <2>1. ASSUME "return" \notin inputs PROVE page = goal
    <3>1. goal - 1 # goal
      BY DEF FlowInv, FlowTypeOK, Pages
    <3> QED BY <2>1, <3>1 DEF FlowInv, GoesOn, AtRest
  <2>2. page # Last /\ "return" \notin inputs => Running(page)
    BY <2>1 DEF FlowInv, GoesOn, Running
  <2> QED BY <2>1, <2>2 DEF FlowInv, OneTimer
<1> QED BY <1>1, FlowBegins, FlowStep, PTL DEF FlowSpec
=============================================================================
