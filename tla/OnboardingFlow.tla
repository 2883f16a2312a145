--------------------------- MODULE OnboardingFlow ---------------------------
(***************************************************************************)
(* The onboarding pages: a PageView of six screens (onboarding_flow.dart). *)
(* Each of the first five has an idle timer of its own, started when the   *)
(* screen is built and restarted by a touch, that calls _next when it has  *)
(* run out, whatever page is shown by then.  _next slides to the page      *)
(* after the one that fills most of the view.                              *)
(*                                                                         *)
(* A slide is short against the idle time: no time passes during one, but  *)
(* timers that run out together and the user's fingers find it half-way.   *)
(***************************************************************************)
EXTENDS Integers

CONSTANT Idle   \* ticks until a timer runs out

ASSUME IdleAssumption == Idle \in Nat \ {0}

Pages == 0 .. 5
Last == 5                  \* OnboardingLoginOrRegister: no timer
TouchAdvances == {3, 4}    \* boost and lock: _resetIdle calls _autoNextCb, too
StaysOnStarted == {3}      \* boost: the button leads where the user is already

VARIABLES
  mounted,   \* whether the flow is on the screen
  page,      \* _index, the page that fills most of the view
  goal,      \* the page the view comes to rest on
  inView,    \* the pages of which some part is seen
  elapsed,   \* per page, the ticks its timer has run
  inputs     \* what the user has done to the flow since it was entered

flowVars == <<mounted, page, goal, inView, elapsed, inputs>>

Unbuilt == -1
Completed == Idle + 1
Running(p) == elapsed[p] \in 0 .. Idle
AtRest == inView = {page}

Fresh(on) == [p \in Pages |-> IF on /\ p = 0 THEN 0 ELSE Unbuilt]
FlowInit ==
  /\ mounted = TRUE
  /\ page = 0 /\ goal = 0 /\ inView = {0}
  /\ elapsed = Fresh(TRUE)
  /\ inputs = {}

-----------------------------------------------------------------------------
\* A screen is built, and its timer started, when some part of it is seen.  All
\* but the first are kept alive from then on.
ShowAhead(el, seen) ==  \* mutant: the page after is built as well
  [p \in Pages |-> IF p # Last /\ el[p] = Unbuilt /\ (p \in seen \/ p - 1 \in seen) THEN 0
                   ELSE IF p = 0 /\ p \notin seen THEN Unbuilt ELSE el[p]]
ShowPaused(el, seen) ==  \* mutant: a screen's timer waits for the first touch
  [p \in Pages |-> IF p = 0 /\ p \notin seen THEN Unbuilt ELSE el[p]]
Show(el, seen) ==
  [p \in Pages |-> IF p # Last /\ el[p] = Unbuilt /\ p \in seen THEN 0
                   ELSE IF p = 0 /\ p \notin seen THEN Unbuilt ELSE el[p]]

\* The view starts towards page p.
SlideTo(p, el) ==
  /\ goal' = p
  /\ inView' = IF p = page THEN inView ELSE {page, p}
  /\ elapsed' = Show(el, inView')

\* _next.  On the last page onFinished goes to the route the user is on.
NextPage(el) == SlideTo(IF page < Last THEN page + 1 ELSE goal, el)

\* _resetIdle of page p's screen, without what boost and lock add to it.
ResetIdleStops(p) ==  \* mutant: stopped and reset, but not started again
  [elapsed EXCEPT ![p] = Completed]
ResetIdle(p) == IF p = Last THEN elapsed ELSE [elapsed EXCEPT ![p] = 0]

Note(input) == inputs' = inputs \cup {input}

-----------------------------------------------------------------------------
(* The framework *)

\* The slide passes the middle (onPageChanged) and ends.
Cross ==
  /\ mounted /\ page # goal
  /\ page' = goal
  /\ UNCHANGED <<mounted, goal, inView, elapsed, inputs>>
Land ==
  /\ mounted /\ page = goal /\ ~AtRest
  /\ inView' = {page}
  /\ elapsed' = Show(elapsed, inView')
  /\ UNCHANGED <<mounted, page, goal, inputs>>

Due(p) == elapsed[p] = Idle

\* A timer runs out.
Fire(p) ==
  /\ mounted /\ Due(p)
  /\ NextPage([elapsed EXCEPT ![p] = Completed])
  /\ UNCHANGED <<mounted, page, inputs>>

ElapseOn ==  \* mutant: a timer that has run out runs on
  [p \in Pages |-> IF elapsed[p] # Unbuilt THEN elapsed[p] + 1 ELSE elapsed[p]]
Elapse == [p \in Pages |-> IF Running(p) THEN elapsed[p] + 1 ELSE elapsed[p]]

Tick ==
  /\ mounted /\ AtRest
  /\ \A p \in Pages : ~Due(p)
  /\ \E p \in Pages : Running(p)
  /\ elapsed' = Elapse
  /\ UNCHANGED <<mounted, page, goal, inView, inputs>>

-----------------------------------------------------------------------------
(* The user *)

\* A finger goes down on page p's screen and up again.  It stops a slide, which
\* falls back to the nearer page.  On boost the button does the same.
Tap(p) ==
  /\ mounted /\ p \in inView
  /\ IF p \in TouchAdvances THEN NextPage(ResetIdle(p)) ELSE SlideTo(page, ResetIdle(p))
  /\ Note(IF goal' < goal THEN "return" ELSE "touch")
  /\ UNCHANGED <<mounted, page>>

\* The view is dragged towards page q, and goes there or springs back.
Swipe(p, q) ==
  /\ mounted /\ p \in inView /\ q \in Pages \cap {page - 1, page + 1}
  /\ \E on \in BOOLEAN :
       /\ goal' = IF on THEN q ELSE page
       /\ Note(IF on /\ q > page THEN "touch" ELSE "return")
  /\ inView' = {page, q}
  /\ elapsed' = Show(ResetIdle(p), inView')
  /\ UNCHANGED <<mounted, page>>

Becomes(on) ==
  /\ mounted' = on
  /\ page' = 0 /\ goal' = 0 /\ inView' = {0}
  /\ elapsed' = Fresh(on)
  /\ inputs' = {}

\* The system's back: one page back, out of the flow on the first.
Back ==
  /\ mounted
  /\ \/ page = 0 /\ Becomes(FALSE)
     \/ /\ page > 0 /\ SlideTo(page - 1, elapsed) /\ Note("return")
        /\ UNCHANGED <<mounted, page>>

\* "Get started", "Check our rates", "Login", "Register" or Google: another route.
Leave(p) ==
  /\ mounted /\ p \in inView \ StaysOnStarted
  /\ Becomes(FALSE)

\* The app is started again and its splash screen leads here.
Enter ==
  /\ ~mounted
  /\ Becomes(TRUE)

User ==
  \/ \E p \in Pages : Tap(p) \/ Leave(p) \/ \E q \in Pages : Swipe(p, q)
  \/ Back
  \/ Enter

FlowNext == Cross \/ Land \/ (\E p \in Pages : Fire(p)) \/ Tick \/ User

FlowSpec == FlowInit /\ [][FlowNext]_flowVars

\* Frames are drawn and timers run.  The user need not do anything.
FairFlowSpec ==
  /\ FlowSpec /\ WF_flowVars(Cross) /\ WF_flowVars(Land) /\ WF_flowVars(Tick)
  /\ WF_flowVars(\E p \in Pages : Fire(p))

-----------------------------------------------------------------------------
FlowTypeOK ==
  /\ mounted \in BOOLEAN
  /\ page \in Pages /\ goal \in Pages
  /\ inView \subseteq Pages
  /\ elapsed \in [Pages -> Unbuilt .. Completed]
  /\ inputs \subseteq {"touch", "return"}

\* As long as the user has not turned back, a page other than the last that is
\* at rest has a timer running: the flow does not strand on it.  In an undisturbed
\* flow it is the only one, so that each page is shown for its whole idle time.
ShownPageIsTimed ==
  mounted /\ AtRest =>
    /\ page # Last /\ "return" \notin inputs => Running(page)
    /\ inputs = {} => \A p \in Pages : Running(p) => p = page

\* Once the user does no more, the flow is left, on its last page or on a page
\* whose timer had run out before the user came back to it.
SettlesWhenQuiet ==
  []<><<User>>_flowVars \/ <>[](~mounted \/ page = Last \/ elapsed[page] = Completed)
=============================================================================
