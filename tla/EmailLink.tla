----------------------------- MODULE EmailLink -----------------------------
(***************************************************************************)
(* How the app sends the mail with a sign-in link (lib/core): the entry    *)
(* page asks the policy service, has the mail sent and stores its address; *)
(* the page that waits for the link has the mail sent again after a        *)
(* countdown (core/router/app_router.dart, core/auth).  Each tap starts a  *)
(* callback; callbacks and pages overlap.  On the web the user goes to any *)
(* page, and reloads it, at any time.                                      *)
(*                                                                         *)
(* What the waiting page does with a copied link is no action: whatever    *)
(* the clipboard holds, the guard at app_router.dart:208 ends it.          *)
(***************************************************************************)
EXTENDS Integers

CONSTANTS
  Addresses,  \* valid addresses the user may enter
  Default,    \* the address shown on a page opened without one
  None,       \* no address
  Calls,      \* callbacks there can be at a time
  Countdown   \* initialCountdown, in seconds

ASSUME LinkAssumption ==
  /\ Default \notin Addresses /\ None \notin Addresses \cup {Default}
  /\ Countdown \in Nat \ {0}

VARIABLES
  page,       \* "entry", "pending" (the page that waits) or "elsewhere"
  shown,      \* the address the waiting page shows
  remaining,  \* remainingSeconds of its notifier
  canResend,  \* whether its button is enabled
  ticking,    \* its timers that run
  calls,      \* calls[c]: a callback; mounted: what it was started from is still there
  stored,     \* the address in the secure storage
  history,    \* addresses of the waiting pages in the browser's history
  mailed,     \* the addresses that a mail went to
  since,      \* seconds since the last mail
  odd         \* what else has happened

countdown == <<remaining, canResend, ticking>>
mails == <<mailed, since>>
vars == <<page, shown, countdown, calls, stored, history, mails, odd>>

-----------------------------------------------------------------------------
Shown == Addresses \cup {Default}
Free == [at |-> "free", from |-> "entry", to |-> None, mounted |-> FALSE]

Init ==
  /\ page = "elsewhere" /\ shown = None
  /\ remaining = 0 /\ canResend = FALSE /\ ticking = 0
  /\ calls = [c \in Calls |-> Free]
  /\ stored = None /\ history = {}
  /\ mailed = {} /\ since = Countdown
  /\ odd = {}

Busy == {c \in Calls : calls[c].at # "free"}
Begin(c, at, to) ==
  /\ calls[c] = Free
  /\ calls' = [calls EXCEPT ![c] = [at |-> at, from |-> page, to |-> to, mounted |-> TRUE]]
  /\ odd' = IF Busy = {} THEN odd ELSE odd \cup {"crossed"}
At(c, here) == calls[c].at = here
Go(c, there) == calls' = [calls EXCEPT ![c].at = there]
End(c) == calls' = [calls EXCEPT ![c] = Free]

\* The page changes: what the old one started is on its own, and a waiting page
\* gets a notifier for its address, whose build starts the countdown.
Unmounted(cs) ==
  [c \in Calls |-> IF cs[c] = Free THEN Free ELSE [cs[c] EXCEPT !.mounted = FALSE]]
Show(p, a) ==
  /\ page' = p /\ shown' = a
  /\ remaining' = (IF p = "pending" THEN Countdown ELSE 0)
  /\ canResend' = FALSE
  /\ ticking' = (IF p = "pending" THEN 1 ELSE 0)
  /\ history' = (IF p = "pending" THEN history \cup {a} ELSE history)

-----------------------------------------------------------------------------
\* "Next" with a valid address; the button stays enabled.
Submit(c, a) ==
  /\ page = "entry" /\ Begin(c, "policy", a)
  /\ UNCHANGED <<page, shown, countdown, stored, history, mails>>

\* beforeCreate answers 200.  The callback goes on with the ref of its page, which
\* throws when the page is gone.
Allow(c) ==
  /\ At(c, "policy")
  /\ IF calls[c].mounted THEN Go(c, "send") ELSE End(c)
  /\ UNCHANGED <<page, shown, countdown, stored, history, mails, odd>>

\* Another status, no answer, or none within five seconds.
Deny(c) ==
  /\ At(c, "policy") /\ End(c)
  /\ UNCHANGED <<page, shown, countdown, stored, history, mails, odd>>

Mailed(S) == mailed' = mailed \cup S /\ since' = IF S = {} THEN since ELSE 0

\* sendSignInLinkToEmail.
Mail(c) ==
  /\ At(c, "send") /\ Go(c, "write") /\ Mailed({calls[c].to})
  /\ UNCHANGED <<page, shown, countdown, stored, history, odd>>

\* It throws; the mail may be under way all the same.
MailThrows(c) ==
  /\ At(c, "send") /\ End(c)
  /\ \E S \in SUBSET {calls[c].to} :
       Mailed(S) /\ odd' = IF S = {} THEN odd ELSE odd \cup {"lost"}
  /\ UNCHANGED <<page, shown, countdown, stored, history>>

RestartBeside ==  \* mutant: the old timer is not cancelled
  /\ remaining' = Countdown /\ canResend' = FALSE /\ ticking' = ticking + 1
RestartStopped ==  \* mutant: the timer that has run out is not started again
  /\ remaining' = Countdown /\ canResend' = FALSE /\ ticking' = 0
RestartCountdown ==
  /\ remaining' = Countdown /\ canResend' = FALSE /\ ticking' = 1

\* The address is stored and the callback ends: the entry page gives way to the
\* waiting one, the waiting page's countdown begins anew.  Either throws when
\* what the callback was started from is gone.
WriteEarly(c) ==  \* mutant: the address is stored and shown before the mail is sent
  /\ At(c, "send") /\ stored' = calls[c].to
  /\ IF calls[c].from = "entry" /\ calls[c].mounted
     THEN Show("pending", calls[c].to)
     ELSE UNCHANGED <<page, shown, countdown, history>>
  /\ Go(c, "write")
  /\ UNCHANGED <<mails, odd>>
Write(c) ==
  /\ At(c, "write") /\ stored' = calls[c].to
  /\ IF ~calls[c].mounted
     THEN End(c) /\ UNCHANGED <<page, shown, countdown, history>>
     ELSE IF calls[c].from = "entry"
     THEN Show("pending", calls[c].to) /\ calls' = [Unmounted(calls) EXCEPT ![c] = Free]
     ELSE RestartCountdown /\ End(c) /\ UNCHANGED <<page, shown, history>>
  /\ odd' = IF calls[c].mounted /\ calls[c].from = "entry" THEN odd \ {"revisited"} ELSE odd
  /\ UNCHANGED mails

WriteThrows(c) ==
  /\ At(c, "write") /\ End(c) /\ odd' = odd \cup {"lost"}
  /\ UNCHANGED <<page, shown, countdown, stored, history, mails>>

-----------------------------------------------------------------------------
\* "Resend email".
ResendAnyTime(c) ==  \* mutant: the countdown is only shown
  /\ page = "pending" /\ Begin(c, "send", shown)
  /\ UNCHANGED <<page, shown, countdown, stored, history, mails>>
Resend(c) ==
  /\ page = "pending" /\ canResend /\ Begin(c, "send", shown)
  /\ UNCHANGED <<page, shown, countdown, stored, history, mails>>

\* A second passes.
Tick ==
  /\ since' = IF since < Countdown THEN since + 1 ELSE since
  /\ IF ticking = 0 THEN UNCHANGED countdown
     ELSE /\ remaining' = IF remaining > ticking THEN remaining - ticking ELSE 0
          /\ IF remaining' = 0 THEN canResend' = TRUE /\ ticking' = 0
             ELSE UNCHANGED <<canResend, ticking>>
  /\ UNCHANGED <<page, shown, calls, stored, history, mailed, odd>>

\* The user goes to another page: by its buttons, by the browser's, or by its
\* address, which shows a waiting page with the address Default.
Visit(p, a) ==
  /\ <<p, a>> # <<page, shown>>
  /\ IF p = "pending" THEN a \in history \cup {Default} ELSE a = None
  /\ Show(p, a) /\ calls' = Unmounted(calls)
  /\ odd' = (odd \ {"revisited"}) \cup (IF p = "pending" THEN {"revisited"} ELSE {})
                                  \cup (IF Busy # {} THEN {"crossed"} ELSE {})
  /\ UNCHANGED <<stored, mails>>

\* The app is killed or its page reloaded: what was under way may still be done.
Restart ==
  /\ \/ Show("elsewhere", None) /\ odd' = odd \ {"revisited"}
     \/ Show(page, shown) /\ UNCHANGED odd
  /\ calls' = [c \in Calls |-> Free]
  /\ \E S \in SUBSET {calls[c].to : c \in {d \in Calls : At(d, "send")}} : Mailed(S)
  /\ stored' \in {stored} \cup {calls[c].to : c \in {d \in Calls : At(d, "write")}}

Next ==
  \/ \E c \in Calls :
       \/ Allow(c) \/ Deny(c) \/ Mail(c) \/ MailThrows(c) \/ Write(c) \/ WriteThrows(c)
       \/ Resend(c)
       \/ \E a \in Addresses : Submit(c, a)
  \/ Tick
  \/ \E p \in {"entry", "pending", "elsewhere"}, a \in Shown \cup {None} : Visit(p, a)
  \/ Restart

Spec == Init /\ [][Next]_vars
FairSpec == Spec /\ WF_vars(Tick)

-----------------------------------------------------------------------------
TypeOK ==
  /\ page \in {"entry", "pending", "elsewhere"}
  /\ shown \in (IF page = "pending" THEN Shown ELSE {None})
  /\ remaining \in 0 .. Countdown /\ canResend \in BOOLEAN /\ ticking \in 0 .. 1
  /\ calls \in [Calls -> [at : {"policy", "send", "write"}, from : {"entry", "pending"},
                          to : Shown, mounted : BOOLEAN] \cup {Free}]
  /\ stored \in Shown \cup {None}
  /\ history \subseteq Shown
  /\ mailed \subseteq Shown /\ since \in 0 .. Countdown
  /\ odd \subseteq {"crossed", "lost", "revisited"}

\* email_verification_pending_screen.dart: "Follow the link in the email we sent to".
\* A mail went to the address that the waiting page shows and to the one that is
\* stored, and the page does not wait before an address is stored.  The two are
\* the same unless callbacks crossed or the user came to the page another way.
AwaitedIsKnown ==
  /\ stored # None => stored \in mailed
  /\ page = "pending" /\ shown # Default => shown \in mailed /\ stored # None
  /\ page = "pending" /\ {"crossed", "revisited"} \cap odd = {} => stored = shown

\* The mail is not sent again before the countdown's time has passed since the
\* last mail to whomever, whatever pages were left, reloaded and opened again,
\* unless callbacks crossed or one of them failed after its mail.
ResendsSpaced ==
  [][\A c \in Calls :
       Mail(c) /\ calls[c].from = "pending" /\ {"crossed", "lost"} \cap odd = {} =>
         since = Countdown]_vars

\* A waiting page that the user stays on lets the mail be sent again at last,
\* whatever callbacks restart its countdown meanwhile, unless the app is killed or
\* reloaded again and again.
CountdownEnds ==
  \/ []<><<Restart>>_vars
  \/ \A a \in Shown : page = "pending" /\ shown = a ~>
                        canResend \/ page # "pending" \/ shown # a
=============================================================================
