-------------------------- MODULE EmailLinkProofs --------------------------
(***************************************************************************)
(* Theorems about EmailLink for any number of callbacks and addresses and  *)
(* any countdown: types, which address is waited for, how far apart mails  *)
(* are, and that the countdown always has a timer.                         *)
(***************************************************************************)
EXTENDS EmailLink, TLAPS

Places == {"entry", "pending", "elsewhere"}
BusyCall == [at : {"policy", "send", "write"}, from : {"entry", "pending"},
             to : Shown, mounted : BOOLEAN]

\* What Show does keeps the types.
LEMMA ShowType ==
  ASSUME NEW p \in Places, NEW a, a \in (IF p = "pending" THEN Shown ELSE {None}),
         history \subseteq Shown, Show(p, a)
  PROVE  /\ page' \in Places /\ shown' \in (IF page' = "pending" THEN Shown ELSE {None})
         /\ remaining' \in 0 .. Countdown /\ canResend' \in BOOLEAN /\ ticking' \in 0 .. 1
         /\ history' \subseteq Shown
<1>1. page' = p /\ shown' = a /\ canResend' = FALSE /\ page' \in Places
  BY DEF Show
<1>2. remaining' \in 0 .. Countdown /\ ticking' \in 0 .. 1
  BY LinkAssumption DEF Show
<1>3. history' \subseteq Shown
  BY DEF Show
<1> QED BY <1>1, <1>2, <1>3

\* A callback that begins has a type, and so have those that were unmounted.
LEMMA BeginType ==
  ASSUME TypeOK, NEW c \in Calls, NEW at \in {"policy", "send"}, NEW to \in Shown,
         page \in {"entry", "pending"}, Begin(c, at, to)
  PROVE  calls' \in [Calls -> BusyCall \cup {Free}] /\ odd' \subseteq {"crossed", "lost", "revisited"}
BY DEF TypeOK, Begin, BusyCall

LEMMA UnmountedType ==
  ASSUME calls \in [Calls -> BusyCall \cup {Free}]
  PROVE  Unmounted(calls) \in [Calls -> BusyCall \cup {Free}]
<1>1. ASSUME NEW c \in Calls, calls[c] # Free
      PROVE  [calls[c] EXCEPT !.mounted = FALSE] \in BusyCall
  BY <1>1 DEF BusyCall
<1> QED BY <1>1 DEF Unmounted

LEMMA TypeInit == Init => TypeOK
<1> SUFFICES ASSUME Init PROVE TypeOK
  OBVIOUS
<1>1. remaining \in 0 .. Countdown /\ since \in 0 .. Countdown /\ ticking \in 0 .. 1
  BY LinkAssumption DEF Init
<1>2. calls \in [Calls -> BusyCall \cup {Free}]
  BY DEF Init
<1> QED BY <1>1, <1>2 DEF Init, TypeOK, BusyCall

LEMMA MailedType ==
  ASSUME TypeOK, NEW S \in SUBSET Shown, Mailed(S)
  PROVE  mailed' \subseteq Shown /\ since' \in 0 .. Countdown
BY LinkAssumption DEF Mailed, TypeOK

\* Every step keeps the types.
LEMMA TypeStep == TypeOK /\ [Next]_vars => TypeOK'
<1> SUFFICES ASSUME TypeOK, [Next]_vars PROVE TypeOK'
  OBVIOUS
<1>0. /\ calls \in [Calls -> BusyCall \cup {Free}]
      /\ \A c \in Calls : calls[c].at # "free" => calls[c] \in BusyCall
  BY DEF TypeOK, BusyCall, Free
<1>1. ASSUME NEW c \in Calls, NEW at \in {"policy", "send", "write"}, calls[c] \in BusyCall, Go(c, at)
      PROVE  calls' \in [Calls -> BusyCall \cup {Free}]
  <2>1. [calls[c] EXCEPT !.at = at] \in BusyCall
    BY <1>1 DEF BusyCall
  <2> QED BY <1>0, <1>1, <2>1 DEF Go
<1>2. ASSUME NEW c \in Calls, End(c)
      PROVE  calls' \in [Calls -> BusyCall \cup {Free}]
  BY <1>0, <1>2 DEF End
<1>3. ASSUME NEW c \in Calls, NEW a \in Addresses, Submit(c, a) PROVE TypeOK'
  <2>1. a \in Shown /\ calls' \in [Calls -> BusyCall \cup {Free}] /\ odd' \subseteq {"crossed", "lost", "revisited"}
    BY <1>3, BeginType DEF Submit, Shown
  <2> QED BY <1>3, <2>1 DEF Submit, TypeOK, BusyCall, countdown, mails
<1>4. ASSUME NEW c \in Calls, Allow(c) PROVE TypeOK'
  <2>1. calls' \in [Calls -> BusyCall \cup {Free}]
    BY <1>0, <1>1, <1>2, <1>4 DEF Allow, At
  <2> QED BY <1>4, <2>1 DEF Allow, TypeOK, BusyCall, countdown, mails
<1>5. ASSUME NEW c \in Calls, Deny(c) PROVE TypeOK'
  BY <1>2, <1>5 DEF Deny, TypeOK, BusyCall, countdown, mails
<1>6. ASSUME NEW c \in Calls, Mail(c) PROVE TypeOK'
  <2>1. calls[c] \in BusyCall /\ {calls[c].to} \in SUBSET Shown
    BY <1>0, <1>6 DEF Mail, At, BusyCall
  <2>2. calls' \in [Calls -> BusyCall \cup {Free}]
    BY <1>1, <1>6, <2>1 DEF Mail
  <2>3. mailed' \subseteq Shown /\ since' \in 0 .. Countdown
    BY <1>6, <2>1, MailedType DEF Mail
  <2> QED BY <1>6, <2>2, <2>3 DEF Mail, TypeOK, BusyCall, countdown
<1>7. ASSUME NEW c \in Calls, MailThrows(c) PROVE TypeOK'
  <2>1. {calls[c].to} \in SUBSET Shown
    BY <1>0, <1>7 DEF MailThrows, At, BusyCall
  <2>2. PICK S \in SUBSET {calls[c].to} :
          Mailed(S) /\ odd' = IF S = {} THEN odd ELSE odd \cup {"lost"}
    BY <1>7 DEF MailThrows
  <2>3. mailed' \subseteq Shown /\ since' \in 0 .. Countdown
    BY <2>1, <2>2, MailedType
  <2>4. odd' \subseteq {"crossed", "lost", "revisited"}
    BY <2>2 DEF TypeOK
  <2> QED BY <1>2, <1>7, <2>3, <2>4 DEF MailThrows, TypeOK, BusyCall, countdown
<1>8. ASSUME NEW c \in Calls, Write(c) PROVE TypeOK'
  <2>1. calls[c] \in BusyCall /\ calls[c].to \in Shown /\ stored' = calls[c].to
    BY <1>0, <1>8 DEF Write, At, BusyCall
  <2>2. odd' \subseteq {"crossed", "lost", "revisited"} /\ UNCHANGED mails
    BY <1>8 DEF Write, TypeOK
  <2>3. CASE ~calls[c].mounted
    BY <1>2, <1>8, <2>1, <2>2, <2>3 DEF Write, TypeOK, BusyCall, countdown, mails
  <2>4. CASE calls[c].mounted /\ calls[c].from = "entry"
    <3>1. Show("pending", calls[c].to) /\ calls' = [Unmounted(calls) EXCEPT ![c] = Free]
      BY <1>8, <2>4 DEF Write
    <3>2. calls' \in [Calls -> BusyCall \cup {Free}]
      BY <1>0, <3>1, UnmountedType
    <3> QED BY <2>1, <2>2, <3>1, <3>2, ShowType DEF TypeOK, BusyCall, mails, Places
  <2>5. CASE calls[c].mounted /\ calls[c].from # "entry"
    <3>1. RestartCountdown /\ End(c) /\ UNCHANGED <<page, shown, history>>
      BY <1>8, <2>5 DEF Write
    <3>2. remaining' \in 0 .. Countdown /\ canResend' \in BOOLEAN /\ ticking' \in 0 .. 1
      <4>1. remaining' = Countdown /\ canResend' = FALSE /\ ticking' = 1
        BY <3>1, Zenon DEF RestartCountdown
      <4>2. remaining' \in 0 .. Countdown /\ ticking' \in 0 .. 1
        BY <4>1, LinkAssumption
      <4>3. canResend' \in BOOLEAN
        BY <4>1, Zenon
      <4> QED BY <4>2, <4>3
    <3>3. calls' \in [Calls -> BusyCall \cup {Free}]
      BY <1>2, <3>1
    <3> QED BY <2>1, <2>2, <3>1, <3>2, <3>3 DEF TypeOK, BusyCall, mails
  <2> QED BY <2>3, <2>4, <2>5
<1>9. ASSUME NEW c \in Calls, WriteThrows(c) PROVE TypeOK'
  BY <1>2, <1>9 DEF WriteThrows, TypeOK, BusyCall, countdown, mails
<1>10. ASSUME NEW c \in Calls, Resend(c) PROVE TypeOK'
  <2>1. calls' \in [Calls -> BusyCall \cup {Free}] /\ odd' \subseteq {"crossed", "lost", "revisited"}
    BY <1>10, BeginType DEF Resend, TypeOK
  <2> QED BY <1>10, <2>1 DEF Resend, TypeOK, BusyCall, countdown, mails
<1>11. CASE Tick
  <2>1. remaining' \in 0 .. Countdown /\ canResend' \in BOOLEAN /\ ticking' \in 0 .. 1
    <3>1. CASE ticking = 0
      BY <1>11, <3>1 DEF Tick, TypeOK, countdown
    <3>2. CASE ticking = 1
      <4>1. remaining' = IF remaining > ticking THEN remaining - ticking ELSE 0
        BY <1>11, <3>2 DEF Tick
      <4>2. remaining' \in 0 .. Countdown
        BY <3>2, <4>1, LinkAssumption DEF TypeOK
      <4>3. \/ canResend' = TRUE /\ ticking' = 0
            \/ UNCHANGED <<canResend, ticking>>
        BY <1>11, <3>2 DEF Tick
      <4>4. canResend' \in BOOLEAN
        BY <4>3, Zenon DEF TypeOK
      <4>5. ticking' \in 0 .. 1
        BY <4>3 DEF TypeOK
      <4> QED BY <4>2, <4>4, <4>5
    <3> QED BY <3>1, <3>2 DEF TypeOK
  <2>2. since' \in 0 .. Countdown
    BY <1>11, LinkAssumption DEF Tick, TypeOK
  <2> QED BY <1>11, <2>1, <2>2 DEF Tick, TypeOK
<1>12. ASSUME NEW p \in Places, NEW a \in Shown \cup {None}, Visit(p, a) PROVE TypeOK'
  <2>1. a \in (IF p = "pending" THEN Shown ELSE {None})
    BY <1>12 DEF Visit, TypeOK, Shown
  <2>2. calls' \in [Calls -> BusyCall \cup {Free}] /\ odd' \subseteq {"crossed", "lost", "revisited"}
    BY <1>0, <1>12, UnmountedType DEF Visit, TypeOK
  <2> QED BY <1>12, <2>1, <2>2, ShowType DEF Visit, TypeOK, BusyCall, mails, Places
<1>13. CASE Restart
  <2>1. /\ page' \in Places /\ shown' \in (IF page' = "pending" THEN Shown ELSE {None})
        /\ remaining' \in 0 .. Countdown /\ canResend' \in BOOLEAN /\ ticking' \in 0 .. 1
        /\ history' \subseteq Shown
    BY <1>13, ShowType DEF Restart, TypeOK, Places
  <2>2. \A c \in Calls : At(c, "send") \/ At(c, "write") => calls[c].to \in Shown
    BY <1>0 DEF At, BusyCall
  <2>3. mailed' \subseteq Shown /\ since' \in 0 .. Countdown
    BY <1>13, <2>2, MailedType DEF Restart
  <2>4. stored' \in Shown \cup {None}
    BY <1>13, <2>2 DEF Restart, TypeOK
  <2>5. calls' \in [Calls -> BusyCall \cup {Free}] /\ odd' \subseteq {"crossed", "lost", "revisited"}
    BY <1>13 DEF Restart, TypeOK
  <2> QED BY <2>1, <2>3, <2>4, <2>5 DEF TypeOK, BusyCall, Places
<1>14. CASE UNCHANGED vars
  BY <1>14 DEF vars, TypeOK, countdown, mails
<1> QED BY <1>3, <1>4, <1>5, <1>6, <1>7, <1>8, <1>9, <1>10, <1>11, <1>12, <1>13, <1>14 DEF Next, Places

\* EmailLink: the variables of the two pages and their callbacks keep their types.
THEOREM EmailLinkTypeCorrect == Spec => []TypeOK
BY TypeInit, TypeStep, PTL DEF Spec

-----------------------------------------------------------------------------
\* Whoever is about to store an address has mailed it, and a page that waited once
\* waited for an address that was mailed and stored.
MailedFirst ==
  /\ \A c \in Calls : At(c, "write") => calls[c].to \in mailed
  /\ \A a \in history : a # Default => a \in mailed /\ stored # None

\* As long as callbacks have not crossed there is at most one, of the page shown.
OneCallback ==
  "crossed" \notin odd =>
    /\ \A c, d \in Busy : c = d
    /\ \A c \in Busy : /\ calls[c].mounted /\ calls[c].from = page
                       /\ page = "pending" => calls[c].to = shown

AwaitedInv == TypeOK /\ AwaitedIsKnown /\ MailedFirst /\ OneCallback

LEMMA AwaitedInit == Init => AwaitedInv
BY TypeInit DEF Init, AwaitedInv, AwaitedIsKnown, MailedFirst, OneCallback, Busy, At, Free

\* A callback that only goes on or ends, and at most one mail more.
LEMMA CallGoesOn ==
  ASSUME AwaitedInv, NEW c \in Calls, NEW there, c \in Busy,
         Go(c, there) \/ End(c),
         mailed \subseteq mailed', there = "write" => calls[c].to \in mailed',
         odd \subseteq odd', UNCHANGED <<page, shown, stored, history>>
  PROVE  AwaitedIsKnown' /\ MailedFirst' /\ OneCallback'
<1>1. \A d \in Calls : d # c => calls'[d] = calls[d]
  BY DEF AwaitedInv, TypeOK, Go, End
<1>2. \/ calls'[c] = Free
      \/ calls'[c].at = there /\ calls'[c].to = calls[c].to /\ calls'[c].from = calls[c].from
         /\ calls'[c].mounted = calls[c].mounted
  <2>1. calls[c] \in BusyCall /\ calls \in [Calls -> BusyCall \cup {Free}]
    BY DEF AwaitedInv, TypeOK, Busy, Free, BusyCall
  <2>2. CASE Go(c, there)
    <3>1. calls'[c] = [calls[c] EXCEPT !.at = there]
      BY <2>1, <2>2 DEF Go
    <3> QED BY <2>1, <3>1 DEF BusyCall
  <2>3. CASE End(c)
    BY <2>1, <2>3 DEF End
  <2> QED BY <2>2, <2>3
<1>3. AwaitedIsKnown'
  <2>1. {"crossed", "revisited"} \cap odd' = {} => {"crossed", "revisited"} \cap odd = {}
    OBVIOUS
  <2> QED BY <2>1 DEF AwaitedInv, AwaitedIsKnown
<1>4. MailedFirst'
  <2>1. \A d \in Calls : At(d, "write")' => calls'[d].to \in mailed'
    BY <1>1, <1>2 DEF AwaitedInv, MailedFirst, At, Free
  <2> QED BY <2>1 DEF AwaitedInv, MailedFirst
<1>5. Busy' \subseteq Busy
  BY <1>1 DEF Busy
<1>6. OneCallback'
  BY <1>1, <1>2, <1>5 DEF AwaitedInv, OneCallback, Busy, Free
<1> QED BY <1>3, <1>4, <1>6

\* A callback that begins, on the page shown.
LEMMA CallBegins ==
  ASSUME AwaitedInv, NEW c \in Calls, NEW at \in {"policy", "send"}, NEW to,
         Begin(c, at, to), page = "pending" => to = shown,
         UNCHANGED <<page, shown, stored, history, mailed>>
  PROVE  AwaitedIsKnown' /\ MailedFirst' /\ OneCallback'
<1>1. /\ \A d \in Calls : d # c => calls'[d] = calls[d]
      /\ calls'[c] = [at |-> at, from |-> page, to |-> to, mounted |-> TRUE]
      /\ odd' = IF Busy = {} THEN odd ELSE odd \cup {"crossed"}
  BY DEF AwaitedInv, TypeOK, Begin
<1>2. AwaitedIsKnown'
  <2>1. {"crossed", "revisited"} \cap odd' = {} => {"crossed", "revisited"} \cap odd = {}
    BY <1>1
  <2> QED BY <2>1 DEF AwaitedInv, AwaitedIsKnown
<1>3. MailedFirst'
  BY <1>1 DEF AwaitedInv, MailedFirst, At
<1>4. OneCallback'
  <2> SUFFICES ASSUME "crossed" \notin odd'
               PROVE  /\ \A d, e \in Busy' : d = e
                      /\ \A d \in Busy' : /\ calls'[d].mounted /\ calls'[d].from = page'
                                          /\ page' = "pending" => calls'[d].to = shown'
    BY DEF OneCallback
  <2>1. Busy = {}
    BY <1>1
  <2>2. \A d \in Busy' : d = c
    BY <1>1, <2>1 DEF Busy
  <2> QED BY <1>1, <2>2
<1> QED BY <1>2, <1>3, <1>4

\* The address is stored: it was mailed, and it is the one shown unless others cross.
LEMMA WriteStep ==
  ASSUME AwaitedInv, NEW c \in Calls, Write(c)
  PROVE  AwaitedIsKnown' /\ MailedFirst' /\ OneCallback'
<1>1. /\ At(c, "write") /\ c \in Busy /\ calls[c].to \in mailed /\ calls[c].to \in Shown
      /\ stored' = calls[c].to /\ stored' # None /\ UNCHANGED mailed
  BY LinkAssumption DEF Write, AwaitedInv, MailedFirst, TypeOK, At, Busy, Free, mails, Shown
<1>2. ASSUME NEW cs, calls' = [cs EXCEPT ![c] = Free], cs = calls \/ cs = Unmounted(calls)
      PROVE  /\ \A d \in Calls : calls'[d].at = "write" => calls[d].at = "write" /\ calls'[d].to = calls[d].to
             /\ Busy' = Busy \ {c}
  <2>1. \A d \in Calls : d # c =>
          calls'[d].at = calls[d].at /\ (d \in Busy => calls'[d].to = calls[d].to)
    BY <1>2 DEF AwaitedInv, TypeOK, Unmounted, Free, Busy
  <2>2. calls'[c] = Free
    BY <1>2 DEF AwaitedInv, TypeOK, Unmounted
  <2> QED BY <2>1, <2>2 DEF At, Busy, Free
<1>3. CASE calls[c].mounted /\ calls[c].from = "entry"
  <2>1. /\ Show("pending", calls[c].to) /\ calls' = [Unmounted(calls) EXCEPT ![c] = Free]
        /\ odd' = odd \ {"revisited"}
    BY <1>3 DEF Write
  <2>2. page' = "pending" /\ shown' = calls[c].to /\ history' = history \cup {calls[c].to}
    BY <2>1 DEF Show
  <2>3. AwaitedIsKnown'
    BY <1>1, <2>2 DEF AwaitedIsKnown
  <2>4. MailedFirst'
    <3>1. \A d \in Calls : calls'[d].at = "write" => calls[d].at = "write" /\ calls'[d].to = calls[d].to
      BY <1>2, <2>1
    <3>2. \A d \in Calls : At(d, "write")' => calls'[d].to \in mailed'
      BY <1>1, <3>1 DEF AwaitedInv, MailedFirst, At
    <3> QED BY <1>1, <2>2, <3>2 DEF AwaitedInv, MailedFirst
  <2>5. "crossed" \notin odd => Busy' = {}
    BY <1>1, <1>2, <2>1 DEF AwaitedInv, OneCallback
  <2>6. OneCallback'
    BY <2>1, <2>5 DEF OneCallback
  <2> QED BY <2>3, <2>4, <2>6
<1>4. CASE ~(calls[c].mounted /\ calls[c].from = "entry")
  <2>1. End(c) /\ UNCHANGED <<page, shown, history, odd>>
    BY <1>4 DEF Write
  <2>2. AwaitedIsKnown'
    <3>1. page = "pending" /\ {"crossed", "revisited"} \cap odd = {} => calls[c].to = shown
      BY <1>1 DEF AwaitedInv, OneCallback
    <3> QED BY <1>1, <2>1, <3>1 DEF AwaitedInv, AwaitedIsKnown
  <2>3. MailedFirst'
    <3>1. \A d \in Calls : calls'[d].at = "write" => calls[d].at = "write" /\ calls'[d].to = calls[d].to
      BY <1>2, <2>1 DEF End
    <3>2. \A d \in Calls : At(d, "write")' => calls'[d].to \in mailed'
      BY <1>1, <3>1 DEF AwaitedInv, MailedFirst, At
    <3> QED BY <1>1, <2>1, <3>2 DEF AwaitedInv, MailedFirst
  <2>4. "crossed" \notin odd => Busy' = {}
    BY <1>1, <1>2, <2>1 DEF AwaitedInv, OneCallback, End
  <2>5. OneCallback'
    BY <2>1, <2>4 DEF OneCallback
  <2> QED BY <2>2, <2>3, <2>5
<1> QED BY <1>3, <1>4

\* Another page: it waits for an address of the history or for the default one.
LEMMA VisitStep ==
  ASSUME AwaitedInv, NEW p \in Places, NEW a, Visit(p, a)
  PROVE  AwaitedIsKnown' /\ MailedFirst' /\ OneCallback'
<1>1. /\ page' = p /\ shown' = a /\ calls' = Unmounted(calls) /\ UNCHANGED <<stored, mailed>>
      /\ history' = (IF p = "pending" THEN history \cup {a} ELSE history)
      /\ p = "pending" => a \in history \cup {Default} /\ "revisited" \in odd'
      /\ Busy # {} => "crossed" \in odd'
  BY DEF Visit, Show, mails
<1>2. \A d \in Calls : calls'[d].at = calls[d].at /\ (d \in Busy => calls'[d].to = calls[d].to)
  BY <1>1 DEF AwaitedInv, TypeOK, Unmounted, Free, Busy
<1>3. Busy' = Busy
  BY <1>2 DEF Busy
<1>4. AwaitedIsKnown'
  BY <1>1 DEF AwaitedInv, AwaitedIsKnown, MailedFirst
<1>5. MailedFirst'
  BY <1>1, <1>2 DEF AwaitedInv, MailedFirst, At, Busy
<1>6. OneCallback'
  BY <1>1, <1>3 DEF OneCallback
<1> QED BY <1>4, <1>5, <1>6

\* The app ends or is reloaded: at most what was under way is still done.
LEMMA RestartStep ==
  ASSUME AwaitedInv, Restart
  PROVE  AwaitedIsKnown' /\ MailedFirst' /\ OneCallback'
<1>1. /\ mailed \subseteq mailed' /\ calls' = [c \in Calls |-> Free]
      /\ stored' \in {stored} \cup {calls[c].to : c \in {d \in Calls : At(d, "write")}}
  BY DEF Restart, Mailed
<1>2. Busy' = {} /\ \A c \in Calls : ~At(c, "write")'
  BY <1>1 DEF Busy, At, Free
<1>3. stored' # None => stored' \in mailed'
  BY <1>1 DEF AwaitedInv, AwaitedIsKnown, MailedFirst
<1>4. stored # None => stored' # None
  BY <1>1, LinkAssumption DEF AwaitedInv, TypeOK, At, Free, Shown
<1>5. \/ page' # "pending" /\ history' = history
      \/ /\ page' = page /\ shown' = shown /\ odd' = odd
         /\ history' = (IF page = "pending" THEN history \cup {shown} ELSE history)
  BY DEF Restart, Show
<1>6. MailedFirst'
  BY <1>1, <1>2, <1>4, <1>5 DEF AwaitedInv, MailedFirst, AwaitedIsKnown
<1>7. OneCallback'
  BY <1>2 DEF OneCallback
<1>8. AwaitedIsKnown'
  <2>1. CASE page' # "pending"
    BY <1>3, <2>1 DEF AwaitedIsKnown
  <2>2. CASE page' = "pending"
    <3>1. page = "pending" /\ shown' = shown /\ odd' = odd
      BY <1>5, <2>2
    <3>2. {"crossed", "revisited"} \cap odd = {} => stored' = shown
      <4> SUFFICES ASSUME {"crossed", "revisited"} \cap odd = {} PROVE stored' = shown
        OBVIOUS
      <4>1. \A c \in Calls : At(c, "write") => calls[c].to = shown
        BY <3>1 DEF AwaitedInv, OneCallback, Busy, At
      <4> QED BY <1>1, <3>1, <4>1 DEF AwaitedInv, AwaitedIsKnown
    <3> QED BY <1>1, <1>3, <1>4, <3>1, <3>2 DEF AwaitedInv, AwaitedIsKnown
  <2> QED BY <2>1, <2>2
<1> QED BY <1>6, <1>7, <1>8

LEMMA AwaitedStep == AwaitedInv /\ [Next]_vars => AwaitedInv'
<1> SUFFICES ASSUME AwaitedInv, [Next]_vars PROVE AwaitedIsKnown' /\ MailedFirst' /\ OneCallback'
  BY TypeStep DEF AwaitedInv
<1> DEFINE Kept == AwaitedIsKnown' /\ MailedFirst' /\ OneCallback'
<1>1. ASSUME NEW c \in Calls, NEW a \in Addresses, Submit(c, a) PROVE Kept
  BY <1>1, CallBegins DEF Submit, mails
<1>2. ASSUME NEW c \in Calls, Resend(c) PROVE Kept
  BY <1>2, CallBegins DEF Resend, mails
<1>3. ASSUME NEW c \in Calls, Allow(c) \/ Deny(c) PROVE Kept
  BY <1>3, CallGoesOn DEF Allow, Deny, At, Busy, mails
<1>4. ASSUME NEW c \in Calls, Mail(c) PROVE Kept
  BY <1>4, CallGoesOn DEF Mail, Mailed, At, Busy
<1>5. ASSUME NEW c \in Calls, MailThrows(c) PROVE Kept
  BY <1>5, CallGoesOn DEF MailThrows, Mailed, At, Busy
<1>6. ASSUME NEW c \in Calls, Write(c) PROVE Kept
  BY <1>6, WriteStep
<1>7. ASSUME NEW c \in Calls, WriteThrows(c) PROVE Kept
  BY <1>7, CallGoesOn DEF WriteThrows, At, Busy, mails
<1>8. CASE Tick
  BY <1>8 DEF Tick, AwaitedInv, AwaitedIsKnown, MailedFirst, OneCallback, Busy, At
<1>9. ASSUME NEW p \in Places, NEW a \in Shown \cup {None}, Visit(p, a) PROVE Kept
  BY <1>9, VisitStep
<1>10. CASE Restart
  BY <1>10, RestartStep
<1>11. CASE UNCHANGED vars
  BY <1>11 DEF vars, AwaitedInv, AwaitedIsKnown, MailedFirst, OneCallback, Busy, At, mails
<1> QED BY <1>1, <1>2, <1>3, <1>4, <1>5, <1>6, <1>7, <1>8, <1>9, <1>10, <1>11 DEF Next, Places

\* EmailLink: the address that is stored, and the one a page waits for, got a mail,
\* and the two are the same unless callbacks crossed or the user came another way.
THEOREM AwaitedAddressIsKnown == Spec => []AwaitedIsKnown
<1>1. AwaitedInv => AwaitedIsKnown
  BY DEF AwaitedInv
<1> QED BY <1>1, AwaitedInit, AwaitedStep, PTL DEF Spec

-----------------------------------------------------------------------------
\* The waiting page's countdown runs at least as long as it has to.
Counting ==
  /\ canResend => since = Countdown
  /\ ~canResend => ticking = 1 /\ remaining + since >= Countdown

\* As long as nothing crossed or failed after its mail, it does so from the last
\* mail on, except between the mail and the new countdown; and a mail is asked for
\* there only when the time has passed.
CountsFromMail ==
  {"crossed", "lost"} \cap odd = {} =>
    /\ page = "pending" /\ (\A c \in Calls : ~At(c, "write")) => Counting
    /\ \A c \in Calls : At(c, "send") /\ calls[c].from = "pending" => since = Countdown

\* Only the entry page asks the policy service.
AsksFromEntry == \A c \in Calls : At(c, "policy") => calls[c].from = "entry"

SpacedInv == AwaitedInv /\ CountsFromMail /\ AsksFromEntry

LEMMA SpacedInit == Init => SpacedInv
BY AwaitedInit DEF Init, SpacedInv, CountsFromMail, AsksFromEntry, At, Free

\* A countdown that begins is long enough, whenever the last mail was.
LEMMA WholeIsEnough ==
  ASSUME NEW n \in Nat, NEW s \in 0 .. n, NEW r, r = n
  PROVE  r + s >= n
OBVIOUS

LEMMA CountingBegins ==
  ASSUME since' \in 0 .. Countdown, remaining' = Countdown, ~canResend', ticking' = 1
  PROVE  Counting'
<1>1. Countdown \in Nat
  BY LinkAssumption
<1>2. remaining' + since' >= Countdown
  BY <1>1, WholeIsEnough
<1> QED BY <1>2 DEF Counting

LEMMA ShowCounts ==
  ASSUME TypeOK', NEW a, Show("pending", a)
  PROVE  Counting'
BY CountingBegins DEF Show, TypeOK

\* A second on the clock and on the countdown.
LEMMA TickCounts ==
  ASSUME TypeOK, Counting, Tick
  PROVE  Counting'
<1>1. since' = IF since < Countdown THEN since + 1 ELSE since
  BY DEF Tick
<1>2. since \in 0 .. Countdown /\ remaining \in 0 .. Countdown /\ Countdown \in Nat
  BY LinkAssumption DEF TypeOK
<1>3. since = Countdown => since' = Countdown
  BY <1>1, <1>2
<1>4. CASE canResend
  <2>1. canResend' = canResend \/ canResend' = TRUE
    BY DEF Tick, countdown
  <2>2. canResend' /\ since = Countdown
    BY <1>4, <2>1 DEF Counting
  <2> QED BY <1>3, <2>2 DEF Counting
<1>5. CASE ~canResend
  <2>1. ticking = 1 /\ remaining + since >= Countdown
    BY <1>5 DEF Counting
  <2>2. remaining' = IF remaining > 1 THEN remaining - 1 ELSE 0
    BY <2>1 DEF Tick
  <2>3. CASE remaining' = 0
    <3>1. since' = Countdown
      BY <1>1, <1>2, <2>1, <2>2, <2>3
    <3>2. canResend' = TRUE
      BY <2>1, <2>3 DEF Tick
    <3> QED BY <3>1, <3>2 DEF Counting
  <2>4. CASE remaining' # 0
    <3>1. canResend' = canResend /\ ticking' = ticking
      BY <2>1, <2>4 DEF Tick
    <3>2. remaining' + since' >= Countdown
      BY <1>1, <1>2, <2>1, <2>2, <2>4
    <3> QED BY <1>5, <2>1, <3>1, <3>2 DEF Counting
  <2> QED BY <2>3, <2>4
<1> QED BY <1>4, <1>5

\* Steps of a callback that leave the pages, the clock and the countdown alone.
LEMMA QuietCall ==
  ASSUME SpacedInv, NEW c \in Calls, UNCHANGED <<page, countdown, mails>>, odd \subseteq odd',
         \A d \in Calls : d # c => calls'[d] = calls[d],
         {"crossed", "lost"} \cap odd' = {} =>
           ~At(c, "write") /\ ~At(c, "write")'
           /\ (At(c, "send")' /\ calls'[c].from = "pending" => since = Countdown)
  PROVE  CountsFromMail'
<1> SUFFICES ASSUME {"crossed", "lost"} \cap odd' = {}
             PROVE  /\ page' = "pending" /\ (\A d \in Calls : ~At(d, "write")') => Counting'
                    /\ \A d \in Calls : At(d, "send")' /\ calls'[d].from = "pending" => since' = Countdown
  BY DEF CountsFromMail
<1>1. {"crossed", "lost"} \cap odd = {}
  OBVIOUS
<1>2. page' = "pending" /\ (\A d \in Calls : ~At(d, "write")') => Counting'
  <2> SUFFICES ASSUME page' = "pending", \A d \in Calls : ~At(d, "write")' PROVE Counting'
    OBVIOUS
  <2>1. \A d \in Calls : ~At(d, "write")
    BY DEF At
  <2>2. Counting
    BY <1>1, <2>1 DEF SpacedInv, CountsFromMail
  <2> QED BY <2>2 DEF Counting, countdown, mails
<1>3. ASSUME NEW d \in Calls, At(d, "send")', calls'[d].from = "pending" PROVE since' = Countdown
  BY <1>1, <1>3 DEF SpacedInv, CountsFromMail, At, mails
<1> QED BY <1>2, <1>3

\* Nobody is about to write or to send on the page that a step leaves.
LEMMA NobodySends ==
  ASSUME TypeOK', Counting' \/ page' # "pending",
         \A d \in Calls : ~At(d, "send")'
  PROVE  CountsFromMail'
BY DEF CountsFromMail

\* As long as nothing crossed, a busy callback is the only one.
LEMMA OnlyCall ==
  ASSUME AwaitedInv, "crossed" \notin odd, NEW c \in Calls, c \in Busy
  PROVE  \A d \in Calls : d # c => calls[d].at = "free"
BY DEF AwaitedInv, OneCallback, Busy

\* Callbacks that go on, end or lose their page leave from alone.
LEMMA AsksStep == TypeOK /\ AsksFromEntry /\ [Next]_vars => AsksFromEntry'
<1> SUFFICES ASSUME TypeOK, AsksFromEntry, [Next]_vars PROVE AsksFromEntry'
  OBVIOUS
<1>0. /\ calls \in [Calls -> BusyCall \cup {Free}]
      /\ \A c \in Calls : calls[c].at # "free" => calls[c] \in BusyCall
  BY DEF TypeOK, BusyCall, Free
<1>1. ASSUME NEW c \in Calls, NEW a \in Addresses, Submit(c, a) PROVE AsksFromEntry'
  BY <1>0, <1>1 DEF Submit, Begin, AsksFromEntry, At
<1>2. ASSUME NEW c \in Calls, Resend(c) PROVE AsksFromEntry'
  BY <1>0, <1>2 DEF Resend, Begin, AsksFromEntry, At
<1>3. ASSUME NEW c \in Calls, End(c) PROVE AsksFromEntry'
  BY <1>0, <1>3 DEF End, AsksFromEntry, At, Free
<1>4. ASSUME NEW c \in Calls, NEW there, Go(c, there), there # "policy" PROVE AsksFromEntry'
  <2>1. calls'[c].at # "policy"
    <3>1. calls'[c] = [calls[c] EXCEPT !.at = there]
      BY <1>0, <1>4 DEF Go
    <3>2. calls[c] \in BusyCall \/ calls[c] = Free
      BY <1>0
    <3> QED BY <1>4, <3>1, <3>2 DEF BusyCall, Free
  <2>2. \A d \in Calls : d # c => calls'[d] = calls[d]
    BY <1>0, <1>4 DEF Go
  <2> QED BY <2>1, <2>2 DEF AsksFromEntry, At
<1>5. \A c \in Calls : At(c, "policy") => Unmounted(calls)[c].from = calls[c].from
  BY <1>0 DEF Unmounted, At, Free, BusyCall
<1>6. \A c \in Calls : Unmounted(calls)[c].at = calls[c].at
  BY <1>0 DEF Unmounted, Free, BusyCall
<1>7. ASSUME NEW c \in Calls, Write(c) PROVE AsksFromEntry'
  <2>1. CASE End(c)
    BY <1>3, <2>1
  <2>2. CASE calls' = [Unmounted(calls) EXCEPT ![c] = Free]
    <3>1. \A d \in Calls : d # c => calls'[d] = Unmounted(calls)[d]
      BY <2>2 DEF Unmounted
    <3>2. calls'[c] = Free
      BY <2>2 DEF Unmounted
    <3> QED BY <1>5, <1>6, <3>1, <3>2 DEF AsksFromEntry, At, Free
  <2> QED BY <1>7, <2>1, <2>2 DEF Write
<1>8. ASSUME NEW p, NEW a, Visit(p, a) PROVE AsksFromEntry'
  BY <1>5, <1>6, <1>8 DEF Visit, AsksFromEntry, At
<1>9. CASE Restart
  BY <1>9 DEF Restart, AsksFromEntry, At, Free
<1>10. CASE Tick \/ UNCHANGED vars
  BY <1>10 DEF Tick, vars, AsksFromEntry, At
<1>11. ASSUME NEW c \in Calls,
              Allow(c) \/ Deny(c) \/ Mail(c) \/ MailThrows(c) \/ WriteThrows(c)
       PROVE  AsksFromEntry'
  BY <1>3, <1>4, <1>11 DEF Allow, Deny, Mail, MailThrows, WriteThrows
<1> QED BY <1>1, <1>2, <1>7, <1>8, <1>9, <1>10, <1>11 DEF Next

LEMMA SpacedStep == SpacedInv /\ [Next]_vars => SpacedInv'
<1> SUFFICES ASSUME SpacedInv, [Next]_vars PROVE CountsFromMail'
  BY AwaitedStep, AsksStep DEF SpacedInv, AwaitedInv
<1>0. TypeOK /\ TypeOK' /\ AwaitedInv
  BY TypeStep DEF SpacedInv, AwaitedInv
<1>a. ASSUME NEW c \in Calls, NEW there, Go(c, there)
      PROVE  /\ \A d \in Calls : d # c => calls'[d] = calls[d]
             /\ c \in Busy => calls'[c].at = there /\ calls'[c].from = calls[c].from
  <2>1. c \in Busy => calls[c] \in BusyCall
    BY <1>0 DEF TypeOK, Busy, BusyCall, Free
  <2>2. calls'[c] = [calls[c] EXCEPT !.at = there] /\ \A d \in Calls : d # c => calls'[d] = calls[d]
    BY <1>0, <1>a DEF TypeOK, Go
  <2> QED BY <2>1, <2>2 DEF BusyCall
<1>b. ASSUME NEW c \in Calls, End(c)
      PROVE  calls'[c] = Free /\ \A d \in Calls : d # c => calls'[d] = calls[d]
  BY <1>0, <1>b DEF TypeOK, End
<1>c. ASSUME NEW c \in Calls, NEW at, NEW to, Begin(c, at, to)
      PROVE  /\ calls[c] = Free /\ \A d \in Calls : d # c => calls'[d] = calls[d]
             /\ calls'[c].at = at /\ calls'[c].from = page /\ odd \subseteq odd'
             /\ "crossed" \notin odd' => Busy = {}
  BY <1>0, <1>c DEF TypeOK, Begin
<1>1. ASSUME NEW c \in Calls, NEW a \in Addresses, Submit(c, a) PROVE CountsFromMail'
  <2>1. /\ Begin(c, "policy", a) /\ UNCHANGED <<page, countdown, mails>>
    BY <1>1 DEF Submit
  <2> QED BY <1>c, <2>1, QuietCall DEF At, Free
<1>2. ASSUME NEW c \in Calls, Resend(c) PROVE CountsFromMail'
  <2>1. page = "pending" /\ canResend /\ Begin(c, "send", shown) /\ UNCHANGED <<page, countdown, mails>>
    BY <1>2 DEF Resend
  <2>2. ASSUME {"crossed", "lost"} \cap odd' = {} PROVE since = Countdown
    <3>1. Busy = {} /\ {"crossed", "lost"} \cap odd = {}
      BY <1>c, <2>1, <2>2
    <3>2. Counting
      BY <2>1, <3>1 DEF SpacedInv, CountsFromMail, Busy, At
    <3> QED BY <2>1, <3>2 DEF Counting
  <2> QED BY <1>c, <2>1, <2>2, QuietCall DEF At, Free
<1>3. ASSUME NEW c \in Calls, Allow(c) PROVE CountsFromMail'
  <2>1. At(c, "policy") /\ c \in Busy /\ UNCHANGED <<page, countdown, mails, odd>>
    BY <1>3 DEF Allow, At, Busy
  <2>2. CASE End(c)
    BY <1>b, <2>1, <2>2, QuietCall DEF At, Free
  <2>3. CASE Go(c, "send")
    <3>1. calls[c].from = "entry"
      BY <2>1 DEF SpacedInv, AsksFromEntry
    <3> QED BY <1>a, <2>1, <2>3, <3>1, QuietCall DEF At
  <2> QED BY <1>3, <2>2, <2>3 DEF Allow
<1>4. ASSUME NEW c \in Calls, Deny(c) PROVE CountsFromMail'
  BY <1>b, <1>4, QuietCall DEF Deny, At, Free
<1>5. ASSUME NEW c \in Calls, Mail(c) PROVE CountsFromMail'
  <2>1. At(c, "send") /\ c \in Busy /\ Go(c, "write") /\ odd' = odd
    BY <1>5 DEF Mail, At, Busy
  <2>2. At(c, "write")'
    BY <1>a, <2>1 DEF At
  <2>3. ASSUME "crossed" \notin odd' PROVE \A d \in Calls : ~At(d, "send")'
    BY <1>a, <1>0, <2>1, <2>2, <2>3, OnlyCall DEF At
  <2> QED BY <2>2, <2>3 DEF CountsFromMail
<1>6. ASSUME NEW c \in Calls, MailThrows(c) PROVE CountsFromMail'
  <2>1. PICK S \in SUBSET {calls[c].to} :
          Mailed(S) /\ odd' = IF S = {} THEN odd ELSE odd \cup {"lost"}
    BY <1>6 DEF MailThrows
  <2>2. At(c, "send") /\ End(c) /\ UNCHANGED <<page, countdown>>
    BY <1>6 DEF MailThrows
  <2>3. CASE S = {}
    <3>1. UNCHANGED mails /\ odd' = odd
      BY <2>1, <2>3 DEF Mailed, mails
    <3> QED BY <1>b, <2>2, <3>1, QuietCall DEF At, Free
  <2>4. CASE S # {}
    BY <2>1, <2>4 DEF CountsFromMail
  <2> QED BY <2>3, <2>4
<1>7. ASSUME NEW c \in Calls, Write(c) PROVE CountsFromMail'
  <2> SUFFICES ASSUME {"crossed", "lost"} \cap odd' = {} PROVE CountsFromMail'
    BY DEF CountsFromMail
  <2>1. "crossed" \notin odd /\ At(c, "write") /\ c \in Busy
    BY <1>7 DEF Write, At, Busy
  <2>2. \A d \in Calls : d # c => calls[d].at = "free"
    BY <1>0, <2>1, OnlyCall
  <2>3. calls[c].mounted /\ calls[c].from = page
    BY <1>0, <2>1 DEF AwaitedInv, OneCallback
  <2>4. CASE calls[c].from = "entry"
    <3>1. Show("pending", calls[c].to) /\ calls' = [Unmounted(calls) EXCEPT ![c] = Free]
      BY <1>7, <2>3, <2>4 DEF Write
    <3>2. \A d \in Calls : ~At(d, "send")'
      BY <1>0, <2>2, <3>1 DEF TypeOK, Unmounted, At, Free
    <3> QED BY <1>0, <3>1, <3>2, ShowCounts, NobodySends
  <2>5. CASE calls[c].from # "entry"
    <3>1. RestartCountdown /\ End(c)
      BY <1>7, <2>3, <2>5 DEF Write
    <3>2. \A d \in Calls : ~At(d, "send")'
      BY <1>b, <2>2, <3>1 DEF At, Free
    <3>3. Counting'
      BY <1>0, <3>1, CountingBegins DEF RestartCountdown, TypeOK
    <3> QED BY <1>0, <3>2, <3>3, NobodySends
  <2> QED BY <2>4, <2>5
<1>8. ASSUME NEW c \in Calls, WriteThrows(c) PROVE CountsFromMail'
  BY <1>8 DEF WriteThrows, CountsFromMail
<1>9. CASE Tick
  <2>1. UNCHANGED <<page, calls, odd>> /\ (since = Countdown => since' = Countdown)
    BY <1>0, <1>9, LinkAssumption DEF Tick, TypeOK
  <2>2. Counting => Counting'
    BY <1>0, <1>9, TickCounts
  <2> QED BY <2>1, <2>2 DEF SpacedInv, CountsFromMail, At
<1>10. ASSUME NEW p \in Places, NEW a \in Shown \cup {None}, Visit(p, a) PROVE CountsFromMail'
  <2> SUFFICES ASSUME {"crossed", "lost"} \cap odd' = {} PROVE CountsFromMail'
    BY DEF CountsFromMail
  <2>1. Busy = {} /\ Show(p, a) /\ calls' = Unmounted(calls) /\ page' = p
    BY <1>10 DEF Visit, Show
  <2>2. \A d \in Calls : ~At(d, "send")'
    BY <1>0, <2>1 DEF TypeOK, Unmounted, At, Free, Busy
  <2> QED BY <1>0, <2>1, <2>2, ShowCounts, NobodySends
<1>11. CASE Restart
  <2>1. \A d \in Calls : ~At(d, "send")'
    BY <1>11 DEF Restart, At, Free
  <2>2. Counting' \/ page' # "pending"
    BY <1>0, <1>11, ShowCounts DEF Restart, Show
  <2> QED BY <1>0, <2>1, <2>2, NobodySends
<1>12. CASE UNCHANGED vars
  BY <1>12 DEF vars, countdown, mails, SpacedInv, CountsFromMail, Counting, At
<1> QED BY <1>1, <1>2, <1>3, <1>4, <1>5, <1>6, <1>7, <1>8, <1>9, <1>10, <1>11, <1>12 DEF Next, Places

\* EmailLink: the waiting page has a mail sent again only when the countdown's time
\* has passed since the last one to whomever, whatever pages were left, reloaded and
\* opened again, unless callbacks crossed or one failed after its mail.
THEOREM ResendsAreSpaced == Spec => ResendsSpaced
<1>DEFINE Late(c) == Mail(c) /\ calls[c].from = "pending" /\ {"crossed", "lost"} \cap odd = {} =>
                       since = Countdown
<1>1. ASSUME SpacedInv, NEW c \in Calls PROVE Late(c)
  BY <1>1 DEF SpacedInv, CountsFromMail, Mail
<1>2. SpacedInv /\ [Next]_vars => [\A c \in Calls : Late(c)]_vars
  BY <1>1
<1> QED BY <1>2, SpacedInit, SpacedStep, PTL DEF Spec, ResendsSpaced

-----------------------------------------------------------------------------
\* As long as the button is disabled the waiting page has a timer with time left.
CountsDown == page = "pending" /\ ~canResend => ticking = 1 /\ remaining > 0

LEMMA CountsDownStep == TypeOK /\ CountsDown /\ [Next]_vars => CountsDown'
<1> SUFFICES ASSUME TypeOK, CountsDown, [Next]_vars PROVE CountsDown'
  OBVIOUS
<1>1. ASSUME UNCHANGED <<page, countdown>> PROVE CountsDown'
  BY <1>1 DEF CountsDown, countdown
<1>2. ASSUME NEW p, NEW a, Show(p, a) PROVE CountsDown'
  BY <1>2, LinkAssumption DEF Show, CountsDown
<1>3. ASSUME NEW c \in Calls,
             Allow(c) \/ Deny(c) \/ Mail(c) \/ MailThrows(c) \/ WriteThrows(c) \/ Resend(c)
             \/ \E a \in Addresses : Submit(c, a)
      PROVE  CountsDown'
  BY <1>1, <1>3 DEF Allow, Deny, Mail, MailThrows, WriteThrows, Resend, Submit
<1>4. ASSUME NEW c \in Calls, Write(c) PROVE CountsDown'
  <2>1. CASE RestartCountdown
    BY <2>1, LinkAssumption DEF RestartCountdown, CountsDown
  <2> QED BY <1>1, <1>2, <1>4, <2>1 DEF Write
<1>5. CASE Tick
  <2>1. CASE ticking = 0
    BY <1>1, <1>5, <2>1 DEF Tick
  <2>2. CASE ticking = 1 /\ remaining' = 0
    <3>1. canResend' = TRUE
      BY <1>5, <2>2 DEF Tick
    <3> QED BY <3>1, Zenon DEF CountsDown
  <2>3. CASE ticking = 1 /\ remaining' # 0
    <3>1. ticking' = 1 /\ remaining' = IF remaining > 1 THEN remaining - 1 ELSE 0
      BY <1>5, <2>3 DEF Tick
    <3>2. remaining' > 0
      BY <2>3, <3>1 DEF TypeOK
    <3> QED BY <3>1, <3>2, Zenon DEF CountsDown
  <2> QED BY <2>1, <2>2, <2>3 DEF TypeOK
<1>6. ASSUME NEW p, NEW a, Visit(p, a) PROVE CountsDown'
  BY <1>2, <1>6 DEF Visit
<1>7. CASE Restart
  BY <1>2, <1>7 DEF Restart
<1>8. CASE UNCHANGED vars
  BY <1>1, <1>8 DEF vars
<1> QED BY <1>3, <1>4, <1>5, <1>6, <1>7, <1>8 DEF Next

\* EmailLink: a waiting page never keeps its button disabled without a timer that
\* will enable it, whatever callbacks restart the countdown or end on another page.
THEOREM CountdownHasTimer == Spec => []CountsDown
<1>1. Init => CountsDown
  BY DEF Init, CountsDown
<1> QED BY <1>1, TypeInit, TypeStep, CountsDownStep, PTL DEF Spec
=============================================================================
