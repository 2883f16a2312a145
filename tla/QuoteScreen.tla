----------------------------- MODULE QuoteScreen -----------------------------
(***************************************************************************)
(* The pages that show a quote: home, rates and "add money".  They share   *)
(* quoteParamsProvider, which they edit, and quoteProvider, which asks the *)
(* backend again for every edit (quote_provider.dart).  A build of         *)
(* quoteProvider that a later one has replaced is not called off: it still *)
(* waits its 200 ms and sends its request, and only its result is dropped. *)
(*                                                                         *)
(* Amounts are in thousandths; what is in the text field is <<>> or <<n>>. *)
(***************************************************************************)
EXTENDS Integers, FiniteSets

CONSTANTS
  Typed,       \* the amounts the user may type
  Currencies,  \* what the currency picker offers
  MaxRebuilds,  \* how often a failed build is tried again
  MaxInputs    \* bound on what the user does

ASSUME AmountsAssumption == Typed \subseteq Nat
ASSUME BoundsAssumption == MaxRebuilds \in Nat /\ MaxInputs \in Nat

VARIABLES
  page,     \* the page on the screen, or "away"
  text,     \* what its amount field holds
  sheet,    \* <<>>, or <<the modal sheet that is open>>
  params,   \* quoteParamsProvider's state
  builds,   \* how many times quoteProvider has been built
  calls,    \* getQuote of each build, until it returns
  view,     \* quoteProvider's state, as the page renders it
  retry,    \* retries of the current parameters, and whether one is due
  inputs    \* what the user has done so far

provider == <<params, builds, calls, view, retry>>
screenVars == <<page, text, sheet, provider, inputs>>

Pages == {"home", "rates", "addMoney"}
Loading == [is |-> "loading"]
Failed == [is |-> "error"]
Data(quote) == [is |-> "data", quote |-> quote]

-----------------------------------------------------------------------------
(* The backend's answer, and what the client makes of it *)

\* quotes.go: a missing amount becomes 1000; the client sends two decimals.
Cents(a) == ((a + 5) \div 10) * 10
FeeSwapped(method) ==  \* mutant: the two cards' fees are swapped
  [wire |-> 611, debitCard |-> 6165, creditCard |-> 1235][method]
FeeForMethod(method) == [wire |-> 611, debitCard |-> 1235, creditCard |-> 6165][method]
Handle(p) ==
  [source |-> p.source, target |-> p.target,
   amount |-> IF Cents(p.amount) = 0 THEN 1000000 ELSE Cents(p.amount),
   fee |-> FeeForMethod(p.method)]

\* The sheet's methods that can be chosen, each with the fee it announces.
Announced == [wire |-> 611, debitCard |-> 1235, creditCard |-> 6165]
Methods == DOMAIN Announced

\* tryParse of the field with 0 for what does not parse; toStringAsFixed(0).
Parsed(field) == IF field = <<>> THEN 0 ELSE field[1]
Whole(a) == <<((a + 500) \div 1000) * 1000>>
FieldOf(p, a) == IF p = "addMoney" /\ a = 0 THEN <<>> ELSE Whole(a)

Default == [source |-> "USD", target |-> "NGN", amount |-> 100000, method |-> "wire"]

-----------------------------------------------------------------------------
(* quoteProvider *)

\* build(): the parameters are read now; the view shows v while it runs.
Build(p, v, n) ==
  /\ builds' = builds + 1
  /\ calls' = calls \cup {[build |-> builds + 1, params |-> p, at |-> "delay"]}
  /\ view' = v
  /\ retry' = [count |-> n, due |-> FALSE]

ScreenInit ==
  /\ page = "away" /\ text = <<>> /\ sheet = <<>>
  /\ params = Default
  /\ builds = 0 /\ calls = {}
  /\ view = Loading
  /\ retry = [count |-> 0, due |-> FALSE]
  /\ inputs = 0

\* A build's result counts while no later build has begun and a page watches.
IsCurrentLate(c) == page \in Pages  \* mutant: whichever answer comes last
IsCurrent(c) == page \in Pages /\ c.build = builds

\* The 200 ms are over; the request leaves.
Send(c) ==
  /\ c \in calls /\ c.at = "delay"
  /\ calls' = (calls \ {c}) \cup {[c EXCEPT !.at = "sent"]}
  /\ UNCHANGED <<page, text, sheet, params, builds, view, retry, inputs>>

\* "Change" in the details of the "add money" page uses that block's own ref,
\* which dies with the block when the view shows no data.
WithoutDetails(v) ==
  IF page = "addMoney" /\ v.is # "data"
  THEN [i \in DOMAIN sheet |->
          IF sheet[i].picks = "method" THEN [sheet[i] EXCEPT !.ref = FALSE] ELSE sheet[i]]
  ELSE sheet

Answered(c) ==
  /\ c \in calls /\ c.at = "sent"
  /\ calls' = calls \ {c}
  /\ IF IsCurrent(c)
     THEN view' = Data(Handle(c.params)) /\ retry' = [count |-> 0, due |-> FALSE]
     ELSE UNCHANGED <<view, retry>>
  /\ UNCHANGED <<page, text, sheet, params, builds, inputs>>

\* A status other than 200, or no answer within 12 s.  The library tries again
\* a limited number of times; what is rendered meanwhile is its choice.
SettleSilently(c) ==  \* mutant: the error is swallowed
  UNCHANGED <<view, retry, sheet>>
SettleRetrying(c) ==  \* mutant: retried without end
  IF IsCurrent(c)
  THEN retry' = [retry EXCEPT !.due = TRUE] /\ view' = Failed /\ UNCHANGED sheet
  ELSE UNCHANGED <<view, retry, sheet>>
SettleFailed(c) ==
  IF IsCurrent(c)
  THEN /\ retry' = [retry EXCEPT !.due = retry.count < MaxRebuilds]
       /\ view' \in {Failed} \cup IF retry'.due THEN {Loading} ELSE {}
       /\ sheet' = WithoutDetails(view')
  ELSE UNCHANGED <<view, retry, sheet>>
Fail(c) ==
  /\ c \in calls /\ c.at = "sent"
  /\ calls' = calls \ {c}
  /\ SettleFailed(c)
  /\ UNCHANGED <<page, text, params, builds, inputs>>

Retry ==
  /\ page \in Pages /\ retry.due
  /\ Build(params, view, retry.count + 1)
  /\ UNCHANGED <<page, text, sheet, params, inputs>>

-----------------------------------------------------------------------------
(* The user *)

Acts == inputs < MaxInputs /\ inputs' = inputs + 1
OnPage == page \in Pages /\ sheet = <<>>

\* patch(), which replaces the parameters and so has the quote built again.
Patch(p) == params' = p /\ Build(p, Loading, 0)

\* onChanged of the amount field.
TypeOrKeep(t) ==  \* mutant: text that does not parse changes nothing
  /\ text' = t
  /\ IF t = <<>> THEN UNCHANGED provider
     ELSE Patch([params EXCEPT !.amount = Parsed(t)])
TypeAmount(t) ==
  /\ text' = t
  /\ Patch([params EXCEPT !.amount = Parsed(t)])
Type(t) ==
  /\ Acts /\ OnPage
  /\ TypeAmount(t)
  /\ UNCHANGED <<page, sheet>>

\* The sections with the target's picker and the method's sheet show a quote;
\* on "add money" they are there only for an amount above zero.
ShowsQuote == view.is = "data" /\ (page = "addMoney" => params.amount > 0)

Open(what) ==
  /\ Acts /\ OnPage
  /\ what = "source" \/ ShowsQuote
  /\ sheet' = <<[picks |-> what, amount |-> params.amount, ref |-> TRUE]>>
  /\ UNCHANGED <<page, text, provider>>

\* Home and "add money" rewrite the field with the amount of the build in which
\* the picker was opened.  The rates page refreshes the quote after its patch:
\* one build, since the patch only marks it to be built again.
PickSource(c) ==
  /\ sheet[1].picks = "source"
  /\ Patch([params EXCEPT !.source = c])
  /\ text' = IF page = "rates" THEN text ELSE Whole(sheet[1].amount)
PickTarget(c) ==
  /\ sheet[1].picks = "target"
  /\ Patch([params EXCEPT !.target = c])
  /\ UNCHANGED text
PickMethod(m) ==
  /\ sheet[1].picks = "method"
  /\ IF sheet[1].ref THEN Patch([params EXCEPT !.method = m]) ELSE UNCHANGED provider
  /\ UNCHANGED text

Choose ==
  /\ sheet # <<>>
  /\ \/ \E c \in Currencies : PickSource(c) \/ PickTarget(c)
     \/ \E m \in Methods : PickMethod(m)
  /\ sheet' = <<>>
  /\ UNCHANGED <<page, inputs>>
Dismiss ==
  /\ sheet # <<>>
  /\ sheet' = <<>>
  /\ UNCHANGED <<page, text, provider, inputs>>

\* Pulled down to refresh: what is shown stays until the new answer.
Refresh ==
  /\ Acts /\ OnPage /\ page # "home"
  /\ Build(params, view, 0)
  /\ UNCHANGED <<page, text, sheet, params>>

\* From one of the pages to another one the providers are watched throughout;
\* anywhere else nobody watches them and they are disposed of.
Move(q) ==
  /\ Acts /\ OnPage
  /\ \/ q = "home" /\ page # "home"
     \/ q = "addMoney" /\ page = "home"
  /\ page' = q
  /\ text' = FieldOf(q, params.amount)
  /\ UNCHANGED <<sheet, provider>>
Leave ==
  /\ Acts /\ OnPage
  /\ page' = "away"
  /\ text' = <<>>
  /\ params' = Default /\ view' = Loading /\ retry' = [count |-> 0, due |-> FALSE]
  /\ UNCHANGED <<sheet, builds, calls>>
Enter(q) ==
  /\ page = "away"
  /\ page' = q
  /\ text' = FieldOf(q, Default.amount)
  /\ Patch(Default)
  /\ UNCHANGED <<sheet, inputs>>

User ==
  \/ \E t \in {<<>>} \cup {<<a>> : a \in Typed} : Type(t)
  \/ \E what \in {"source", "target", "method"} : Open(what)
  \/ Choose \/ Dismiss \/ Refresh \/ Leave
  \/ \E q \in Pages : Move(q) \/ Enter(q)

ScreenNext == User \/ Retry \/ \E c \in calls : Send(c) \/ Answered(c) \/ Fail(c)

ScreenSpec == ScreenInit /\ [][ScreenNext]_screenVars

\* Timers run, and a request ends in 12 s at the latest.  The user need not act.
FairScreenSpec ==
  /\ ScreenSpec /\ WF_screenVars(Retry)
  /\ WF_screenVars(\E c \in calls : Send(c)) /\ WF_screenVars(\E c \in calls : Answered(c) \/ Fail(c))

-----------------------------------------------------------------------------
Params == [source : Currencies \cup {Default.source}, target : Currencies \cup {Default.target},
           amount : Typed \cup {0, Default.amount}, method : Methods]

ScreenTypeOK ==
  /\ page \in Pages \cup {"away"}
  /\ text = <<>> \/ text[1] \in Nat
  /\ sheet = <<>> \/ sheet[1].picks \in {"source", "target", "method"}
  /\ params \in Params
  /\ \A c \in calls : c.build \in 1 .. builds /\ c.params \in Params /\ c.at \in {"delay", "sent"}
  /\ view.is \in {"loading", "error", "data"}
  /\ retry.count \in 0 .. MaxRebuilds /\ retry.due \in BOOLEAN

\* A quote on a page is for the currencies, the amount and the method on that
\* page, and charges what the sheet announced for the method, whatever edits
\* were made and in whatever order the answers came.  An amount that is sent as
\* 0.00 is quoted as 1000.
ShownQuoteAnswersParams ==
  view.is = "data" =>
    view.quote = [source |-> params.source, target |-> params.target,
                  amount |-> IF Cents(params.amount) > 0 THEN Cents(params.amount) ELSE 1000000,
                  fee |-> Announced[params.method]]

\* The field holds the amount the quote is asked for, or that amount rounded to
\* whole units: no edit is lost on the way to the provider, and no page shows
\* the amount of another one.
FieldMeansAmount ==
  page \in Pages => Parsed(text) = params.amount \/ text = Whole(params.amount)

\* Only the end of the newest build's own request settles the view: no late
\* answer, and no late error, replaces what is shown.
OnlyNewestSettles ==
  [][view' # view /\ view'.is # "loading" =>
       \E c \in calls : c.build = builds /\ c.at = "sent" /\ c \notin calls']_screenVars

\* A page whose user does no more comes to show a quote or an error.
SettlesWhenQuiet ==
  []<><<User>>_screenVars \/ <>[](page \in Pages => view.is # "loading")
=============================================================================
