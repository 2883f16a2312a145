# VoltPay in TLA+

Models, model-checking runs and proofs about VoltPay: a Go HTTP backend
(`voltpay_go`), a Flutter client (`lib`), Firebase functions (`functions`),
Firestore rules and the sign-in web page (`public`). Every definition is
translated from the source; `PROJECT.json` maps each one to the lines it stands
for, lists the hazards the properties are for, and gives for every property a
plausible bug (a definition marked "mutant") that it catches.

    tlc -config MCQuoteService.cfg MCQuoteService.tla   # a run of PROJECT.json
    tlapm QuoteServiceProofs.tla                        # a module of proofs

## 1. Inventory

| Part | State it keeps | Operations | What makes it hard | Correct means |
|---|---|---|---|---|
| Rate lookup (`handlers/quotes.go`, `ratecache.go`, `upstream.go`) | a map per instance, one Redis key per currency pair | `fetchRate`, `Get`, `Set`, `callUpstreamWithRetry` | concurrent requests, two cache levels, several instances and clocks, retries, restarts | no rate outlives its lifetime; retries stay in their budget; every request ends |
| Rate limiter (`middleware/ratelimit.go`, `http.go`) | a Redis counter per caller, a switch per process | `Middleware` | counter lifetime against a sliding window; Redis failing open | no window lets more than limit + burst through; only busy callers are denied |
| JWKS cache (`risc/receiver.go`) | the key map and its date, unsynchronised | `Keyfunc` | data race while the map is refilled, key rotation, late and failed fetches | a withdrawn key stops working, a published one works |
| RISC receiver (`handlers/risc.go`, `risc/receiver.go`, `risc/mitigations.go`, `http.go`) | what start-up chose, one token's events and user | `handleEvents` | random map order, two verifiers, four test settings | only tokens signed and issued by Google act; each event acts once, before the 204 |
| RISC event store (`handlers/risc_store.go`) and stream registrar (`google/riscapi`) | a slice under a mutex; none | `Add`, `List`, `reaper`; `UpdateStream`, `Verify` | nothing constructs or calls them | - |
| Blocking functions (`handlers/idpblock.go`) | a variable with dependencies per handler | `BeforeCreate`, `BeforeSignIn` | race on the lazy write, a policy fed with an empty body | nobody goes on without dependencies; the policy is applied |
| Accounts and profiles (`auth_service.dart`, its hooks, Firestore repository and rules, `handlers/users.go`, `finishSignIn.js`) | Firebase session and user, profile document | `signIn`, `signOut`, `ensureProfile`, `UsersEnsure` | several services of which one fails half-way, kills, queued writes, transactions | a signed-in user has a profile; it is dated once |
| Dependencies (`bootstrap/deps.go`, `config`, `auth/service.go`) | a `sync.Once`, the clients and an error | `Deps`, `Init`, `Load` | made with the first request's context; a failure stays; two variables for one project | everybody meets the first outcome, on the project that was configured; nobody waits for ever |
| Developer keys (`internal/devkeys`, `cmd/*`) | a PEM file | `LoadOrCreate` | several processes, a stop while writing | the sender's key is the published one |
| Password vault (`local_password_repo.dart`, `local_login_repo.dart`, `password_hasher_*.dart`) | one stored hash per user, the memo that Argon2 is broken | set, verify, clear | every `await` lets another call in; a verify may rehash | a verdict is right for what was stored; a verify never changes which password is stored |
| Email-link sign-in (`email_passwordless_login_repo.dart`, verification screen, `app_router.dart`) | the pending address, the resend countdown | `sendEmailLink`, resend, `restartCountdown` | callbacks outlive their pages; mail and stored address are two steps; reloads | the address waited for is one that got a mail; mails keep their distance; the countdown ends |
| Quote screens (`quote_provider.dart`, `get_quotes_service.dart`, home, rates, add money) | shared parameters, the shown quote, a text field per page | edit, pick, refresh, move | late answers of superseded builds, errors, retries, a sheet over a changing page | the quote shown is the one for what the page shows |
| Top-up, recipients, currency, country, payment options | form state, validators | select, edit, validate | save against reload; check digits | only complete, valid forms go on |
| Onboarding flow and its screens | page, slide, a timer per screen | next, back, swipe, tap | timers of hidden pages against gestures | a page is shown for its time; the flow does not strand |
| Firebase functions (`functions/src`) | request counters inside a library | request pipeline | order of middleware | an unattested request reaches no route |

Parts interact by calls and shared stores: client and backend by HTTP
(`/api/quotes`, `/users/ensure`, the blocking functions), instances of the
backend by Redis, client and backend by the Firestore user document, pages of
the client by Riverpod providers.

## 2. Modules

| Module | Models | Kind |
|---|---|---|
| `FreshRates` | what `/api/quotes` promises of a rate | abstract specification |
| `QuoteService` | rate lookup, cache, upstream retries; implements `FreshRates` | detailed |
| `QuoteServiceProofs` | theorems about `QuoteService` and `QuoteScreen` | proofs |
| `RateLimiter` | rate limiter and its switch at boot | detailed |
| `RateLimiterProofs` | theorems about `RateLimiter` | proofs |
| `GoogleJWKS` | key cache of the RISC receiver | detailed |
| `RiscReceiver` | verification and handling of one token | detailed |
| `GoogleJWKSProofs` | theorems about `GoogleJWKS` and `RiscReceiver` | proofs |
| `UserAccounts` | sign-in, profile document, rules, `/users/ensure` | detailed |
| `PasswordVault` | the two password repositories and the hashers | detailed |
| `PasswordVaultProofs` | theorems about `PasswordVault` | proofs |
| `OnboardingFlow` | the onboarding pages and their timers | detailed |
| `UserAccountsProofs` | theorems about `UserAccounts` and `OnboardingFlow` | proofs |
| `QuoteScreen` | the three pages that show a quote, over the backend's answer | detailed |
| `DevKeys` | the development key, its file and the processes that share it | detailed |
| `DevKeysProofs` | theorems about `DevKeys` | proofs |
| `BlockingFunctions` | the blocking functions and the dependencies that three handlers share | detailed |
| `BlockingFunctionsProofs` | theorems about `BlockingFunctions` | proofs |
| `EmailLink` | the two pages that send the mail with the sign-in link | detailed |
| `EmailLinkProofs` | theorems about `EmailLink` | proofs |
| `MCQuoteService`, `MCRateLimiter`, `MCBlockingFunctions` | values of constants for TLC | model checking |

`QuoteScreen`, `RiscReceiver` and `OnboardingFlow` name their specification
`ScreenSpec`, `RiscSpec` and `FlowSpec`, and what it is made of likewise, so that
one module of proofs can extend each of them together with its neighbour: the
service whose quotes are shown, the keys that tokens are verified with, the
accounts that the flow leads to.

### QuoteService and FreshRates

State: `mem[i]` is the map of instance i for one currency pair, `redis` the
shared key with its death, `pc`, `on`, `held`, `attempt`, `wake`, `cause` the
locals of a handler. One action per step another goroutine can interleave with:
the read of the map under `RLock`, its test after `RUnlock`, the Redis GET, the
warm-up write, each upstream call, each sleep, the two writes of `Set`. A rate
is the instant the upstream returned it, so freshness is arithmetic. Each
instance reads its own clock (`Offset`, within `MaxSkew`); `Restart` and `Evict`
lose memory and key; a Redis read may always fail; a Redis write may be lost.
`isTransient` is modelled by what its search for words makes of each class of
error, the quoted body included: a 4xx whose body says "timeout" is retried, the
client's own timeout is not.

`FreshRates` says only: a request is asked, settles on a rate younger than
`MaxAge`, and quotes that one, or fails or is lost. `QuoteService` implements it
with `MaxAge = TTL + MaxSkew`, by the mapping `stageOf`.

### RateLimiter

`count[k]` and `dead[k]` are the Redis counter and its expiry; `INCR` and
`EXPIRE` are one transaction, so every request, also a denied one, renews the
window. `history` is a history variable of what the counters did. `limiting[i]`
is the outcome of the ping at boot. `Exec` failing after Redis ran it
(`AllowUnseen`) and before (`AllowUncounted`) are both there.

### GoogleJWKS

Every access to `Cache` and `Last` is a step of its own; `Crash` is the Go
runtime's fatal error for concurrent map access, possible but not certain. The
key server rotates keys while fetches are under way, answers late, fails, or
answers an error that decodes as a page without keys.
A key of the page that does not decode (`receiver.go:233`) is never stored, so it
counts as not published: `published` holds the keys that do.

### RiscReceiver

`RiscInit` chooses any set of the four test settings; `page` is whose keys count and
`testIssuer` which verifier runs, as `http.go` and `newRISCHandler` choose them,
the two verifiers as swapped in the model as they are in the code. A token is
its claims and who signed it. The loop over the events visits them in any order,
and each mitigation is two calls.

### UserAccounts

`pc[d]` follows `signIn` on device d up to Firebase and through the hook that
writes the profile; `queue` holds the writes that Firestore's offline queue
still has when the app is killed. `RulesAllow` is what `firestore.rules` make of
that write. `ensure[r]` is a request of the backend with its optimistic
transaction. `lost` says how the first write of the profile was lost for good: the
account was made on the page of an email link; by a call to Firebase that threw
after the server had done its part (`Unheard`: from then on `isNewUser` is false);
the app was killed, during that call or before the write had arrived; or the rules
refused the write. A call that arrives at the server only after the device has
given it up is the same step: nothing in between can tell.

### PasswordVault

One key of the secure storage; a hash stands for its password, format and
parameters. Calls overlap at every `await`. `broken[h]` is `_argon2Broken`.
`truth` and `overlap` are history variables.

### OnboardingFlow

`page` is `_index`, `goal` where the slide is going, `inView` the screens of
which something is seen, `elapsed` the idle timers. A screen is built, and its
timer started, when it first comes into view, and is kept alive after that (the
first one is not). Any input can come at any point of a slide.

### QuoteScreen

`params` and `view` are the states of `quoteParamsProvider` and `quoteProvider`,
`calls` the `getQuote` calls under way, one per build. Each edit is a new build;
older builds go on and only their results are dropped. What Riverpod does of
itself (dropping results, retrying a failed build a limited number of times,
disposing of unwatched providers) is marked external in the map. `Handle` is the
backend's answer as far as the page shows it: pair, amount, fee. `sheet` is the
modal that is open, with what its closure captured. The rounding of the field to
whole units and of the request to two decimals are modelled by what they do.

### DevKeys

A file is its parts, each of one key or not written; `OpenFile` empties it and
`pem.Encode` fills it part by part, at the writer's own offset. `pc` follows the
key server and the senders through `LoadOrCreate`; any of them is stopped at any
step. `trusted` is what the receiver has cached under the one key id there is.
`raced` and `cut` are history variables: two creators overlapped, a writer was
stopped.

### BlockingFunctions

`once` and `global` are the `sync.Once` of `deps.go` and what it made, `deps[h]`
the variable each handler captured and shares among its requests, `got[r]` what
`Deps` returned. The test of the variable, the wait, the initialisation, the
write and the use are steps of their own; the variable is a pointer, which Go reads
and writes whole, so the race on it is their order. `env` is the environment that
`ClientOptions` turns into a project and credentials; `setting` is what `Load`
makes the policy of. `Rules` lists the rules of `BeforeCreate` in order, each
with its status, and `Decide` takes the first that is broken. An address is a
name with its domain and lower case as functions; a regular expression is the
set of addresses it matches. `httpx` is `Reply`; the clock of 6.5 s is a choice.

### EmailLink

`calls` are the callbacks of taps: the policy is asked, the mail is sent, the
address is stored, and then the page changes or the countdown begins anew, if
the page that started the callback is still `mounted`. `Visit` is every way of
the web to a page, `Restart` the end or the reload of the app, which leaves what
was under way done or not. `ticking` are the timers of the waiting page;
`mailed`, `since` and `odd` are history variables: who got a mail, when the last
one went, and what else has happened.

## 3. Runs

| Run | Checks | Instance |
|---|---|---|
| `quote_service` | `FreshAnswer`, `UpstreamBudget`, refinement `QuotesFreshRates`, liveness `EveryRequestEnds` | 2 instances a unit apart, 2 requests, 2 retries |
| `rate_limiter` | `AllowedPerWindow`, `DeniedOnlyWhenBusy` | 3 callers, two of one key, limit 1 + burst 1, window 2, 5 counted events |
| `jwks` | `WithdrawnKeyRefused`, `MissesExplained` | 2 handlers, 2 keys, 4 instants |
| `risc_receiver` | `MitigatesWhatWasAsked`, `OnlyVerified` | 2 users, 4 event types, 2 events a token, all settings and signers |
| `user_accounts` | `MissingProfileExplained`, `DatedOnce` | 2 devices, 2 backend requests, 4 writes |
| `password_vault` | `HoldsLastSet`, `VerdictIsRight`, `MigratesForward` | 2 calls, 2 hashers, 2 passwords |
| `onboarding` | `ShownPageIsTimed`, liveness `SettlesWhenQuiet` | all 6 pages, timers of 3 ticks |
| `quote_screen` | `ShownQuoteAnswersParams`, `FieldMeansAmount`, `OnlyNewestSettles`, liveness `SettlesWhenQuiet` | 3 edits, 2 currencies, 3 methods, amounts 0, 0.004, 99.5 and 100, 1 retry |
| `dev_keys` | `TokenFitsUnlessRaced`, `FailedStartExplained` | key server, 2 senders, 4 keys, a file of 2 parts |
| `blocking_functions` | `DepsInUse`, `FirstOutcomeLasts`, liveness `EveryRequestEnds` | 3 requests, both programs, every environment, the strict policy |
| `signup_policy` | violation of `RulesApplied` | 1 request, no policy and the strict one, 4 bodies |
| `email_link` | `AwaitedIsKnown`, `ResendsSpaced`, liveness `CountdownEnds` | 2 callbacks, 2 addresses and the default one, a countdown of 2 |

Every passing run also checks its module's type invariant: `TypeOK`, `ScreenTypeOK`,
`RiscTypeOK` or `FlowTypeOK`.

What the violation shows: `BeforeCreate` decodes the request, but looks for the
user in an empty body (`idpblock.go:43`). Every request that can be decoded is
answered with the role "guest", and the rules under "Email checks for
non-federated" (`idpblock.go:70`) are never reached. `RulesApplied` demands
them of the body that was sent.

### Bounds, and why they are enough

- Two requests, handlers, calls or devices are the least that interleave; the
  hazards listed concern pairs (a reader and a writer, two writers, a set and a
  verify). Three would repeat them. Two instances are needed for an entry to
  travel from one memory through Redis to another one. The limiter has a third
  caller so that two share a key and one does not; the blocking functions a third
  request so that one initialises, one waits and one finds it done; the keys a
  second sender so that two senders can meet without the server.
- Times are small but keep their order: `TTL` below `RedisTTL`, so an entry can
  be dead in a living key; a sleep as long as a call. `Horizon` bounds arrivals
  in `QuoteService`, not the calls, which always run to their end.
- `MaxRetries = 2` is the code's. In `QuoteScreen` one retry stands for the
  library's ten: what is shown during a retry does not depend on the number.
- `MaxRequests`, `MaxWrites`, `MaxInputs` and `MaxEvents` bound what the
  environment does. `MaxInputs = 3` lets two edits and a picker, or an edit, a
  refresh and an open sheet, overlap with every answer; the run reaches the state
  in which a refresh fails under an open sheet.
- `Limit`, `Burst` and `Window` are small enough for several windows to pass.
- `Keys = 4` of `DevKeys`: two creators, the cached key and the file's can all
  differ. `Parts = 2` is the least that can be half written.
- `Countdown = 2` has a moment in between; the countdown's 120 s differ in number
  only. Two callbacks are the least that cross, and two addresses tell them apart.
- The bodies of `MCBlockingFunctions` break each kind of rule once, with an address
  in capitals, a pattern that does not compile and both places for the user.
- `CHECK_DEADLOCK FALSE` stands in the runs of `RiscReceiver` (an answered token
  is the end), `QuoteScreen` (the user may stop) and `BlockingFunctions` (every
  request is answered).

### Fairness

- `QuoteService!FairSpec`: time advances, and a handler that can proceed by
  itself does: goroutines are scheduled and `http.Client.Timeout` ends a call
  that the upstream never answers. Arrivals, answers, restarts and evictions
  are not fair.
- `OnboardingFlow!FairFlowSpec`: frames are drawn and timers run. The user is not
  fair: `SettlesWhenQuiet` says what holds once they stop.
- `QuoteScreen!FairScreenSpec`: the 200 ms and the retry timer run out, and a request
  ends (`.timeout(12 s)` in `get_quotes_service.dart`). The user is not fair.
- `BlockingFunctions!FairSpec`: a request that can proceed does: goroutines are
  scheduled, and the calls that `Init` makes return. Arrivals are not fair.
- `EmailLink!FairSpec`: `Timer.periodic` fires. The user, the services and the
  callbacks are not fair; `CountdownEnds` excepts an app that is reloaded for ever.

The other runs check safety only and assume no fairness.

## 4. Proofs

Every safety invariant and every action property that a passing run checks is the
statement of a theorem, for every value of the constants that the named assumptions
allow. Each strengthened invariant below was checked with TLC, on the instance of the
run, before it was proved.

`QuoteServiceProofs` proves, for every number of instances and requests, every
timeout, and any clock offsets within `MaxSkew`:

- `TypeCorrect`: `Spec => []TypeOK`. `TypeOK` alone is not inductive: `attempt`
  could pass `MaxRetries`. `RetriesLeft` (who sleeps has a retry left) completes
  it.
- `AnswersAreFresh`: `Spec => []FreshAnswer`. The inductive invariant `FreshInv`
  follows the entry, not the answer: wherever an entry lies (a memory, Redis, a
  handler's hand), its expiry exceeds the instant it was fetched by at most
  `TTL` and the skew (`EntriesBounded`), because every copy keeps `exp`; and a
  request that has chosen keeps what it chose (`ChoiceKept`). The freshness test
  then bounds the age at the moment of choice (`LiveIsYoung`).
- `UpstreamIsBounded`: `Spec => []UpstreamBudget`. `BudgetInv` bounds the end of
  the running call or sleep by the budget of the attempts made so far; time does
  not pass that end.
- `ServiceQuotesFreshRates`: `Spec => QuotesFreshRates`. Under `FreshInv` each
  step is mapped to a step of `FreshRates` or a stutter (`MapNext`).

They rest on `TimesAssumption` (the durations are positive, at most two retries,
as in the code) and `ClockAssumption` (the clocks of two instances differ by at
most `MaxSkew`); the runs evaluate both.

`DevKeysProofs` proves, for every number of senders and keys and a file of any
number of parts, from `DevKeysAssumption` (a file has parts, the server is no
sender):

- `DevKeysTypeCorrect`: `Spec => []TypeOK`, with `PartsLeft`: who writes has a part
  left to write, or `written` could leave its range.
- `TokensFit`: `Spec => []TokenFitsUnlessRaced`. The verdict compares two keys that
  were read at different times; `KeysInv` relates each to the file. Unless two
  creators overlapped, only one process creates the file (`OneCreator`), what it
  has written so far is its key and nothing after it (`WrittenSoFar`), so that in
  the meantime the file is no key's (`UnfinishedIsNoKeys`) and nobody is up
  (`NobodyIsUp`); hence who is up, and the receiver, have the file's key
  (`SameKey`), and one file has one key (`OneKeyFits`).
- `FailedStartsExplained`: `Spec => FailedStartExplained`, from `BadFileExplained`.

`BlockingFunctionsProofs` proves, for any number of requests, any policy and any
environment, without an assumption on the constants:

- `BlockingTypeCorrect`: `Spec => []TypeOK`. The decoded requests are one case: since
  `getUserMap` finds nobody in an empty body, `Decide` says "guest" (`GuestsOnly`).
- `NobodyWithoutDeps`: `Spec => []DepsInUse`, and `FirstOutcomeIsFinal`:
  `Spec => []FirstOutcomeLasts`. The inductive invariant `DepsInv` tells two kinds of
  process apart: one mounted with dependencies, in which nobody reaches the
  `sync.Once` (`Given`), and one without, in which every variable is empty or what
  the once made (`Made`); `Sync` says that this changes only when the once is done,
  while nobody has any of it. That the project is the same in both is a matter of
  the order in which the variables are looked at (`FirstOfTwo`, `FirstOfThree`,
  `SameProject`).

`EmailLinkProofs` proves, for any number of callbacks and addresses and any
countdown, from `LinkAssumption` (the default address and "none" are no address a
user enters, the countdown is not zero):

- `EmailLinkTypeCorrect`: `Spec => []TypeOK`, with one timer at most.
- `AwaitedAddressIsKnown`: `Spec => []AwaitedIsKnown`. The pages that show an address
  are opened by a callback that mailed it before (`MailedFirst`), or are in the
  history because they were; while callbacks have not crossed there is one at most,
  of the page and the address shown (`OneCallback`), and the restart or the visit of
  a page cannot bring in another address.

- `ResendsAreSpaced`: `Spec => ResendsSpaced`. The countdown that the page shows and the
  time since the last mail are set by different steps, and a page that is opened again
  starts a countdown of its own. `SpacedInv` says that while nothing crossed or was
  lost the countdown has no less to go than the time since the mail (`CountsFromMail`),
  but between a mail and the new countdown, when no second callback can ask for one.

`PasswordVaultProofs` proves, for any number of calls, hashers and passwords, from
`VaultAssumption` (there is a hasher, and "nothing" is no password):

- `VaultTypeCorrect`: `Spec => []TypeOK`, with `StepsFitOp`: a call is only at steps of
  its operation, and what it is about to write is of its own password.
- `LastSetHeld`: `Spec => []HoldsLastSet`. A verify writes long after it has read. As
  long as no set or clear fell in between, what it read is still true (`ReadsTruth`),
  so the hash it writes is of the same password.
- `VerdictsRight`: `Spec => VerdictIsRight`, and `HashesMigrate`:
  `Spec => MigratesForward`. `FormatsExplained` says when a hash that is not of
  Argon2id is met or made: only with a hasher that Argon2 has failed.

`UserAccountsProofs` proves of `UserAccounts`, for any number of devices and requests,
from `AccountsAssumption` (a transaction has an attempt, the bound on writes is a
number):

- `AccountsTypeCorrect`: `Spec => []TypeOK`, with `RequestsFit`: who reads has an attempt
  left, who writes has read a document that exists.
- `ProfileDatedOnce`: `Spec => DatedOnce`, from `BothDates`: a document has both dates or
  none, so a backend write finds one to keep.
- `ProfilesAccountedFor`: `Spec => []MissingProfileExplained`. `ProfileInv` follows the
  first write from the sign-in to the document. There is one (`OneFate`): before the
  account there is none; while a device is about to send it or has it in the queue,
  no other device has one and nothing is settled; afterwards the profile exists
  exactly if `lost` gives no reason. That the backend writes no document that was
  not there (`ExistsStep`) makes the loss final.

and of `OnboardingFlow`, for every idle time, from `IdleAssumption` (it is not zero):

- `FlowTypeCorrect`: `FlowSpec => []FlowTypeOK`, and `PagesAreTimed`:
  `FlowSpec => []ShownPageIsTimed`. What is shown at rest says nothing of a slide, on
  which timers and fingers act. `GoesOn` does: until the user turns back, only the
  page the view goes to and the one before it are seen, no page beyond was ever
  built, and the timer of the goal is running, from zero if the view is not yet
  there. With `OneTimer` (no other one is, undisturbed) a timer that runs out is the
  shown page's own.

`GoogleJWKSProofs` proves of `GoogleJWKS`, for any number of handlers and keys and any
times, from `JwksAssumption`:

- `JwksTypeCorrect`: `Spec => []TypeOK`.
- `WithdrawnRefused`: `Spec => WithdrawnKeyRefused`. Several handlers fill the one map
  from pages of different ages. `InTime` bounds the age of a fetch and of the cache a
  lookup uses; `NothingOlder` says of each key under way, or in the map, that it was on
  the page one fetch before the date of the map or later.
- `MissesAccountedFor`: `Spec => MissesExplained`, from `NothingLeftOut`: a page that was
  fetched has all keys that were there when the fetch began, or none, and they are in
  the map when the last handler that fills it is done.

and of `RiscReceiver`, for any users, types and number of events, without
an assumption on the constants:

- `RiscTypeCorrect`: `RiscSpec => []RiscTypeOK`.
- `MitigationsAsAsked`: `RiscSpec => []MitigatesWhatWasAsked`. `ReceiverInv` splits the
  events by the loop: those that were visited and ask for it are acted on
  (`VisitedMitigated`), what was done was done for those alone, once and in order
  (`ActsExplained`), and nothing is done before the checks are passed (`InSequence`).
- `OnlyGoogleActs`: `RiscSpec => []OnlyVerified`, from `Verified`: a process has the test
  keys only together with a test issuer, and its verifier then takes no token.

`RateLimiterProofs` proves, for any callers, limit, burst, window and number of
requests, from `LimiterAssumption`:

- `LimiterTypeCorrect`: `Spec => []TypeOK`.
- `WindowIsLimited`: `Spec => []AllowedPerWindow`. The property is about any stretch of
  the history; the counter is the present. `CountsWindow` ties them: a counter has
  counted at least what happened since any moment of the last window, and outlives
  that window, if its key was not evicted.
- `DenialsAreEarned`: `Spec => []DeniedOnlyWhenBusy`, from `CountsChain`: a counter that
  is alive has a chain of as many requests behind it, each less than a window before
  a later one. Both rest on lemmas about the positions of a history that grows by
  one entry, and on the library's theorems about finite sets.

`QuoteServiceProofs` proves of `QuoteScreen`, for any amounts, currencies, number of
retries and inputs, from `AmountsAssumption` (amounts are numbers) and
`BoundsAssumption` (the bounds are):

- `ScreenTypeCorrect`: `ScreenSpec => []ScreenTypeOK`.
- `ShownQuoteIsRight`: `ScreenSpec => []ShownQuoteAnswersParams`. The parameters may
  change while requests are under way; `NewestAsks` says that the newest build always
  asks for those of the page, `CallsFit` that no other request has its number.
- `FieldIsRight`: `ScreenSpec => []FieldMeansAmount`, with `SheetFits`: the closure of an
  open sheet has captured the amount there still is.
- `NewestSettles`: `ScreenSpec => OnlyNewestSettles`.

Only model-checked:

- liveness: both `EveryRequestEnds`, both `SettlesWhenQuiet` and `CountdownEnds`. It
  rests on fairness, whose `ENABLED` is out of the proof system's reach. What can be
  proved of it is: that nothing goes round or waits for ever by itself.
  `NobodyGoesRound` gives a measure, `StepsLeft`, that every step of a request of
  `QuoteService` lowers, with at most 11 steps and two for each retry;
  `WaitsAreForSomebody` says that whoever waits at the once of `BlockingFunctions`
  waits for a request that is initialising (`HolderAtWork`); `CountdownHasTimer` that a
  disabled button of `EmailLink` has a timer with time left; `LoadingIsNotStuck` that a
  loading page of `QuoteScreen` has its newest build under way or a retry due.
  These four are no property of a run; they were checked with TLC on the runs'
  instances. For the onboarding flow `PagesAreTimed` plays that part until the user
  turns back.
- `RulesApplied`, which is violated.

No model needs a recursive operator, and what the proofs say of sequences they say of
their positions, so nothing was left to an induction over data.

## 5. Not modelled, and what was noted on the way

`PROJECT.json` gives the reason for each part under "components". Left out for
good: registration of the RISC stream and the RISC event store (nothing calls or
constructs them), the headers of CORS and the health route (stateless), `beforeSignIn`
and `preflightEmail` of the app's policy client (nothing calls them), the completion
of a sign-in from a copied link (the guard at `app_router.dart:208` ends the callback
for a link and for none; only the web page finishes a sign-in), layout, platform
projects, and the Firebase functions (library middleware in a fixed chain). Not yet
modelled: linking and unlinking of providers, the forms, and the arithmetic of a
quote (`round2`, which adds a half before it truncates and so rounds a negative
amount the wrong way; the fees in decimal fractions).

Disagreements met while modelling that have no run of their own:

- `ratelimit.go:49` speaks of a "sliding window counter", but each request renews the
  counter's life and nothing is taken off it, so a caller who spaces few requests
  within the window is denied although the last window saw fewer than `Limit` of
  them (`DeniedOnlyWhenBusy` says what does hold).
- `users.go:118` means to create a missing document, but `tx.Get` returns an error
  for one, and the handler answers 500 (`Get` in `UserAccounts`).
- `local_password_repo.dart:37`: a verify that rehashes writes after two awaits; a
  set or clear in between is undone (`overlap` in `HoldsLastSet`).
- `quote_provider.dart:80` says "debounce rapid edits", but a superseded build is
  only delayed, never called off: each edit sends a request (`Send` in
  `QuoteScreen`).
- `app_router.dart:191`: the waiting page opened by its address shows, and on
  "Resend" mails, user@example.com (`Default` in `EmailLink`).
- `idpblock.go:27`: the captured variable is overwritten before the error is looked
  at, by every concurrent first request; it stays harmless because all of them
  write the one outcome of the `sync.Once` (`DepsInUse`).
- `http.go:39`: an instance that does not reach Redis within 500 ms of its boot runs
  without the limiter for its whole life.
- `ratecache.go:51`: a request that found an entry in Redis may put it in memory
  over a newer one; it costs a further lookup, never an old answer.
- `receiver.go:230`: a lookup during another handler's refill misses a published
  key (the first exception in `MissesExplained`); `receiver.go:227` does not look
  at the status, so an error page empties the cache for its lifetime (the second
  exception).
- `http.go:63` sets a client timeout of 10 s, while `quotes.go:122` argues for 4 s
  under a 15 s limit: three calls and two sleeps exceed it.
- `upstream.go:64` quotes the body in the error, so that its words can make a 4xx
  retried, against `upstream.go:24`; the client's own timeout contains none of
  the words and is not retried, against `quotes.go:126`.
- `ratelimit.go:59`: `Retry-After` announces 30 s while the window a denied
  request renews is 60 s.
- `risc.go:61`: the test for a test issuer is inverted, and `Claims.Iss` hides
  the library's issuer field, so that a process with a test issuer refuses every
  token. `risc.go:166`: a subject that is an object fails to
  decode, and the mitigations then name the empty user.
- `firestore.rules:42`: updates are judged on the merged document, whose
  `createdAt` is not among the allowed fields, so a client's update is refused.
- `onboarding_remit_screen.dart:92` and the other screens ignore `isActive` and
  `autoAdvance`: timers of hidden pages move the view, and boost and lock advance
  on a touch, against the comments at `onboarding_flow.dart:63`, `:95` and `:110`.
- `quotes.go:55`: an amount of 0, or one sent as 0.00, is quoted as 1000; home and
  "add money" rewrite the field rounded to whole units after a source currency
  was picked, while the quote is for the exact amount.
- `details_block.dart:53`: a method chosen after a failed refresh took the block
  away is lost with the block's `ref`.
- `add_money_page.dart:233`: the recipient picker is a page that watches no quote,
  so the amount just entered is disposed of with the provider.

## 6. Plan

To prove next: that the vault is an atomic register, with the writes of verify as
stutters, while `overlap` is false; a measure for the steps of `BlockingFunctions`
and `OnboardingFlow`, as for `QuoteService`.

To model after that: the forms (top-up and payment options over their shared
provider, recipients with the IBAN and SWIFT checks against reference definitions,
countries and currencies), the arithmetic of a quote against exact fractions, and
a composition of `QuoteScreen`, `RateLimiter` and `QuoteService`: the client's 12 s
against the server's budget, and superseded requests against the limit.

Abstract specifications worth stating: a vault as an atomic register; a counter per
caller for the limiter.
