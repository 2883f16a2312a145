------------------------- MODULE BlockingFunctions -------------------------
(***************************************************************************)
(* The identity platform's blocking functions POST /auth/beforeCreate and  *)
(* /auth/beforeSignIn (voltpay_go/internal/handlers/idpblock.go), and what *)
(* they share with /users/ensure: the dependencies that the first request  *)
(* sets up (internal/bootstrap, internal/auth, internal/config) and that   *)
(* each handler keeps in a variable of its own, which the concurrent       *)
(* requests of one process read and write without a lock.                  *)
(***************************************************************************)
EXTENDS Naturals, FiniteSets

CONSTANTS
  Requests,   \* requests to one process; each is used once
  Settings,   \* the policy settings in the environment
  Projects,   \* project ids in the environment
  Bodies,     \* bodies of requests
  Domain,     \* Domain[e]: what follows the "@" of address e
  Lower       \* Lower[s]: s in lower case

None == ""
NoUser == [email |-> None, signInProvider |-> None, providerId |-> None, verified |-> FALSE]
\* beforeBody{}; event is what follows the last colon of eventType.
NoBody == [userInfo |-> NoUser, user |-> NoUser, signInMethod |-> None, event |-> None,
           resource |-> None]
BadRegex == "("

Lazy == {"create", "ensure"}  \* handlers that take dependencies
NoDeps == [project |-> None, auth |-> "nil"]
Demo == "demo-project"
Credentials == {"unset", "missing", "file"}

ASSUME BlockingAssumption ==
  /\ None \notin Projects /\ Lower[None] = None
  /\ \A b \in Bodies : DOMAIN b = DOMAIN NoBody

VARIABLES
  env,      \* the environment: credentials and project
  setting,  \* its policy settings
  once,     \* the sync.Once of bootstrap.Deps
  global,   \* the dependencies it made; NoDeps is nil
  deps,     \* deps[h]: the variable that handler h captured
  handler,  \* handler[r]: the handler of request r
  pc,       \* pc[r]: its next step
  got,      \* got[r]: what bootstrap.Deps returned to it
  answer    \* answer[r]: what it was told

vars == <<env, setting, once, global, deps, handler, pc, got, answer>>

-----------------------------------------------------------------------------
\* The first of these values that is not empty.
FirstSet(s) ==
  LET some == {n \in DOMAIN s : s[n] # None}
  IN  IF some = {} THEN None ELSE s[CHOOSE n \in some : \A m \in some : n <= m]

\* config.Load: entries in lower case, but for tenants; patterns that do not
\* compile are left out.  A pattern is the set of addresses it matches.
Lowered(S) == {Lower[s] : s \in S}
Load ==
  [tenants |-> setting.tenants, providers |-> Lowered(setting.providers),
   blocked |-> Lowered(setting.blocked), domains |-> Lowered(setting.domains),
   patterns |-> {p \in DOMAIN setting.patterns : p # BadRegex}]

\* Init: the emulator needs no credentials, and a project has a last resort there.
ClientOptions(configured) ==
  LET named == FirstSet(<<configured, env.gcp, env.gcloud>>) IN
  IF env.emulator
  THEN [auth |-> "none", project |-> IF named = None THEN Demo ELSE named]
  ELSE [auth |-> IF env.credentials = "file" THEN "file" ELSE "default", project |-> named]

\* Deps copies GOOGLE_CLOUD_PROJECT to an empty GCP_PROJECT before Load reads it.
BootstrapDeps == ClientOptions(FirstSet(<<env.gcp, env.gcloud>>))

Init ==
  /\ env \in [emulator : BOOLEAN, credentials : Credentials,
              gcp : Projects \cup {None}, gcloud : Projects \cup {None}]
  /\ setting \in Settings
  /\ once = "new" /\ global = NoDeps
  \* http.go mounts the handlers without dependencies, authgate's main with its own.
  /\ \E d \in {NoDeps, ClientOptions(env.gcp)} : deps = [h \in Lazy |-> d]
  /\ handler = [r \in Requests |-> "create"]
  /\ pc = [r \in Requests |-> "unsent"]
  /\ got = [r \in Requests |-> NoDeps]
  /\ answer = [r \in Requests |-> "none"]

Go(r, there) == pc' = [pc EXCEPT ![r] = there]
Reply(r, what) == Go(r, "done") /\ answer' = [answer EXCEPT ![r] = what]

Arrive(r, h) ==
  /\ pc[r] = "unsent"
  /\ Go(r, IF h \in Lazy THEN "check" ELSE "decode")
  /\ handler' = [handler EXCEPT ![r] = h]
  /\ UNCHANGED <<env, setting, once, global, deps, got, answer>>

-----------------------------------------------------------------------------
input == <<env, setting, handler>>

Check(r) ==
  /\ pc[r] = "check"
  /\ Go(r, IF deps[handler[r]] = NoDeps THEN "once" ELSE "decode")
  /\ UNCHANGED <<input, once, global, deps, got, answer>>

\* once.Do: one request runs the function, the others wait for its end.
EnterRetrying(r) ==  \* mutant: a failed initialisation is tried again
  /\ pc[r] = "once" /\ (once = "new" \/ (once = "done" /\ global = NoDeps))
  /\ once' = "running" /\ Go(r, "init")
  /\ UNCHANGED <<input, global, deps, got, answer>>
Enter(r) ==
  /\ pc[r] = "once" /\ once = "new"
  /\ once' = "running" /\ Go(r, "init")
  /\ UNCHANGED <<input, global, deps, got, answer>>

\* NewApp, Auth and Firestore: any of them may fail, for a reason that lasts or
\* because the request that happens to be the first is called off.
InitEndsLocked(r) ==  \* mutant: a failure leaves the lock held
  /\ pc[r] = "init"
  /\ global' \in {NoDeps, BootstrapDeps}
  /\ once' = IF global' = NoDeps THEN once ELSE "done"
  /\ Go(r, "assign") /\ got' = [got EXCEPT ![r] = global']
  /\ UNCHANGED <<input, deps, answer>>
InitEndsHalf(r) ==  \* mutant: a failure leaves what was made so far
  /\ pc[r] = "init"
  /\ global' \in {[BootstrapDeps EXCEPT !.auth = "nil"], BootstrapDeps}
  /\ once' = "done"
  /\ Go(r, "assign") /\ got' = [got EXCEPT ![r] = global']
  /\ UNCHANGED <<input, deps, answer>>
InitEnds(r) ==
  /\ pc[r] = "init"
  /\ global' \in {NoDeps, BootstrapDeps}
  /\ once' = "done"
  /\ Go(r, "assign") /\ got' = [got EXCEPT ![r] = global']
  /\ UNCHANGED <<input, deps, answer>>

DoneEarly(r) ==  \* mutant: whoever finds it begun goes on
  /\ pc[r] = "once" /\ once # "new"
  /\ Go(r, "assign") /\ got' = [got EXCEPT ![r] = global]
  /\ UNCHANGED <<input, once, global, deps, answer>>
Done(r) ==
  /\ pc[r] = "once" /\ once = "done"
  /\ Go(r, "assign") /\ got' = [got EXCEPT ![r] = global]
  /\ UNCHANGED <<input, once, global, deps, answer>>

\* The shared variable is overwritten before the error is looked at.
Assign(r) ==
  /\ pc[r] = "assign"
  /\ deps' = [deps EXCEPT ![handler[r]] = got[r]]
  /\ got' = [got EXCEPT ![r] = NoDeps]
  /\ IF got[r] = NoDeps THEN Reply(r, "500") ELSE Go(r, "decode") /\ UNCHANGED answer
  /\ UNCHANGED <<input, once, global>>

BadJSON(r) ==
  /\ pc[r] = "decode" /\ handler[r] # "ensure" /\ Reply(r, "400")
  /\ UNCHANGED <<input, once, global, deps, got>>

-----------------------------------------------------------------------------
getUserMap(b) == IF b.userInfo # NoUser THEN b.userInfo ELSE b.user

detectProvider(b, user) ==
  Lower[FirstSet(<<b.signInMethod, user.signInProvider, user.providerId, b.event>>)]

isDisposable(cfg, email) == \E p \in cfg.patterns : email \in setting.patterns[p]

\* The rules for a new user, in order, each with the status that breaking it costs.
Rules(cfg, b, user) ==
  LET provider == detectProvider(b, user)
      email == Lower[user.email]
      Rule(holds, status) == [broken |-> ~holds, status |-> status]
      ForEmail(holds, status) == Rule(provider \in {"password", "emaillink", "email"} => holds, status)
  IN << Rule(cfg.tenants = {} \/ b.resource \in cfg.tenants, "403"),
        Rule(cfg.providers = {} \/ provider = None \/ provider \in cfg.providers, "403"),
        Rule(provider # None, "400"),
        ForEmail(email # None, "400"),
        ForEmail(email \notin cfg.blocked, "403"),
        ForEmail(~isDisposable(cfg, email), "422"),
        ForEmail(cfg.domains = {} \/ Domain[email] \in cfg.domains, "403") >>

\* What a new user is answered; late says that 6.5 seconds have passed.
Decide(cfg, b, user, late) ==
  LET rules == Rules(cfg, b, user)
      broken == {n \in DOMAIN rules : rules[n].broken}
  IN  IF user = NoUser \/ detectProvider(b, user) \in {"anonymous", "phone", "email"} THEN "guest"
      ELSE IF broken # {} THEN rules[CHOOSE n \in broken : \A m \in broken : n <= m].status
      ELSE IF late THEN "503" ELSE "user"

\* The user is looked for in an empty body, not in the one that was sent.
BeforeCreate(r, b) ==
  /\ pc[r] = "decode" /\ handler[r] = "create"
  /\ \E late \in BOOLEAN : Reply(r, Decide(Load, b, getUserMap(NoBody), late))
  /\ UNCHANGED <<input, once, global, deps, got>>

BeforeSignIn(r, b) ==
  /\ pc[r] = "decode" /\ handler[r] = "signIn"
  /\ LET user == getUserMap(NoBody) IN
     Reply(r, IF user # NoUser /\ detectProvider(b, user) = "password" /\ ~user.verified
              THEN "412" ELSE "claims")
  /\ UNCHANGED <<input, once, global, deps, got>>

\* /users/ensure goes on with its clients (see UserAccounts).
Ensure(r) ==
  /\ pc[r] = "decode" /\ handler[r] = "ensure" /\ Reply(r, "ensured")
  /\ UNCHANGED <<input, once, global, deps, got>>

Handle(r) ==
  \/ Check(r) \/ Enter(r) \/ InitEnds(r) \/ Done(r) \/ Assign(r)
  \/ BadJSON(r) \/ Ensure(r)
  \/ \E b \in Bodies : BeforeCreate(r, b) \/ BeforeSignIn(r, b)

Next ==
  \E r \in Requests : Handle(r) \/ \E h \in Lazy \cup {"signIn"} : Arrive(r, h)

Spec == Init /\ [][Next]_vars
FairSpec == Spec /\ \A r \in Requests : WF_vars(Handle(r))

-----------------------------------------------------------------------------
AllDeps == {NoDeps, BootstrapDeps, ClientOptions(env.gcp)}

TypeOK ==
  /\ setting \in Settings
  /\ once \in {"new", "running", "done"}
  /\ global \in AllDeps
  /\ deps \in [Lazy -> AllDeps]
  /\ handler \in [Requests -> Lazy \cup {"signIn"}]
  /\ pc \in [Requests -> {"unsent", "check", "once", "init", "assign", "decode", "done"}]
  /\ got \in [Requests -> AllDeps]
  /\ answer \in [Requests -> {"none", "500", "400", "403", "422", "503", "412",
                              "guest", "user", "claims", "ensured"}]

\* A handler that goes on has dependencies, although another request may write
\* the variable between its test and its use; and both handlers, in either
\* program, work on the project that the environment names.
DepsInUse ==
  \A r \in Requests : pc[r] = "decode" /\ handler[r] \in Lazy =>
    /\ deps[handler[r]] # NoDeps
    /\ deps[handler[r]].project =
         IF env.gcp # None THEN env.gcp ELSE IF env.gcloud # None THEN env.gcloud
         ELSE IF env.emulator THEN Demo ELSE None

\* What the first request met all others meet: once one has been refused for want
\* of dependencies, none of either handler is served by this process any more.
FirstOutcomeLasts ==
  \A r, s \in Requests : answer[r] = "500" =>
    ~(handler[s] \in Lazy /\ (pc[s] = "decode" \/ answer[s] \notin {"none", "500"}))

\* No request waits for another one for ever.
EveryRequestEnds == \A r \in Requests : pc[r] # "unsent" ~> pc[r] = "done"

\* idpblock.go: "Email checks for non-federated": a new user whose request breaks
\* a rule is not let in.
RulesApplied ==
  [][\A r \in Requests, b \in Bodies :
       BeforeCreate(r, b) /\ answer'[r] \in {"guest", "user"} =>
         LET user == getUserMap(b)
             rules == Rules(Load, b, user)
         IN  user # NoUser /\ detectProvider(b, user) = "password" =>
               \A n \in DOMAIN rules : ~rules[n].broken]_vars
=============================================================================
