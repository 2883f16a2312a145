---------------------------- MODULE UserAccounts ----------------------------
(***************************************************************************)
(* How a person gets a Firebase account and the Firestore document         *)
(* users/{uid} that goes with it: AuthService.signIn and its hooks (lib/   *)
(* core/auth), the sign-in page for email links (public/scripts), the      *)
(* rules the client's writes are judged by (firestore.rules) and POST      *)
(* /users/ensure of the backend (voltpay_go).  One person, several devices.*)
(***************************************************************************)
EXTENDS Naturals

CONSTANTS
  Devices,     \* the person's devices
  Requests,    \* requests to /users/ensure; each is used once
  MaxAttempts, \* how often a transaction is run before it gives up
  MaxWrites    \* bound: writes of the document

ASSUME AccountsAssumption == MaxAttempts \in Nat \ {0} /\ MaxWrites \in Nat

VARIABLES
  account,   \* the Firebase account: "none", "verified" or "unverified" (its email)
  session,   \* session[d]: d is signed in
  pc,        \* pc[d]: the next step of d's signIn
  wasNew,    \* wasNew[d]: isNewUser of d's last sign-in
  outcome,   \* outcome[d]: how d's last signIn ended
  queue,     \* devices whose write of a new profile is on its way
  validData, \* the profile's fields are ones the rules accept
  writes,    \* server time: writes of the document so far
  profile,   \* the document: when it was created and last written, 0 for never
  lost,      \* how the first write was lost for good, "no" if it was not
  ensure     \* ensure[r]: a request to the backend

vars == <<account, session, pc, wasNew, outcome, queue, validData, writes, profile, lost, ensure>>
device == <<session, pc, wasNew, outcome>>

-----------------------------------------------------------------------------
NoProfile == [createdAt |-> 0, lastSignedIn |-> 0]
Exists == profile.lastSignedIn # 0
Unsent == [step |-> "unsent", saw |-> 0, attempt |-> 0]

Init ==
  /\ account = "none"
  /\ session = [d \in Devices |-> FALSE]
  /\ pc = [d \in Devices |-> "idle"]
  /\ wasNew = [d \in Devices |-> FALSE]
  /\ outcome = [d \in Devices |-> "none"]
  /\ queue = {}
  /\ validData \in BOOLEAN
  /\ writes = 0
  /\ profile = NoProfile
  /\ lost = "no"
  /\ ensure = [r \in Requests |-> Unsent]

Go(d, there) == pc' = [pc EXCEPT ![d] = there]
End(d, how) == Go(d, "idle") /\ outcome' = [outcome EXCEPT ![d] = how]

\* signIn: the provider hands out a credential, or the user cancels.  The hook's
\* beforeSignIn always allows.
SignIn(d) ==
  /\ pc[d] = "idle"
  /\ \/ Go(d, "firebase") /\ UNCHANGED outcome
     \/ End(d, "threw")
  /\ UNCHANGED <<account, session, wasNew, queue, validData, writes, profile, lost, ensure>>

\* signInWithCredential creates the account if there is none; only then
\* isNewUser sends signIn through beforeCreateUser.
FirebaseQuiet(d) ==  \* mutant: isNewUser is never true
  /\ pc[d] = "firebase"
  /\ session' = [session EXCEPT ![d] = TRUE]
  /\ account' \in IF account = "none" THEN {"verified", "unverified"} ELSE {account}
  /\ End(d, "ok")
  /\ UNCHANGED <<wasNew, queue, validData, writes, profile, lost, ensure>>
Firebase(d) ==
  /\ pc[d] = "firebase"
  /\ session' = [session EXCEPT ![d] = TRUE]
  /\ wasNew' = [wasNew EXCEPT ![d] = account = "none"]
  /\ IF account = "none"
     THEN Go(d, "create") /\ account' \in {"verified", "unverified"} /\ UNCHANGED outcome
     ELSE End(d, "ok") /\ UNCHANGED account
  /\ UNCHANGED <<queue, validData, writes, profile, lost, ensure>>

\* The device never hears how its call went.  The server may have created the
\* account all the same: no sign-in will find it new.
Unheard(why) ==
  \/ UNCHANGED <<account, lost>>
  \/ account = "none" /\ account' \in {"verified", "unverified"} /\ lost' = why

\* signInWithCredential throws: it was refused, or its answer did not come.
FirebaseThrows(d) ==
  /\ pc[d] = "firebase" /\ End(d, "threw")
  /\ Unheard("unanswered")
  /\ UNCHANGED <<session, wasNew, queue, validData, writes, profile, ensure>>

\* upsertNewUser sends the write and waits for the server's word.
UpsertUnawaited(d) ==  \* mutant: the hook does not await
  /\ pc[d] = "create"
  /\ queue' = queue \cup {d}
  /\ End(d, "ok")
  /\ UNCHANGED <<account, session, wasNew, validData, writes, profile, lost, ensure>>
Upsert(d) ==
  /\ pc[d] = "create"
  /\ queue' = queue \cup {d}
  /\ Go(d, "await")
  /\ UNCHANGED <<account, session, wasNew, outcome, validData, writes, profile, lost, ensure>>

\* firestore.rules: a create needs valid fields; an update is judged by the merged
\* document, whose createdAt is not among the fields an update may have.
RulesAllow == validData /\ ~Exists

\* The write reaches the server.  If the device still waits for it, signIn goes on
\* (the hook allows, afterSignIn does nothing) or throws; nothing is rolled back.
Apply(d) ==
  /\ d \in queue /\ writes < MaxWrites
  /\ queue' = queue \ {d}
  /\ IF RulesAllow
     THEN /\ writes' = writes + 1
          /\ profile' = [createdAt |-> writes', lastSignedIn |-> writes']
          /\ UNCHANGED lost
     ELSE /\ lost' = "refused"
          /\ UNCHANGED <<writes, profile>>
  /\ IF pc[d] = "await" THEN End(d, IF RulesAllow THEN "ok" ELSE "threw")
     ELSE UNCHANGED <<pc, outcome>>
  /\ UNCHANGED <<account, session, wasNew, validData, ensure>>

\* The app is killed, perhaps with a call to Firebase under way.  Its session
\* stays, and its queued write may or may not.
Kill(d) ==
  /\ End(d, "killed")
  /\ queue' \in {queue, queue \ {d}}
  /\ IF pc[d] = "firebase" /\ account = "none"
     THEN Unheard("killed")
     ELSE /\ lost' = IF pc[d] = "create" \/ d \in queue \ queue' THEN "killed" ELSE lost
          /\ UNCHANGED account
  /\ UNCHANGED <<session, wasNew, validData, writes, profile, ensure>>

SignOut(d) ==
  /\ pc[d] = "idle" /\ session[d]
  /\ session' = [session EXCEPT ![d] = FALSE]
  /\ UNCHANGED <<account, pc, wasNew, outcome, queue, validData, writes, profile, lost, ensure>>

\* finishSignIn.js: the page an email link opens signs in by itself and runs no
\* hook; a link proves the email.  Its answer may be lost too.
FinishSignIn(d) ==
  /\ pc[d] = "idle"
  /\ session' \in {session, [session EXCEPT ![d] = TRUE]}
  /\ account' = "verified"
  /\ lost' = IF account = "none" THEN "link" ELSE lost
  /\ UNCHANGED <<pc, wasNew, outcome, queue, validData, writes, profile, ensure>>

-----------------------------------------------------------------------------
Step(r, s) == ensure' = [ensure EXCEPT ![r].step = s]
client == <<account, device, queue, validData, lost>>

\* ensureProfile sends the token of the signed-in user.
Send(r, d) ==
  /\ ensure[r].step = "unsent" /\ session[d]
  /\ Step(r, IF account = "verified" THEN "get" ELSE "412")
  /\ UNCHANGED <<client, writes, profile>>

\* GetUser, or the bootstrap before it, fails.
EnsureFails(r) ==
  /\ ensure[r].step = "get" /\ Step(r, "500")
  /\ UNCHANGED <<client, writes, profile>>

\* tx.Get returns an error for a document that does not exist, and so does the
\* transaction.
Get(r) ==
  /\ ensure[r].step = "get"
  /\ ensure' = [ensure EXCEPT ![r] = [step |-> IF Exists THEN "set" ELSE "500",
                                     saw |-> profile.lastSignedIn,
                                     attempt |-> @.attempt + 1]]
  /\ UNCHANGED <<client, writes, profile>>

\* tx.Set merges the fields, createdAt not among them.
SetStamped(r) ==  \* mutant: createdAt is in the base data
  /\ ensure[r].step = "set" /\ ensure[r].saw = profile.lastSignedIn /\ writes < MaxWrites
  /\ writes' = writes + 1
  /\ profile' = [createdAt |-> writes', lastSignedIn |-> writes']
  /\ Step(r, "200")
  /\ UNCHANGED client
SetInMillis(r) ==  \* mutant: the server's time in the wrong unit
  /\ ensure[r].step = "set"
  /\ writes' = writes + 1
  /\ profile' = [profile EXCEPT !.lastSignedIn = writes' * 1000]
  /\ Step(r, "200")
  /\ UNCHANGED client
Set(r) ==
  /\ ensure[r].step = "set" /\ ensure[r].saw = profile.lastSignedIn /\ writes < MaxWrites
  /\ writes' = writes + 1
  /\ profile' = [profile EXCEPT !.lastSignedIn = writes']
  /\ Step(r, "200")
  /\ UNCHANGED client

\* The document changed since it was read: run again, a few times.
Conflict(r) ==
  /\ ensure[r].step = "set" /\ ensure[r].saw # profile.lastSignedIn
  /\ Step(r, IF ensure[r].attempt < MaxAttempts THEN "get" ELSE "500")
  /\ UNCHANGED <<client, writes, profile>>

-----------------------------------------------------------------------------
Next ==
  \/ \E d \in Devices :
       \/ SignIn(d) \/ Firebase(d) \/ FirebaseThrows(d) \/ Upsert(d) \/ Apply(d)
       \/ Kill(d) \/ SignOut(d) \/ FinishSignIn(d)
       \/ \E r \in Requests : Send(r, d)
  \/ \E r \in Requests : EnsureFails(r) \/ Get(r) \/ Set(r) \/ Conflict(r)

Spec == Init /\ [][Next]_vars

-----------------------------------------------------------------------------
TypeOK ==
  /\ account \in {"none", "verified", "unverified"}
  /\ session \in [Devices -> BOOLEAN]
  /\ pc \in [Devices -> {"idle", "firebase", "create", "await"}]
  /\ wasNew \in [Devices -> BOOLEAN]
  /\ outcome \in [Devices -> {"none", "ok", "threw", "killed"}]
  /\ queue \subseteq Devices
  /\ validData \in BOOLEAN
  /\ writes \in 0 .. MaxWrites
  /\ profile \in [createdAt : 0 .. MaxWrites, lastSignedIn : 0 .. MaxWrites]
  /\ lost \in {"no", "link", "unanswered", "killed", "refused"}
  /\ ensure \in [Requests -> [step : {"unsent", "get", "set", "200", "412", "500"},
                              saw : 0 .. MaxWrites, attempt : 0 .. MaxAttempts]]

\* The document is dated by its first write and keeps that date, whichever
\* devices and backend requests write it in whatever order.
DatedOnce ==
  /\ [](Exists => profile.createdAt # 0)
  /\ [][Exists => profile'.createdAt = profile.createdAt]_vars

\* A signIn that returns to a new user has left a profile behind.  An account whose
\* first write is neither to be sent nor on its way has a profile, but for the four
\* ways in which the code loses it, and then has none for good, whatever later
\* sign-ins and backend requests do: the account was made by an email link, or by a
\* call whose answer did not come, the app was killed, or the rules refused the write.
MissingProfileExplained ==
  /\ \A d \in Devices : wasNew[d] /\ outcome[d] = "ok" /\ pc[d] = "idle" => Exists
  /\ account # "none" /\ (\A d \in Devices : pc[d] # "create" /\ d \notin queue)
       => (Exists <=> lost = "no")
=============================================================================
