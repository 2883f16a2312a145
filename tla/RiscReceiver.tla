---------------------------- MODULE RiscReceiver ----------------------------
(***************************************************************************)
(* POST /risc/receiver (voltpay_go/internal/handlers/risc.go and           *)
(* internal/risc/receiver.go): a security event token (SET) is verified,   *)
(* its user is determined, and its events, a Go map visited in any order,  *)
(* are turned into mitigations.  What is set when the process starts       *)
(* decides whose keys and which issuer count (http.go).  The keys come     *)
(* from a KeyProvider, see GoogleJWKS; here it has the right page or not.  *)
(***************************************************************************)
EXTENDS Integers, Sequences, FiniteSets

CONSTANTS
  Users,       \* users a token may speak of
  NoUser,      \* the empty subject
  Types,       \* event types that occur
  MaxEvents    \* bound: events in one token

Disabled == "account-disabled"
Enabled == "account-enabled"
CredentialChange == "account-credential-change-required"
Verification == "verification"

ASSUME RiscAssumption ==
  /\ NoUser \notin Users /\ MaxEvents \in Nat \ {0}
  /\ Disabled \in Types /\ CredentialChange \in Types

\* The body of an event: it names its user in a string ("sub", "email"), in an
\* object {"subject_type", "iss", "sub"} as Google's tokens do, or not at all.
Bodies == [form : {"string", "object", "absent"}, who : Users]
EventMaps == UNION {[D -> Bodies] : D \in {S \in SUBSET Types : Cardinality(S) <= MaxEvents}}

\* A token: who signed it with RS256, under a kid of theirs ("none": garbage,
\* expired, another algorithm, no kid), and its claims.  A subject or an event map
\* of another type counts as empty.
Tokens == [signer : {"google", "test", "none"}, iss : {"google", "test", "other"},
           aud : {{"other"}, {"ours", "other"}}, sub : Users \cup {NoUser}, events : EventMaps]

VARIABLES
  testIssuer,  \* RISC_TEST_ISSUER is set: it decides the verifier at start-up
  page,        \* where the key provider gets its keys
  token,       \* the token being handled
  step,        \* the next step
  uid,         \* the user the handler settled on
  left,        \* the events not yet visited
  acts,        \* calls of the mitigator for this token, oldest first
  status       \* the response

riscVars == <<testIssuer, page, token, step, uid, left, acts, status>>

\* http.go: the test keys are for a process with all four settings; any other one
\* asks Google's discovery document, and takes a fixed page when that fails.
TestSettings == {"RISC_TEST_ISSUER", "RISC_TEST_JWKS", "RISC_RECEIVER_URL", "BASE_URL"}
discoverCAPJWKS == {"discovered", "default"}
PagesLoose(set) ==  \* mutant: the issuer is not asked for
  IF TestSettings \ {"RISC_TEST_ISSUER"} \subseteq set THEN {"test"} ELSE discoverCAPJWKS
Pages(set) == IF TestSettings \subseteq set THEN {"test"} ELSE discoverCAPJWKS

NoToken == [signer |-> "none", iss |-> "other", aud |-> {"other"}, sub |-> NoUser, events |-> <<>>]

RiscInit ==
  /\ \E set \in SUBSET TestSettings :
       testIssuer = ("RISC_TEST_ISSUER" \in set) /\ page \in Pages(set)
  /\ token = NoToken /\ step = "idle" /\ uid = NoUser
  /\ left = {} /\ acts = <<>> /\ status = 0

Receive(t) ==
  /\ step = "idle"
  /\ token' = t /\ step' = "verify"
  /\ UNCHANGED <<testIssuer, page, uid, left, acts, status>>

\* newRISCHandler: the two verifiers are swapped, the one that takes an issuer
\* is used when none is set.  It then expects Google's.  The other one decodes
\* "iss" into its own field, so the library finds no issuer and refuses.
IssuerUnchecked == ~testIssuer  \* mutant: WithIssuer is left out
IssuerAccepted == ~testIssuer /\ token.iss = "google"

Reply(code) == /\ status' = code /\ step' = "answered"
               /\ UNCHANGED <<testIssuer, page, token, uid, left, acts>>

SignedBy == IF page = "test" THEN "test" ELSE "google"
Valid == token.signer = SignedBy /\ IssuerAccepted

\* The body cannot be read, the token is not valid, or its key cannot be had.
RefuseInvalid == step = "verify" /\ Reply(400)

\* audMatches: "aud" is one of our client ids, or a list with one.
audMatches == "ours" \in token.aud
RefuseAudience == step = "verify" /\ Valid /\ ~audMatches /\ Reply(400)

\* findSubjectInEvents: the first event met whose body is decoded and names one;
\* an object under "subject" makes the decoding fail.
SubjectsInEvents ==
  LET named == {e \in DOMAIN token.events : token.events[e].form = "string"}
  IN  IF named = {} THEN {NoUser} ELSE {token.events[e].who : e \in named}

ChooseUser ==
  /\ step = "verify" /\ Valid /\ audMatches
  /\ uid' \in IF token.sub # NoUser THEN {token.sub} ELSE SubjectsInEvents
  /\ left' = DOMAIN token.events
  /\ step' = "events"
  /\ UNCHANGED <<testIssuer, page, token, acts, status>>

Mitigated(e) == e \in {Disabled, CredentialChange}

MarkHighRisk(e) == <<"MarkHighRisk", e, uid>>
KillSessions(e) == <<"KillSessions", e, uid>>

\* One round of the loop.  The mitigator's errors are dropped.
HandleEvent(e) ==
  /\ step = "events" /\ e \in left
  /\ left' = left \ {e}
  /\ acts' = IF Mitigated(e) THEN acts \o <<MarkHighRisk(e), KillSessions(e)>> ELSE acts
  /\ UNCHANGED <<testIssuer, page, token, step, uid, status>>

AcknowledgeOK == step = "events" /\ left = {} /\ Reply(200)  \* mutant: not the 204 Google waits for
AcknowledgeEarly == step = "events" /\ Reply(204)  \* mutant: answers before its work is done
Acknowledge == step = "events" /\ left = {} /\ Reply(204)

RiscNext ==
  \/ \E t \in Tokens : Receive(t)
  \/ RefuseInvalid \/ RefuseAudience \/ ChooseUser
  \/ (\E e \in Types : HandleEvent(e))
  \/ Acknowledge

RiscSpec == RiscInit /\ [][RiscNext]_riscVars
-----------------------------------------------------------------------------
RiscTypeOK ==
  /\ testIssuer \in BOOLEAN /\ page \in discoverCAPJWKS \cup {"test"}
  /\ token \in Tokens \cup {NoToken}
  /\ step \in {"idle", "verify", "events", "answered"}
  /\ uid \in Users \cup {NoUser}
  /\ left \subseteq DOMAIN token.events
  /\ acts \in Seq({"MarkHighRisk", "KillSessions"} \X Types \X (Users \cup {NoUser}))
  /\ status \in {0, 204, 400}

\* A token's mitigations are for those of its events that ask for one, once
\* each, a user's risk marked before its sessions are ended; by the time of the
\* 204 all are done, and a refused token has caused none.
MitigatesWhatWasAsked ==
  /\ \A n, m \in 1 .. Len(acts) : acts[n] = acts[m] => n = m
  /\ \A n \in 1 .. Len(acts) :
       /\ acts[n][2] \in DOMAIN token.events \cap {Disabled, CredentialChange}
       /\ acts[n][1] = "KillSessions" =>
            \E m \in 1 .. n - 1 : acts[m] = <<"MarkHighRisk", acts[n][2], acts[n][3]>>
  /\ status = 204 =>
       \A e \in DOMAIN token.events \cap {Disabled, CredentialChange} :
         \E n \in 1 .. Len(acts) : acts[n][1] = "KillSessions" /\ acts[n][2] = e
  /\ status = 400 => acts = <<>>

\* Whatever is set at start-up, only a token that Google signed and issued, for
\* this audience, reaches the mitigator: the keys of a test server never do.
OnlyVerified ==
  acts # <<>> => token.signer = "google" /\ token.iss = "google" /\ audMatches
=============================================================================
