------------------------------ MODULE DevKeys ------------------------------
(***************************************************************************)
(* The RSA key for testing the RISC receiver (voltpay_go/internal/devkeys, *)
(* cmd/jwksdev, cmd/risclocaltest): a key server and test senders take it  *)
(* from one PEM file, which whoever finds none creates.  Any of them may   *)
(* be stopped and started at any time.  The receiver verifies with what    *)
(* the server publishes.                                                   *)
(***************************************************************************)
EXTENDS Naturals

CONSTANTS
  Server,   \* the key server
  Senders,  \* the test senders
  Keys,     \* bound: keys there can be at a time
  NoKey,    \* no key; also a part of the file that was not written
  Parts     \* writes that pem.Encode makes of one key

ASSUME DevKeysAssumption ==
  Server \notin Senders /\ NoKey \notin Keys /\ Parts \in Nat \ {0}

Procs == Senders \cup {Server}

VARIABLES
  exists,   \* whether there is a file
  file,     \* file[n]: whose n-th part it holds
  pc,       \* pc[p]: what process p is doing
  key,      \* key[p]: priv of LoadOrCreate
  written,  \* written[p]: parts p has written
  trusted,  \* the key under "test1" in the receiver's cache
  verdict,  \* verdict[p]: what the receiver said of the signature of p's token
  raced,    \* two processes were creating the file at a time
  cut       \* a process stopped while it wrote

vars == <<exists, file, pc, key, written, trusted, verdict, raced, cut>>

-----------------------------------------------------------------------------
Blank == [n \in 1 .. Parts |-> NoKey]
Holds(k) == exists /\ \A n \in 1 .. Parts : file[n] = k
Readable == \E k \in Keys : Holds(k)

Init ==
  /\ exists = FALSE /\ file = Blank
  /\ pc = [p \in Procs |-> "off"]
  /\ key = [p \in Procs |-> NoKey]
  /\ written = [p \in Procs |-> 0]
  /\ trusted = NoKey
  /\ verdict = [p \in Senders |-> "none"]
  /\ raced = FALSE /\ cut = FALSE

Go(p, there) == pc' = [pc EXCEPT ![p] = there]

Start(p) ==
  /\ pc[p] = "off" /\ Go(p, "load")
  /\ UNCHANGED <<exists, file, key, written, trusted, verdict, raced, cut>>

\* loadRSAPrivateKey: the whole file belongs to one key.
Load(p, k) ==
  /\ pc[p] = "load" /\ Holds(k)
  /\ key' = [key EXCEPT ![p] = k] /\ Go(p, "up")
  /\ UNCHANGED <<exists, file, written, trusted, verdict, raced, cut>>

\* "invalid PEM", or a key that does not add up: log.Fatal.
LoadFails(p) ==
  /\ pc[p] = "load" /\ exists /\ ~Readable /\ Go(p, "off")
  /\ UNCHANGED <<exists, file, key, written, trusted, verdict, raced, cut>>

\* Only a file that does not exist is made anew.
FindNoneReserving(p) ==  \* mutant: the file is opened before the key is made
  /\ pc[p] = "load" /\ ~exists /\ Go(p, "generate")
  /\ exists' = TRUE
  /\ UNCHANGED <<file, key, written, trusted, verdict, raced, cut>>
FindNoneOrBad(p) ==  \* mutant: any error of the load counts as "not there"
  /\ pc[p] = "load" /\ ~Readable /\ Go(p, "generate")
  /\ raced' = (raced \/ \E q \in Procs : pc[q] \in {"generate", "save"})
  /\ UNCHANGED <<exists, file, key, written, trusted, verdict, cut>>
FindNone(p) ==
  /\ pc[p] = "load" /\ ~exists /\ Go(p, "generate")
  /\ raced' = (raced \/ \E q \in Procs : pc[q] \in {"generate", "save"})
  /\ UNCHANGED <<exists, file, key, written, trusted, verdict, cut>>

InUse == {key[p] : p \in Procs} \cup {file[n] : n \in 1 .. Parts} \cup {trusted}

Generate(p) ==
  /\ pc[p] = "generate" /\ Go(p, "save")
  /\ \E k \in Keys \ InUse : key' = [key EXCEPT ![p] = k]
  /\ UNCHANGED <<exists, file, written, trusted, verdict, raced, cut>>

\* OpenFile creates the file or empties the one that is there by now.
Open(p) ==
  /\ pc[p] = "save" /\ Go(p, "write")
  /\ exists' = TRUE /\ file' = Blank
  /\ written' = [written EXCEPT ![p] = 0]
  /\ UNCHANGED <<key, trusted, verdict, raced, cut>>

\* Each writer writes at its own offset.
WriteOn(p) ==  \* mutant: one part too many
  /\ pc[p] = "write"
  /\ written' = [written EXCEPT ![p] = @ + 1]
  /\ file' = [file EXCEPT ![written'[p]] = key[p]]
  /\ IF written[p] = Parts THEN Go(p, "up") ELSE UNCHANGED pc
  /\ UNCHANGED <<exists, key, trusted, verdict, raced, cut>>
Write(p) ==
  /\ pc[p] = "write"
  /\ written' = [written EXCEPT ![p] = @ + 1]
  /\ file' = [file EXCEPT ![written'[p]] = key[p]]
  /\ IF written'[p] = Parts THEN Go(p, "up") ELSE UNCHANGED pc
  /\ UNCHANGED <<exists, key, trusted, verdict, raced, cut>>

\* The process is interrupted, or a call of its own fails (log.Fatal).
Stop(p) ==
  /\ pc[p] # "off" /\ Go(p, "off")
  /\ key' = [key EXCEPT ![p] = NoKey]
  /\ cut' = (cut \/ pc[p] = "write")
  /\ UNCHANGED <<exists, file, written, trusted, verdict, raced>>

-----------------------------------------------------------------------------
\* The receiver fetches /test/jwks.json: the set the server built when it started.
Refresh ==
  /\ pc[Server] = "up" /\ trusted' = key[Server]
  /\ UNCHANGED <<exists, file, pc, key, written, verdict, raced, cut>>

\* A sender signs its token and posts it.  The key id is "test1" whatever the key,
\* so any cached key is found for it.
Post(p) ==
  /\ pc[p] = "up"
  /\ verdict' = [verdict EXCEPT ![p] =
       IF trusted = NoKey THEN "noKey" ELSE IF trusted = key[p] THEN "fits" ELSE "wrongKey"]
  /\ Go(p, "off") /\ key' = [key EXCEPT ![p] = NoKey]
  /\ UNCHANGED <<exists, file, written, trusted, raced, cut>>

Next ==
  \/ \E p \in Procs :
       \/ Start(p) \/ LoadFails(p) \/ FindNone(p) \/ Generate(p) \/ Open(p) \/ Write(p) \/ Stop(p)
       \/ \E k \in Keys : Load(p, k)
  \/ Refresh
  \/ \E p \in Senders : Post(p)

Spec == Init /\ [][Next]_vars

-----------------------------------------------------------------------------
TypeOK ==
  /\ exists \in BOOLEAN /\ raced \in BOOLEAN /\ cut \in BOOLEAN
  /\ file \in [1 .. Parts -> Keys \cup {NoKey}]
  /\ pc \in [Procs -> {"off", "load", "generate", "save", "write", "up"}]
  /\ key \in [Procs -> Keys \cup {NoKey}]
  /\ written \in [Procs -> 0 .. Parts]
  /\ trusted \in Keys \cup {NoKey}
  /\ verdict \in [Senders -> {"none", "fits", "wrongKey", "noKey"}]

\* risclocaltest/main.go: "Load SAME key as JWKS server".  The receiver takes no
\* sender's key for a wrong one, whatever is stopped, restarted or half written,
\* unless two processes once created the file at the same time.
TokenFitsUnlessRaced ==
  ~raced => \A p \in Senders : verdict[p] # "wrongKey"

\* A process is kept from starting by the file only while another one writes it,
\* or after a writer was stopped half-way, or two created it at the same time.
FailedStartExplained ==
  [][\A p \in Procs : LoadFails(p) => cut \/ raced \/ \E q \in Procs : pc[q] = "write"]_vars
=============================================================================
