--------------------------- MODULE PasswordVault ---------------------------
(***************************************************************************)
(* One stored password of the app (lib/core/auth/repository): the payment  *)
(* password of a user (LocalPasswordRepo) or the login secret of an email  *)
(* (LocalLoginRepo), with the hashers behind them (lib/core/auth/service). *)
(* The two repositories run the same steps under different storage keys.   *)
(* Calls overlap: each await lets the others go on.                        *)
(***************************************************************************)
EXTENDS Naturals

CONSTANTS
  Calls,       \* calls that can be open at once
  Hashers,     \* instances of PasswordHasherComposite that can be alive at once
  Passwords,
  Nothing      \* no value under the key, and no password

ASSUME VaultAssumption == Nothing \notin Passwords /\ Hashers # {}

\* What the prefix of a stored hash tells: Argon2id with the parameters of
\* today, or with weaker ones of before, PBKDF2, or something else.
Formats == {"argon2id", "argon2idWeak", "pbkdf2", "unknown"}
Hashes == [format : Formats, of : Passwords \cup {Nothing}]
NoHash == [format |-> "unknown", of |-> Nothing]

VARIABLES
  stored,   \* the value under the key; NoHash if there is none
  broken,   \* broken[h]: _argon2Broken of hasher h
  pc,       \* pc[c]: what call c waits for
  on,       \* on[c]: its repository's hasher
  op,       \* op[c]: setPaymentPassword ("set"), verify or clear
  plain,    \* plain[c]: its argument
  read,     \* read[c]: what a verify has read, or the hash about to be written
  result,   \* result[c]: what it returned or threw
  truth,    \* what the last write of a set or clear left
  overlap   \* that write fell between the read and the end of a verify

vars == <<stored, broken, pc, on, op, plain, read, result, truth, overlap>>
call == <<pc, on, op, plain, read, result>>

-----------------------------------------------------------------------------
Init ==
  /\ stored \in [format : {"argon2idWeak", "pbkdf2"}, of : Passwords] \cup {NoHash}
  /\ broken = [h \in Hashers |-> FALSE]
  /\ pc = [c \in Calls |-> "idle"]
  /\ on = [c \in Calls |-> CHOOSE h \in Hashers : TRUE]
  /\ op = [c \in Calls |-> "none"]
  /\ plain = [c \in Calls |-> Nothing]
  /\ read = [c \in Calls |-> NoHash]
  /\ result = [c \in Calls |-> "none"]
  /\ truth = stored.of
  /\ overlap = FALSE

Go(c, there) == pc' = [pc EXCEPT ![c] = there]
Return(c, r) ==
  /\ Go(c, "idle") /\ result' = [result EXCEPT ![c] = r]

Begin(c, h, o, p, there) ==
  /\ pc[c] = "idle"
  /\ on' = [on EXCEPT ![c] = h]
  /\ Go(c, there)
  /\ op' = [op EXCEPT ![c] = o]
  /\ plain' = [plain EXCEPT ![c] = p]
  /\ read' = [read EXCEPT ![c] = NoHash]
  /\ result' = [result EXCEPT ![c] = "none"]
  /\ UNCHANGED <<stored, broken, truth, overlap>>

\* setPaymentPassword / setForEmail go to the hasher at once.
Set(c, h, p) == Begin(c, h, "set", p, IF broken[h] THEN "pbkdf2" ELSE "argon2")
Verify(c, h, p) == Begin(c, h, "verify", p, "read")
Clear(c, h) == Begin(c, h, "clear", Nothing, "delete")

\* PasswordHasherComposite.verify: which hasher answers, if any; nothing stored
\* ends the call.
Read(c) ==
  /\ pc[c] = "read"
  /\ read' = [read EXCEPT ![c] = stored]
  /\ \/ stored = NoHash /\ Return(c, "false")
     \/ /\ stored # NoHash /\ UNCHANGED result
        /\ Go(c, IF stored.format \in {"argon2id", "argon2idWeak"} /\ ~broken[on[c]] THEN "checkArgon2"
                 ELSE IF stored.format = "pbkdf2" THEN "checkPbkdf2" ELSE "unknownFormat")
  /\ UNCHANGED <<stored, broken, on, op, plain, truth, overlap>>

needsRehashNever(h) == h.format = "unknown"  \* mutant: "eventually" is never
needsRehash(h) == h.format # "argon2id"

\* The hasher has compared.  A right password under an old hash is hashed anew.
CheckedAnyway(c) ==  \* mutant: rehashes whatever was typed
  /\ pc[c] \in {"checkArgon2", "checkPbkdf2", "unknownFormat"}
  /\ IF needsRehash(read[c])
     THEN Go(c, IF broken[on[c]] THEN "pbkdf2" ELSE "argon2") /\ UNCHANGED result
     ELSE Return(c, IF read[c].of = plain[c] THEN "true" ELSE "false")
  /\ UNCHANGED <<stored, broken, on, op, plain, read, truth, overlap>>
Checked(c) ==
  /\ pc[c] \in {"checkArgon2", "checkPbkdf2", "unknownFormat"}
  /\ LET ok == pc[c] # "unknownFormat" /\ read[c].of = plain[c] IN
     IF ok /\ needsRehash(read[c])
     THEN Go(c, IF broken[on[c]] THEN "pbkdf2" ELSE "argon2") /\ UNCHANGED result
     ELSE Return(c, IF ok THEN "true" ELSE "false")
  /\ UNCHANGED <<stored, broken, on, op, plain, read, truth, overlap>>

\* Argon2 throws while it compares: false, and not tried again.
CheckThrowsQuietly(c) ==  \* mutant: the failure is not remembered
  /\ pc[c] = "checkArgon2"
  /\ Return(c, "false")
  /\ UNCHANGED <<stored, broken, on, op, plain, read, truth, overlap>>
CheckThrows(c) ==
  /\ pc[c] = "checkArgon2"
  /\ broken' = [broken EXCEPT ![on[c]] = TRUE]
  /\ Return(c, "false")
  /\ UNCHANGED <<stored, on, op, plain, read, truth, overlap>>

\* PasswordHasherComposite.hash: Argon2, and if it throws PBKDF2.
HashedAsArgon2i(c) ==  \* mutant: the hash of another variant, which no prefix test knows
  /\ pc[c] \in {"argon2", "pbkdf2"}
  /\ read' = [read EXCEPT ![c] = [format |-> "argon2i", of |-> plain[c]]]
  /\ Go(c, "write")
  /\ UNCHANGED <<stored, broken, on, op, plain, result, truth, overlap>>
Hashed(c) ==
  /\ pc[c] \in {"argon2", "pbkdf2"}
  /\ read' = [read EXCEPT ![c] =
                [format |-> IF pc[c] = "argon2" THEN "argon2id" ELSE "pbkdf2", of |-> plain[c]]]
  /\ Go(c, "write")
  /\ UNCHANGED <<stored, broken, on, op, plain, result, truth, overlap>>

HashThrows(c) ==
  /\ pc[c] = "argon2"
  /\ broken' = [broken EXCEPT ![on[c]] = TRUE]
  /\ Go(c, "pbkdf2")
  /\ UNCHANGED <<stored, on, op, plain, read, result, truth, overlap>>

\* A verify that has read and not returned.
Verifying(c) == op[c] = "verify" /\ pc[c] \notin {"idle", "read"}

Write(c) ==
  /\ pc[c] \in {"write", "delete"}
  /\ stored' = IF pc[c] = "write" THEN read[c] ELSE NoHash
  /\ Return(c, IF op[c] = "verify" THEN "true" ELSE "done")
  /\ truth' = IF op[c] = "verify" THEN truth ELSE plain[c]
  /\ overlap' = IF op[c] = "verify" THEN overlap ELSE \E d \in Calls : Verifying(d)
  /\ UNCHANGED <<broken, on, op, plain, read>>

\* The platform's secure storage throws; neither the repository nor its callers
\* catch it.
StorageThrows(c) ==
  /\ pc[c] \in {"read", "write", "delete"}
  /\ Return(c, "error")
  /\ UNCHANGED <<stored, broken, on, op, plain, read, truth, overlap>>

\* The provider of a hasher no call uses is disposed with its last listener; the
\* next listener gets a new one.
NewHasher(h) ==
  /\ \A c \in Calls : on[c] = h => pc[c] = "idle"
  /\ broken' = [broken EXCEPT ![h] = FALSE]
  /\ UNCHANGED <<stored, call, truth, overlap>>

Next ==
  \/ \E c \in Calls :
       \/ \E h \in Hashers : Clear(c, h) \/ \E p \in Passwords : Set(c, h, p) \/ Verify(c, h, p)
       \/ Read(c) \/ Checked(c) \/ CheckThrows(c)
       \/ Hashed(c) \/ HashThrows(c) \/ Write(c) \/ StorageThrows(c)
  \/ \E h \in Hashers : NewHasher(h)

Spec == Init /\ [][Next]_vars

-----------------------------------------------------------------------------
TypeOK ==
  /\ stored \in Hashes
  /\ broken \in [Hashers -> BOOLEAN]
  /\ on \in [Calls -> Hashers]
  /\ pc \in [Calls -> {"idle", "read", "checkArgon2", "checkPbkdf2", "unknownFormat",
                       "argon2", "pbkdf2", "write", "delete"}]
  /\ op \in [Calls -> {"none", "set", "verify", "clear"}]
  /\ plain \in [Calls -> Passwords \cup {Nothing}]
  /\ read \in [Calls -> Hashes]
  /\ result \in [Calls -> {"none", "true", "false", "done", "error"}]
  /\ truth \in Passwords \cup {Nothing}
  /\ overlap \in BOOLEAN

\* Through wrong guesses, migrations, hasher failures and storage errors the
\* vault holds the password that was set or cleared last; only a set or clear
\* that wrote while a verify was under way can be undone.
HoldsLastSet == ~overlap => stored.of = truth

\* A verify that is over answered true only for the password that was stored
\* when it read, and false for that one only if Argon2 had thrown before.
VerdictIsRight ==
  [][\A c \in Calls :
       op[c] = "verify" /\ pc[c] # "idle" /\ pc'[c] = "idle" /\ result'[c] # "error" =>
         /\ result'[c] = "true" => plain[c] = read'[c].of
         /\ result'[c] = "false" /\ plain[c] = read'[c].of => broken'[on[c]]]_vars

\* password_hasher_composite.dart: "prefer Argon2 eventually": the hash that a
\* verify leaves, read or rewritten, when it answers true is one of Argon2id's
\* with the parameters of today, unless Argon2 has failed its hasher.
MigratesForward ==
  [][\A c \in Calls :
       op[c] = "verify" /\ pc[c] # "idle" /\ result'[c] = "true" /\ ~broken[on[c]]
         => read'[c].format = "argon2id"]_vars
=============================================================================
