------------------------ MODULE PasswordVaultProofs ------------------------
(***************************************************************************)
(* Theorems about PasswordVault for any number of calls, hashers and       *)
(* passwords: what is stored, what a verify answers, and which hash it     *)
(* leaves.                                                                 *)
(***************************************************************************)
EXTENDS PasswordVault, TLAPS

Hashing(c) == pc[c] \in {"argon2", "pbkdf2", "write"}
Checking(c) == pc[c] \in {"checkArgon2", "checkPbkdf2", "unknownFormat"}

\* The steps a call can be at are those of its operation, and the hash it is
\* about to write is its own password's.
StepsFitOp ==
  \A c \in Calls :
    /\ pc[c] = "read" \/ Checking(c) => op[c] = "verify"
    /\ Hashing(c) => op[c] \in {"set", "verify"}
    /\ pc[c] = "delete" => op[c] = "clear"
    /\ op[c] \in {"set", "verify"} => plain[c] \in Passwords
    /\ op[c] = "clear" => plain[c] = Nothing
    /\ (op[c] = "verify" /\ Hashing(c)) \/ pc[c] = "write" => read[c].of = plain[c]
    /\ pc[c] # "idle" => result[c] = "none"

\* Only what is not there has a format nobody knows; a verify says so of another
\* hash only while Argon2 is broken, and only then is PBKDF2 written.
FormatsExplained ==
  /\ stored.format = "unknown" => stored = NoHash
  /\ \A c \in Calls :
       /\ pc[c] = "write" => \/ read[c].format = "argon2id"
                             \/ read[c].format = "pbkdf2" /\ broken[on[c]]
       /\ pc[c] = "pbkdf2" => broken[on[c]]
       /\ pc[c] = "unknownFormat" => broken[on[c]]

\* As long as no set or clear overlapped a verify, whoever has read has read
\* what is still true.
ReadsTruth ==
  ~overlap => /\ stored.of = truth
              /\ \A c \in Calls : Verifying(c) => read[c].of = truth

VaultInv == TypeOK /\ StepsFitOp /\ FormatsExplained /\ ReadsTruth

-----------------------------------------------------------------------------
LEMMA TypeInit == Init => TypeOK
<1> SUFFICES ASSUME Init PROVE TypeOK
  OBVIOUS
<1>1. stored \in Hashes /\ NoHash \in Hashes
  BY DEF Init, Hashes, Formats, NoHash
<1>2. (CHOOSE h \in Hashers : TRUE) \in Hashers
  BY VaultAssumption
<1>3. on \in [Calls -> Hashers] /\ broken \in [Hashers -> BOOLEAN]
  BY <1>2 DEF Init
<1>4. truth \in Passwords \cup {Nothing} /\ overlap \in BOOLEAN
  BY <1>1 DEF Init, Hashes
<1> QED BY <1>1, <1>3, <1>4 DEF Init, TypeOK

\* The steps that move call c alone.
Moves(c) ==
  \/ Read(c) \/ Checked(c) \/ CheckThrows(c)
  \/ Hashed(c) \/ HashThrows(c) \/ Write(c) \/ StorageThrows(c)

\* Every step keeps the types.
LEMMA TypeStep == TypeOK /\ [Next]_vars => TypeOK'
<1> SUFFICES ASSUME TypeOK, [Next]_vars PROVE TypeOK'
  OBVIOUS
<1> USE DEF TypeOK, Go, Return
<1>1. ASSUME NEW c \in Calls, NEW h \in Hashers, Clear(c, h) PROVE TypeOK'
  BY <1>1 DEF Clear, Begin, NoHash, Hashes, Formats
<1>2. ASSUME NEW c \in Calls, NEW h \in Hashers, NEW p \in Passwords, Set(c, h, p)
      PROVE  TypeOK'
  BY <1>2 DEF Set, Begin, NoHash, Hashes, Formats
<1>3. ASSUME NEW c \in Calls, NEW h \in Hashers, NEW p \in Passwords, Verify(c, h, p)
      PROVE  TypeOK'
  BY <1>3 DEF Verify, Begin, NoHash, Hashes, Formats
<1>4. ASSUME NEW c \in Calls, Read(c) PROVE TypeOK'
  BY <1>4 DEF Read
<1>5. ASSUME NEW c \in Calls, Checked(c) PROVE TypeOK'
  BY <1>5 DEF Checked
<1>6. ASSUME NEW c \in Calls, CheckThrows(c) PROVE TypeOK'
  BY <1>6 DEF CheckThrows
<1>7. ASSUME NEW c \in Calls, Hashed(c) PROVE TypeOK'
  BY <1>7 DEF Hashed, Hashes, Formats
<1>8. ASSUME NEW c \in Calls, HashThrows(c) PROVE TypeOK'
  BY <1>8 DEF HashThrows
<1>9. ASSUME NEW c \in Calls, Write(c) PROVE TypeOK'
  <2>1. NoHash \in Hashes
    BY DEF NoHash, Hashes, Formats
  <2> QED BY <1>9, <2>1 DEF Write
<1>10. ASSUME NEW c \in Calls, StorageThrows(c) PROVE TypeOK'
  BY <1>10 DEF StorageThrows
<1>11. ASSUME NEW h \in Hashers, NewHasher(h) PROVE TypeOK'
  BY <1>11 DEF NewHasher, call
<1>12. CASE UNCHANGED vars
  BY <1>12 DEF vars
<1> QED
  BY <1>1, <1>2, <1>3, <1>4, <1>5, <1>6, <1>7, <1>8, <1>9, <1>10, <1>11, <1>12 DEF Next

\* The vault's variables keep their types, whatever throws.
THEOREM VaultTypeCorrect == Spec => []TypeOK
<1> QED BY TypeInit, TypeStep, PTL DEF Spec

-----------------------------------------------------------------------------
LEMMA VaultInit == Init => VaultInv
<1> SUFFICES ASSUME Init PROVE VaultInv
  OBVIOUS
<1>1. TypeOK
  BY TypeInit
<1>2. StepsFitOp
  BY DEF Init, StepsFitOp, Checking, Hashing
<1>3. FormatsExplained
  BY DEF Init, FormatsExplained
<1>4. ReadsTruth
  BY DEF Init, ReadsTruth, Verifying
<1> QED BY <1>1, <1>2, <1>3, <1>4 DEF VaultInv

\* Every step leaves a call at a step of its operation, with its own hash.
LEMMA StepsFitOpStep == VaultInv /\ [Next]_vars => StepsFitOp'
<1> SUFFICES ASSUME TypeOK, StepsFitOp, [Next]_vars PROVE StepsFitOp'
  BY DEF VaultInv
<1> USE DEF TypeOK, StepsFitOp, Checking, Hashing, Go, Return
<1>1. ASSUME NEW c \in Calls, NEW h \in Hashers, Clear(c, h) PROVE StepsFitOp'
  BY <1>1 DEF Clear, Begin
<1>2. ASSUME NEW c \in Calls, NEW h \in Hashers, NEW p \in Passwords, Set(c, h, p)
      PROVE  StepsFitOp'
  BY <1>2 DEF Set, Begin
<1>3. ASSUME NEW c \in Calls, NEW h \in Hashers, NEW p \in Passwords, Verify(c, h, p)
      PROVE  StepsFitOp'
  BY <1>3 DEF Verify, Begin
<1>4. ASSUME NEW c \in Calls, Read(c) PROVE StepsFitOp'
  BY <1>4 DEF Read
<1>5. ASSUME NEW c \in Calls, Checked(c) PROVE StepsFitOp'
  BY <1>5 DEF Checked
<1>6. ASSUME NEW c \in Calls, CheckThrows(c) PROVE StepsFitOp'
  BY <1>6 DEF CheckThrows
<1>7. ASSUME NEW c \in Calls, Hashed(c) PROVE StepsFitOp'
  BY <1>7 DEF Hashed
<1>8. ASSUME NEW c \in Calls, HashThrows(c) PROVE StepsFitOp'
  BY <1>8 DEF HashThrows
<1>9. ASSUME NEW c \in Calls, Write(c) PROVE StepsFitOp'
  BY <1>9 DEF Write
<1>10. ASSUME NEW c \in Calls, StorageThrows(c) PROVE StepsFitOp'
  BY <1>10 DEF StorageThrows
<1>11. ASSUME NEW h \in Hashers, NewHasher(h) PROVE StepsFitOp'
  BY <1>11 DEF NewHasher, call
<1>12. CASE UNCHANGED vars
  BY <1>12 DEF vars
<1> QED
  BY <1>1, <1>2, <1>3, <1>4, <1>5, <1>6, <1>7, <1>8, <1>9, <1>10, <1>11, <1>12 DEF Next

\* No step stores an unknown format, or mends a hasher under a call.
LEMMA FormatsStep == VaultInv /\ [Next]_vars => FormatsExplained'
<1> SUFFICES ASSUME TypeOK, FormatsExplained, [Next]_vars PROVE FormatsExplained'
  BY DEF VaultInv
<1> USE DEF TypeOK, FormatsExplained, Go, Return
<1>1. ASSUME NEW c \in Calls, NEW h \in Hashers, Clear(c, h) PROVE FormatsExplained'
  BY <1>1 DEF Clear, Begin
<1>2. ASSUME NEW c \in Calls, NEW h \in Hashers, NEW p \in Passwords, Set(c, h, p)
      PROVE  FormatsExplained'
  BY <1>2 DEF Set, Begin
<1>3. ASSUME NEW c \in Calls, NEW h \in Hashers, NEW p \in Passwords, Verify(c, h, p)
      PROVE  FormatsExplained'
  BY <1>3 DEF Verify, Begin
<1>4. ASSUME NEW c \in Calls, Read(c) PROVE FormatsExplained'
  BY <1>4 DEF Read, Hashes, Formats
<1>5. ASSUME NEW c \in Calls, Checked(c) PROVE FormatsExplained'
  BY <1>5 DEF Checked
<1>6. ASSUME NEW c \in Calls, CheckThrows(c) PROVE FormatsExplained'
  BY <1>6 DEF CheckThrows
<1>7. ASSUME NEW c \in Calls, Hashed(c) PROVE FormatsExplained'
  BY <1>7 DEF Hashed
<1>8. ASSUME NEW c \in Calls, HashThrows(c) PROVE FormatsExplained'
  BY <1>8 DEF HashThrows
<1>9. ASSUME NEW c \in Calls, Write(c) PROVE FormatsExplained'
  BY <1>9 DEF Write
<1>10. ASSUME NEW c \in Calls, StorageThrows(c) PROVE FormatsExplained'
  BY <1>10 DEF StorageThrows
<1>11. ASSUME NEW h \in Hashers, NewHasher(h) PROVE FormatsExplained'
  BY <1>11 DEF NewHasher, call
<1>12. CASE UNCHANGED vars
  BY <1>12 DEF vars
<1> QED
  BY <1>1, <1>2, <1>3, <1>4, <1>5, <1>6, <1>7, <1>8, <1>9, <1>10, <1>11, <1>12 DEF Next

\* A write by a set or clear that leaves no verify under way, and any write by a
\* verify that read the truth, stores the truth.
LEMMA TruthStep == VaultInv /\ [Next]_vars => ReadsTruth'
<1> SUFFICES ASSUME TypeOK, StepsFitOp, ReadsTruth, [Next]_vars PROVE ReadsTruth'
  BY DEF VaultInv
<1> USE DEF TypeOK, ReadsTruth, Verifying, Go, Return
<1>1. ASSUME NEW c \in Calls, NEW h \in Hashers, Clear(c, h) PROVE ReadsTruth'
  BY <1>1 DEF Clear, Begin
<1>2. ASSUME NEW c \in Calls, NEW h \in Hashers, NEW p \in Passwords, Set(c, h, p)
      PROVE  ReadsTruth'
  BY <1>2 DEF Set, Begin
<1>3. ASSUME NEW c \in Calls, NEW h \in Hashers, NEW p \in Passwords, Verify(c, h, p)
      PROVE  ReadsTruth'
  BY <1>3 DEF Verify, Begin
<1>4. ASSUME NEW c \in Calls, Read(c) PROVE ReadsTruth'
  BY <1>4 DEF Read
<1>5. ASSUME NEW c \in Calls, Checked(c) PROVE ReadsTruth'
  BY <1>5 DEF Checked
<1>6. ASSUME NEW c \in Calls, CheckThrows(c) PROVE ReadsTruth'
  BY <1>6 DEF CheckThrows
<1>7. ASSUME NEW c \in Calls, Hashed(c) PROVE ReadsTruth'
  <2>1. op[c] = "verify" => read[c].of = plain[c]
    BY <1>7 DEF Hashed, StepsFitOp, Hashing
  <2> QED BY <1>7, <2>1 DEF Hashed
<1>8. ASSUME NEW c \in Calls, HashThrows(c) PROVE ReadsTruth'
  BY <1>8 DEF HashThrows
<1>9. ASSUME NEW c \in Calls, Write(c) PROVE ReadsTruth'
  <2>1. CASE op[c] = "verify"
    BY <1>9, <2>1 DEF Write, StepsFitOp
  <2>2. CASE op[c] # "verify"
    <3>1. stored'.of = plain[c]
      BY <1>9, <2>2 DEF Write, StepsFitOp, Hashing, NoHash
    <3>2. truth' = plain[c] /\ (~overlap' => \A d \in Calls : ~Verifying(d))
      BY <1>9, <2>2 DEF Write
    <3>3. ~overlap' => \A d \in Calls : ~Verifying(d)'
      BY <1>9, <3>2 DEF Write
    <3> QED BY <3>1, <3>2, <3>3
  <2> QED BY <2>1, <2>2
<1>10. ASSUME NEW c \in Calls, StorageThrows(c) PROVE ReadsTruth'
  BY <1>10 DEF StorageThrows
<1>11. ASSUME NEW h \in Hashers, NewHasher(h) PROVE ReadsTruth'
  BY <1>11 DEF NewHasher, call
<1>12. CASE UNCHANGED vars
  BY <1>12 DEF vars
<1> QED
  BY <1>1, <1>2, <1>3, <1>4, <1>5, <1>6, <1>7, <1>8, <1>9, <1>10, <1>11, <1>12 DEF Next

LEMMA VaultStep == VaultInv /\ [Next]_vars => VaultInv'
BY TypeStep, StepsFitOpStep, FormatsStep, TruthStep DEF VaultInv

\* Only the steps of call c end c, or give it a result.
LEMMA OthersKeepOut ==
  ASSUME NEW c \in Calls, VaultInv, [Next]_vars, pc[c] # "idle", ~Moves(c)
  PROVE  pc'[c] = pc[c] /\ result'[c] = result[c]
<1> USE DEF VaultInv, TypeOK, Go, Return, Moves
<1>1. ASSUME NEW d \in Calls, NEW h \in Hashers, Clear(d, h)
      PROVE  pc'[c] = pc[c] /\ result'[c] = result[c]
  BY <1>1 DEF Clear, Begin
<1>2. ASSUME NEW d \in Calls, NEW h \in Hashers, NEW p \in Passwords, Set(d, h, p) \/ Verify(d, h, p)
      PROVE  pc'[c] = pc[c] /\ result'[c] = result[c]
  BY <1>2 DEF Set, Verify, Begin
<1>3. ASSUME NEW d \in Calls, Moves(d) PROVE pc'[c] = pc[c] /\ result'[c] = result[c]
  <2>1. d # c
    BY <1>3
  <2> QED
    BY <1>3, <2>1 DEF Read, Checked, CheckThrows, Hashed, HashThrows, Write, StorageThrows
<1>4. ASSUME NEW h \in Hashers, NewHasher(h) PROVE pc'[c] = pc[c] /\ result'[c] = result[c]
  BY <1>4 DEF NewHasher, call
<1>5. CASE UNCHANGED vars
  BY <1>5 DEF vars
<1> QED BY <1>1, <1>2, <1>3, <1>4, <1>5 DEF Next

-----------------------------------------------------------------------------
\* However calls overlap and hashers and storage fail, the vault holds the
\* password that was set or cleared last, unless that write fell into a verify.
THEOREM LastSetHeld == Spec => []HoldsLastSet
<1>1. VaultInv => HoldsLastSet
  BY DEF VaultInv, ReadsTruth, HoldsLastSet
<1> QED BY <1>1, VaultInit, VaultStep, PTL DEF Spec

\* A verify answers true only for the password it read, and refuses that one
\* only when Argon2 has failed.
THEOREM VerdictsRight == Spec => VerdictIsRight
<1> DEFINE Right(c) ==
      op[c] = "verify" /\ pc[c] # "idle" /\ pc'[c] = "idle" /\ result'[c] # "error" =>
        /\ result'[c] = "true" => plain[c] = read'[c].of
        /\ result'[c] = "false" /\ plain[c] = read'[c].of => broken'[on[c]]
<1>1. ASSUME VaultInv, [Next]_vars, NEW c \in Calls PROVE Right(c)
  <2> SUFFICES ASSUME op[c] = "verify", pc[c] # "idle", pc'[c] = "idle", result'[c] # "error"
               PROVE  /\ result'[c] = "true" => plain[c] = read'[c].of
                      /\ result'[c] = "false" /\ plain[c] = read'[c].of => broken'[on[c]]
    OBVIOUS
  <2> USE <1>1 DEF VaultInv, TypeOK, Go, Return
  <2>1. Moves(c)
    BY OthersKeepOut
  <2>2. CASE Read(c)
    <3>1. result'[c] = "false" /\ read'[c] = NoHash /\ plain[c] # NoHash.of
      BY <2>2, VaultAssumption DEF Read, StepsFitOp, Checking, NoHash
    <3> QED BY <3>1
  <2>3. CASE Checked(c)
    BY <2>3 DEF Checked, FormatsExplained
  <2>4. CASE CheckThrows(c)
    BY <2>4 DEF CheckThrows
  <2>5. CASE Hashed(c) \/ HashThrows(c) \/ StorageThrows(c)
    BY <2>5 DEF Hashed, HashThrows, StorageThrows
  <2>6. CASE Write(c)
    BY <2>6 DEF Write, StepsFitOp
  <2> QED BY <2>1, <2>2, <2>3, <2>4, <2>5, <2>6 DEF Moves
<1>2. VaultInv /\ [Next]_vars => [\A c \in Calls : Right(c)]_vars
  BY <1>1
<1> QED BY <1>2, VaultInit, VaultStep, PTL DEF Spec, VerdictIsRight

\* The hash a verify leaves when it answers true is today's Argon2id, unless
\* Argon2 has failed its hasher.
THEOREM HashesMigrate == Spec => MigratesForward
<1> DEFINE Forward(c) ==
      op[c] = "verify" /\ pc[c] # "idle" /\ result'[c] = "true" /\ ~broken[on[c]]
        => read'[c].format = "argon2id"
<1>1. ASSUME VaultInv, [Next]_vars, NEW c \in Calls PROVE Forward(c)
  <2> SUFFICES ASSUME op[c] = "verify", pc[c] # "idle", result'[c] = "true", ~broken[on[c]]
               PROVE  read'[c].format = "argon2id"
    OBVIOUS
  <2> USE <1>1 DEF VaultInv, TypeOK, Go, Return
  <2>1. result[c] = "none"
    BY DEF StepsFitOp
  <2>2. Moves(c)
    BY <2>1, OthersKeepOut
  <2>3. ~ (Read(c) \/ CheckThrows(c) \/ Hashed(c) \/ HashThrows(c) \/ StorageThrows(c))
    BY <2>1 DEF Read, CheckThrows, Hashed, HashThrows, StorageThrows
  <2>4. CASE Checked(c)
    BY <2>1, <2>4 DEF Checked, needsRehash
  <2>5. CASE Write(c)
    BY <2>5 DEF Write, FormatsExplained, StepsFitOp
  <2> QED BY <2>2, <2>3, <2>4, <2>5 DEF Moves
<1>2. VaultInv /\ [Next]_vars => [\A c \in Calls : Forward(c)]_vars
  BY <1>1
<1> QED BY <1>2, VaultInit, VaultStep, PTL DEF Spec, MigratesForward
=============================================================================
