------------------------- MODULE CredentialsProofs -------------------------
(***************************************************************************)
(* Proofs about Credentials, for any number of clients, URLs and tokens.   *)
(***************************************************************************)
EXTENDS Credentials, TLAPS

USE DEF Goto, Fails

\* The accounts read from a file that is not cut to nothing are accounts.
LEMMA AccountsInType ==
    ASSUME NEW f \in Files, f # Empty
    PROVE  AccountsIn(f) \in Accounts
BY DEF AccountsIn, Files, Accounts

\* The variables keep their types.
LEMMA TypeStep == TypeOK /\ [Next]_vars => TypeOK'
<1> SUFFICES ASSUME TypeOK, [Next]_vars
             PROVE  TypeOK'
  OBVIOUS
<1> USE CredentialsAssumption DEF TypeOK, States, Inside, Ended
<1>1. ASSUME NEW c \in Clients, OpenWithoutToken(c) \/ Lock(c) \/ Unlock(c)
      PROVE  TypeOK'
  <2>1. pc' \in [Clients -> States]
    BY <1>1 DEF OpenWithoutToken, Lock, Unlock
  <2>2. before' \in [Clients -> Files]
    BY <1>1 DEF OpenWithoutToken, Lock, Unlock, Files
  <2>3. credentialsMu' \in Clients \cup {None}
    BY <1>1 DEF OpenWithoutToken, Lock, Unlock
  <2> QED
    BY <1>1, <2>1, <2>2, <2>3 DEF OpenWithoutToken, Lock, Unlock
<1>2. ASSUME NEW c \in Clients, ReadStored(c) \/ Construct(c)
      PROVE  TypeOK'
  <2>1. pc' \in [Clients -> States] /\ ok' \in [Clients -> BOOLEAN]
    BY <1>2 DEF ReadStored, Construct
  <2>2. file # Empty => AccountsIn(file)[URLOf[c]] \in Tokens \cup {NoToken}
    BY AccountsInType DEF Accounts
  <2>3. token' \in [Clients -> Tokens \cup {NoToken}]
    BY <1>2, <2>2 DEF ReadStored, Construct
  <2> QED
    BY <1>2, <2>1, <2>3 DEF ReadStored, Construct
<1>3. ASSUME NEW c \in Clients, Record(c)
      PROVE  TypeOK'
  <2>1. pc' \in [Clients -> States] /\ ok' \in [Clients -> BOOLEAN]
    BY <1>3 DEF Record
  <2>2. before' \in [Clients -> Files]
    BY <1>3 DEF Record
  <2> QED
    BY <1>3, <2>1, <2>2 DEF Record
<1>4. ASSUME NEW c \in Clients, StoreAccount(c)
      PROVE  TypeOK'
  <2>1. pc' \in [Clients -> States] /\ ok' \in [Clients -> BOOLEAN]
    BY <1>4 DEF StoreAccount
  <2>2. file # Empty => [AccountsIn(file) EXCEPT ![URLOf[c]] = TokenOf[c]] \in Accounts
    BY AccountsInType DEF Accounts
  <2>3. file' \in Files
    BY <1>4, <2>2 DEF StoreAccount, Files
  <2> QED
    BY <1>4, <2>1, <2>3 DEF StoreAccount
<1>5. ASSUME NEW c \in Clients,
             RestoreFails(c) \/ RestoreNoFile(c) \/ RestoreTruncate(c) \/ RestoreWrite(c)
      PROVE  TypeOK'
  <2>1. pc' \in [Clients -> States] /\ ok' \in [Clients -> BOOLEAN] /\ damaged' \in BOOLEAN
    BY <1>5 DEF RestoreFails, RestoreNoFile, RestoreTruncate, RestoreWrite
  <2>2. file' \in Files
    BY <1>5 DEF RestoreFails, RestoreNoFile, RestoreTruncate, RestoreWrite, Files
  <2> QED
    BY <1>5, <2>1, <2>2 DEF RestoreFails, RestoreNoFile, RestoreTruncate, RestoreWrite
<1>6. CASE Crash
  <2>1. pc' \in [Clients -> States] /\ before' \in [Clients -> Files]
    BY <1>6 DEF Crash, Files
  <2>2. damaged' \in BOOLEAN
    BY <1>6 DEF Crash
  <2> QED
    BY <1>6, <2>1, <2>2 DEF Crash
<1>7. CASE UNCHANGED vars
  BY <1>7 DEF vars
<1> QED
  BY <1>1, <1>2, <1>3, <1>4, <1>5, <1>6, <1>7 DEF Next, Step, Done

\* The types of the hand-over of a token.
THEOREM TypeCorrect == Spec => []TypeOK
<1>1. Init => TypeOK
  BY DEF Init, TypeOK, Files, States
<1> QED
  BY <1>1, TypeStep, PTL DEF Spec

-----------------------------------------------------------------------------
(***************************************************************************)
(* The hand-over.  The mutex is held by exactly the client that is inside, *)
(* which is one with a token; only it writes the file.  So what it stored  *)
(* is what its constructor reads, and, as long as no restore has failed    *)
(* and no process has died with a token in the file, what it recorded is   *)
(* what the user left.                                                     *)
(***************************************************************************)
MutexInv ==
    \A c \in Clients :
        /\ pc[c] \in Inside <=> credentialsMu = c
        /\ pc[c] \in Inside => TokenOf[c] # NoToken
        /\ pc[c] = "open" => TokenOf[c] = NoToken

TokenInv ==
    \A c \in Clients :
        /\ pc[c] = "stored" => file \in Accounts /\ file[URLOf[c]] = TokenOf[c]
        /\ pc[c] \in {"constructed", "truncated", "unlocking"} /\ ok[c] => token[c] = TokenOf[c]
        /\ pc[c] = "opened" /\ TokenOf[c] # NoToken => token[c] = TokenOf[c]

FileInv ==
    ~ damaged =>
        /\ \A c \in Clients : pc[c] \in HandOver \cup {"recorded"} => before[c] = login
        /\ (\A c \in Clients : pc[c] \notin HandOver) => file = login

HandOverInv == MutexInv /\ TokenInv /\ FileInv

\* Two clients are never inside together.
LEMMA OneInside ==
    ASSUME MutexInv, NEW c \in Clients, NEW d \in Clients, pc[c] \in Inside, pc[d] \in Inside
    PROVE  c = d
BY DEF MutexInv

\* One step of a client keeps the mutex with the one that is inside.
LEMMA MutexStep == TypeOK /\ MutexInv /\ [Next]_vars => MutexInv'
<1> SUFFICES ASSUME TypeOK, MutexInv, [Next]_vars
             PROVE  MutexInv'
  OBVIOUS
<1> USE CredentialsAssumption DEF TypeOK, MutexInv, Inside
<1>1. ASSUME NEW c \in Clients, OpenWithoutToken(c) \/ ReadStored(c)
      PROVE  MutexInv'
  BY <1>1 DEF OpenWithoutToken, ReadStored
<1>2. ASSUME NEW c \in Clients, Lock(c)
      PROVE  MutexInv'
  BY <1>2 DEF Lock
<1>3. ASSUME NEW c \in Clients, Record(c) \/ StoreAccount(c) \/ Construct(c)
      PROVE  MutexInv'
  BY <1>3 DEF Record, StoreAccount, Construct
<1>4. ASSUME NEW c \in Clients,
             RestoreFails(c) \/ RestoreNoFile(c) \/ RestoreTruncate(c) \/ RestoreWrite(c)
      PROVE  MutexInv'
  BY <1>4 DEF RestoreFails, RestoreNoFile, RestoreTruncate, RestoreWrite
<1>5. ASSUME NEW c \in Clients, Unlock(c)
      PROVE  MutexInv'
  BY <1>5 DEF Unlock
<1>6. CASE Crash
  BY <1>6 DEF Crash
<1>7. CASE UNCHANGED vars
  BY <1>7 DEF vars
<1> QED
  BY <1>1, <1>2, <1>3, <1>4, <1>5, <1>6, <1>7 DEF Next, Step, Done

\* What a client stored stays in the file until its constructor has read it,
\* and what the constructor read is what the instance keeps.
LEMMA TokenStep == TypeOK /\ MutexInv /\ TokenInv /\ [Next]_vars => TokenInv'
<1> SUFFICES ASSUME TypeOK, MutexInv, TokenInv, [Next]_vars
             PROVE  TokenInv'
  OBVIOUS
<1> USE CredentialsAssumption DEF TypeOK, TokenInv
<1>0. \A c, d \in Clients : pc[c] \in Inside /\ pc[d] \in Inside => c = d
  BY OneInside
<1>1. ASSUME NEW c \in Clients, OpenWithoutToken(c) \/ Lock(c)
      PROVE  TokenInv'
  BY <1>1 DEF OpenWithoutToken, Lock
<1>2. ASSUME NEW c \in Clients, ReadStored(c)
      PROVE  TokenInv'
  BY <1>2 DEF ReadStored, MutexInv
<1>3. ASSUME NEW c \in Clients, Record(c)
      PROVE  TokenInv'
  BY <1>3 DEF Record
<1>4. ASSUME NEW c \in Clients, StoreAccount(c)
      PROVE  TokenInv'
  <2>1. \A d \in Clients : pc[d] = "stored" => d = c
    BY <1>0, <1>4 DEF StoreAccount, Inside
  <2>2. file # Empty =>
          LET f == [AccountsIn(file) EXCEPT ![URLOf[c]] = TokenOf[c]]
          IN  f \in Accounts /\ f[URLOf[c]] = TokenOf[c]
    BY AccountsInType DEF Accounts
  <2>3. UNCHANGED token /\ \A d \in Clients : d # c => pc'[d] = pc[d] /\ ok'[d] = ok[d]
    BY <1>4 DEF StoreAccount
  <2>4. pc'[c] \in {"stored", "unlocking"} /\ (pc'[c] = "unlocking" => ~ok'[c])
    BY <1>4 DEF StoreAccount
  <2>5. pc'[c] = "stored" => file' \in Accounts /\ file'[URLOf[c]] = TokenOf[c]
    BY <1>4, <2>2 DEF StoreAccount
  <2>6. \A d \in Clients : d # c => pc'[d] # "stored"
    BY <2>1, <2>3
  <2> QED
    BY <2>3, <2>4, <2>5, <2>6
<1>5. ASSUME NEW c \in Clients, Construct(c)
      PROVE  TokenInv'
  <2>1. AccountsIn(file)[URLOf[c]] = TokenOf[c]
    BY <1>5 DEF Construct, AccountsIn, Accounts
  <2> QED
    BY <1>5, <2>1 DEF Construct
<1>6. ASSUME NEW c \in Clients,
             RestoreFails(c) \/ RestoreNoFile(c) \/ RestoreTruncate(c) \/ RestoreWrite(c)
      PROVE  TokenInv'
  <2>1. \A d \in Clients : pc[d] = "stored" => d = c
    BY <1>0, <1>6 DEF RestoreFails, RestoreNoFile, RestoreTruncate, RestoreWrite, Inside
  <2> QED
    BY <1>6, <2>1 DEF RestoreFails, RestoreNoFile, RestoreTruncate, RestoreWrite
<1>7. ASSUME NEW c \in Clients, Unlock(c)
      PROVE  TokenInv'
  BY <1>7 DEF Unlock
<1>8. CASE Crash
  BY <1>8 DEF Crash
<1>9. CASE UNCHANGED vars
  BY <1>9 DEF vars
<1> QED
  BY <1>1, <1>2, <1>3, <1>4, <1>5, <1>6, <1>7, <1>8, <1>9 DEF Next, Step, Done

\* What a client recorded is the user's file, and it is what it puts back.
LEMMA FileStep == TypeOK /\ MutexInv /\ FileInv /\ [Next]_vars => FileInv'
<1> SUFFICES ASSUME TypeOK, MutexInv, FileInv, [Next]_vars, ~ damaged'
             PROVE  /\ \A c \in Clients : pc'[c] \in HandOver \cup {"recorded"} => before'[c] = login'
                    /\ (\A c \in Clients : pc'[c] \notin HandOver) => file' = login'
  BY DEF FileInv
<1> USE DEF TypeOK, HandOver
<1>0. \A c, d \in Clients : pc[c] \in Inside /\ pc[d] \in Inside => c = d
  BY OneInside
<1>a. ~ damaged
  BY DEF Next, Step, Done, vars, OpenWithoutToken, ReadStored, Lock, Record, StoreAccount, Construct,
         RestoreFails, RestoreNoFile, RestoreTruncate, RestoreWrite, Unlock, Crash
<1>1. ASSUME NEW c \in Clients, OpenWithoutToken(c) \/ ReadStored(c) \/ Lock(c)
      PROVE  FileInv'
  BY <1>1, <1>a DEF OpenWithoutToken, ReadStored, Lock, FileInv
<1>2. ASSUME NEW c \in Clients, Record(c)
      PROVE  FileInv'
  <2>1. \A d \in Clients : pc[d] \notin HandOver
    BY <1>0, <1>2 DEF Record, Inside
  <2>2. file = login
    BY <1>a, <2>1 DEF FileInv
  <2> QED
    BY <1>2, <1>a, <2>2 DEF Record, FileInv
<1>3. ASSUME NEW c \in Clients, StoreAccount(c)
      PROVE  FileInv'
  <2>1. \A d \in Clients : pc[d] \notin HandOver
    BY <1>0, <1>3 DEF StoreAccount, Inside
  <2> QED
    BY <1>3, <1>a, <2>1 DEF StoreAccount, FileInv
<1>4. ASSUME NEW c \in Clients, Construct(c)
      PROVE  FileInv'
  BY <1>4, <1>a DEF Construct, FileInv
<1>5. ASSUME NEW c \in Clients, RestoreFails(c) \/ RestoreNoFile(c) \/ RestoreTruncate(c) \/ RestoreWrite(c)
      PROVE  FileInv'
  BY <1>5, <1>a DEF RestoreFails, RestoreNoFile, RestoreTruncate, RestoreWrite, FileInv
<1>6. ASSUME NEW c \in Clients, Unlock(c)
      PROVE  FileInv'
  <2>1. pc[c] = "unlocking" /\ \A d \in Clients : pc[d] \notin HandOver \cup {"recorded"}
    BY <1>0, <1>6 DEF Unlock, Inside
  <2> QED
    BY <1>6, <1>a, <2>1 DEF Unlock, FileInv
<1>7. CASE Crash
  BY <1>7, <1>a DEF Crash, FileInv
<1>8. CASE UNCHANGED vars
  BY <1>8, <1>a DEF vars, FileInv
<1> QED
  BY <1>1, <1>2, <1>3, <1>4, <1>5, <1>6, <1>7, <1>8 DEF Next, Step, Done, FileInv

\* The hand-over as a whole is an invariant.
LEMMA HandOverInvariant == Spec => []HandOverInv
<1>1. Init => HandOverInv
  BY CredentialsAssumption DEF Init, HandOverInv, MutexInv, TokenInv, FileInv, Inside, HandOver
<1>2. TypeOK /\ HandOverInv /\ [Next]_vars => HandOverInv'
  BY MutexStep, TokenStep, FileStep DEF HandOverInv
<1> QED
  BY <1>1, <1>2, TypeCorrect, PTL DEF Spec

\* However many Opens with tokens meet, for one URL or for several, whatever
\* fails and wherever a process died before: the backend of a spec with a
\* token holds that token (stack.go, withSpecCredentials).
THEOREM EachGetsItsOwn == Spec => []OwnToken
<1>1. HandOverInv => OwnToken
  BY DEF HandOverInv, TokenInv, OwnToken
<1> QED
  BY <1>1, HandOverInvariant, PTL

\* Outside a hand-over the file is what the user left, unless a restore
\* failed or a process died in one (stack.go, withSpecCredentials).
THEOREM FileIsRestored == Spec => []FileRestored
<1>1. HandOverInv => FileRestored
  BY DEF HandOverInv, FileInv, FileRestored
<1> QED
  BY <1>1, HandOverInvariant, PTL

=============================================================================
