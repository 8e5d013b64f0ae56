---------------------------- MODULE Credentials ----------------------------
(***************************************************************************)
(* How a backend token reaches the HTTP backend (src/engine/stack.go,      *)
(* openBackend and withSpecCredentials).                                   *)
(*                                                                         *)
(* Pulumi's constructor reads the token from the credentials file.  An     *)
(* Open or ListStacks whose spec has a token puts it there for the length  *)
(* of the constructor, under a mutex of the process, and puts the file     *)
(* back; one without a token goes straight to the constructor.  The        *)
(* process may die at any point; clients that come later belong to the     *)
(* process started after it.                                               *)
(***************************************************************************)
EXTENDS Naturals

CONSTANTS
    Clients,   \* calls of Open and ListStacks
    URLs,      \* backend URLs
    Tokens,    \* access tokens
    URLOf,     \* the URL of each client's spec
    TokenOf,   \* its Backend.Token, or NoToken
    NoToken,   \* no token
    Missing,   \* the credentials file does not exist
    Empty,     \* it is there and was cut to nothing
    None       \* nobody

ASSUME CredentialsAssumption ==
    /\ URLOf \in [Clients -> URLs]
    /\ NoToken \notin Tokens
    /\ TokenOf \in [Clients -> Tokens \cup {NoToken}]
    /\ None \notin Clients
    /\ Missing # Empty
    /\ {Missing, Empty} \cap [URLs -> Tokens \cup {NoToken}] = {}

Accounts == [URLs -> Tokens \cup {NoToken}]
Files    == Accounts \cup {Missing, Empty}

\* The client has the mutex in every state from "locked" to "unlocking".
Inside   == {"locked", "recorded", "stored", "constructed", "truncated", "unlocking"}
HandOver == {"stored", "constructed", "truncated"}
Ended    == {"opened", "failed", "dead"}
States   == {"new", "open"} \cup Inside \cup Ended

VARIABLES
    login,         \* the file as the user left it
    file,          \* the file now
    credentialsMu, \* the client that holds the mutex
    pc,            \* where each client is
    before,        \* what each client recorded
    ok,            \* whether its steps succeeded so far
    token,         \* the token its backend instance keeps
    damaged        \* history: a restore failed, or the process died in a hand-over

vars == <<login, file, credentialsMu, pc, before, ok, token, damaged>>

Init ==
    /\ login \in Accounts \cup {Missing}
    /\ file = login
    /\ credentialsMu = None
    /\ pc = [c \in Clients |-> "new"]
    /\ before = [c \in Clients |-> Missing]
    /\ ok = [c \in Clients |-> TRUE]
    /\ token = [c \in Clients |-> NoToken]
    /\ damaged = FALSE

Goto(c, state) == pc' = [pc EXCEPT ![c] = state]

\* The error is returned at the end; what comes before it still happens.
Fails(c) == ok' = [ok EXCEPT ![c] = FALSE]

\* The accounts Pulumi reads from a file.
AccountsIn(f) == IF f = Missing THEN [u \in URLs |-> NoToken] ELSE f

-----------------------------------------------------------------------------
(* Faulty variants, one slip each. *)

\* The mutex is forgotten.
LockMissing(c) ==
    /\ pc[c] = "new"
    /\ TokenOf[c] # NoToken
    /\ credentialsMu' = c
    /\ Goto(c, "locked")
    /\ UNCHANGED <<login, file, before, ok, token, damaged>>

\* A file that cannot be read is tried again, for ever.
RecordRetries(c) ==
    /\ pc[c] = "locked"
    /\ \/ /\ before' = [before EXCEPT ![c] = file]
          /\ Goto(c, "recorded")
          /\ UNCHANGED credentialsMu
       \/ /\ credentialsMu' = None
          /\ Goto(c, "new")
          /\ UNCHANGED before
    /\ UNCHANGED <<login, file, ok, token, damaged>>

\* A constructor that fails returns before the restore.
ConstructFailsEarly(c) ==
    /\ pc[c] = "stored"
    /\ \/ /\ file # Empty
          /\ token' = [token EXCEPT ![c] = AccountsIn(file)[URLOf[c]]]
          /\ Goto(c, "constructed")
          /\ UNCHANGED ok
       \/ /\ Fails(c)
          /\ Goto(c, "unlocking")
          /\ UNCHANGED token
    /\ UNCHANGED <<login, file, credentialsMu, before, damaged>>

-----------------------------------------------------------------------------
(* An Open without a token. *)

OpenWithoutToken(c) ==
    /\ pc[c] = "new"
    /\ TokenOf[c] = NoToken
    /\ Goto(c, "open")
    /\ UNCHANGED <<login, file, credentialsMu, before, ok, token, damaged>>

\* httpstate.New reads the file as it finds it; it cannot read an empty one,
\* and may fail for reasons of its own.
ReadStored(c) ==
    /\ pc[c] = "open"
    /\ \/ /\ file # Empty
          /\ token' = [token EXCEPT ![c] = AccountsIn(file)[URLOf[c]]]
          /\ Goto(c, "opened")
          /\ UNCHANGED ok
       \/ /\ Fails(c)
          /\ Goto(c, "failed")
          /\ UNCHANGED token
    /\ UNCHANGED <<login, file, credentialsMu, before, damaged>>

-----------------------------------------------------------------------------
(* An Open with a token: withSpecCredentials, step by step. *)

Lock(c) ==
    /\ pc[c] = "new"
    /\ TokenOf[c] # NoToken
    /\ credentialsMu = None
    /\ credentialsMu' = c
    /\ Goto(c, "locked")
    /\ UNCHANGED <<login, file, before, ok, token, damaged>>

\* os.ReadFile; an error other than "does not exist" is returned.
Record(c) ==
    /\ pc[c] = "locked"
    /\ \/ /\ before' = [before EXCEPT ![c] = file]
          /\ Goto(c, "recorded")
          /\ UNCHANGED ok
       \/ /\ Fails(c)
          /\ Goto(c, "unlocking")
          /\ UNCHANGED before
    /\ UNCHANGED <<login, file, credentialsMu, token, damaged>>

\* workspace.StoreAccount adds the account to the ones in the file and
\* replaces the file in one step.
StoreAccount(c) ==
    /\ pc[c] = "recorded"
    /\ \/ /\ file # Empty
          /\ file' = [AccountsIn(file) EXCEPT ![URLOf[c]] = TokenOf[c]]
          /\ Goto(c, "stored")
          /\ UNCHANGED ok
       \/ /\ Fails(c)
          /\ Goto(c, "unlocking")
          /\ UNCHANGED file
    /\ UNCHANGED <<login, credentialsMu, before, token, damaged>>

\* open(): the error is kept until the file is restored.
Construct(c) ==
    /\ pc[c] = "stored"
    /\ \/ /\ file # Empty
          /\ token' = [token EXCEPT ![c] = AccountsIn(file)[URLOf[c]]]
          /\ UNCHANGED ok
       \/ /\ Fails(c)
          /\ UNCHANGED token
    /\ Goto(c, "constructed")
    /\ UNCHANGED <<login, file, credentialsMu, before, damaged>>

\* The restore fails and the file stays as it is.
RestoreFails(c) ==
    /\ pc[c] \in {"constructed", "truncated"}
    /\ Fails(c)
    /\ damaged' = TRUE
    /\ Goto(c, "unlocking")
    /\ UNCHANGED <<login, file, credentialsMu, before, token>>

\* os.Remove, when there was no file.
RestoreNoFile(c) ==
    /\ pc[c] = "constructed"
    /\ before[c] = Missing
    /\ file' = Missing
    /\ Goto(c, "unlocking")
    /\ UNCHANGED <<login, credentialsMu, before, ok, token, damaged>>

\* os.WriteFile opens the file, which cuts it to nothing, ...
RestoreTruncate(c) ==
    /\ pc[c] = "constructed"
    /\ before[c] # Missing
    /\ file' = Empty
    /\ Goto(c, "truncated")
    /\ UNCHANGED <<login, credentialsMu, before, ok, token, damaged>>

\* ... and writes the recorded content.
RestoreWrite(c) ==
    /\ pc[c] = "truncated"
    /\ file' = before[c]
    /\ Goto(c, "unlocking")
    /\ UNCHANGED <<login, credentialsMu, before, ok, token, damaged>>

\* The deferred unlock, and the return.
Unlock(c) ==
    /\ pc[c] = "unlocking"
    /\ credentialsMu' = None
    /\ Goto(c, IF ok[c] THEN "opened" ELSE "failed")
    /\ before' = [before EXCEPT ![c] = Missing]
    /\ UNCHANGED <<login, file, ok, token, damaged>>

-----------------------------------------------------------------------------
(* The process. *)

\* The process dies: mutex and clients are gone, the file stays.
Crash ==
    /\ \E c \in Clients : pc[c] \in Inside
    /\ damaged' = (damaged \/ \E c \in Clients : pc[c] \in HandOver)
    /\ pc' = [c \in Clients |-> IF pc[c] = "new" THEN "new" ELSE "dead"]
    /\ credentialsMu' = None
    /\ before' = [c \in Clients |-> Missing]
    /\ UNCHANGED <<login, file, ok, token>>

Step(c) ==
    \/ OpenWithoutToken(c) \/ ReadStored(c)
    \/ Lock(c) \/ Record(c) \/ StoreAccount(c) \/ Construct(c)
    \/ RestoreFails(c) \/ RestoreNoFile(c) \/ RestoreTruncate(c) \/ RestoreWrite(c)
    \/ Unlock(c)

Done == (\A c \in Clients : pc[c] \in Ended) /\ UNCHANGED vars

Next == (\E c \in Clients : Step(c)) \/ Crash \/ Done

\* Every client runs in a goroutine of its own.
Fairness == \A c \in Clients : WF_vars(Step(c))

Spec == Init /\ [][Next]_vars /\ Fairness

-----------------------------------------------------------------------------
(* Properties. *)

\* Types; a part of the inductive invariant behind the two below.
TypeOK ==
    /\ login \in Accounts \cup {Missing}
    /\ file \in Files
    /\ credentialsMu \in Clients \cup {None}
    /\ pc \in [Clients -> States]
    /\ before \in [Clients -> Files]
    /\ ok \in [Clients -> BOOLEAN]
    /\ token \in [Clients -> Tokens \cup {NoToken}]
    /\ damaged \in BOOLEAN

\* Concurrent Opens with different tokens for one URL each get their own:
\* the backend of a spec with a token never holds another spec's token or
\* the login's, not even when an earlier process left the file behind
\* (stack.go:187, "each get their own").
OwnToken ==
    \A c \in Clients :
        pc[c] = "opened" /\ TokenOf[c] # NoToken => token[c] = TokenOf[c]

\* The file is the user's own again whenever nobody is inside the
\* constructor, whatever failed on the way, unless the restore itself failed
\* or the process died in it ("restores the file exactly", stack.go:186).
FileRestored ==
    (\A c \in Clients : pc[c] \notin HandOver) /\ ~ damaged => file = login

\* Every Open returns or dies with its process, whichever step fails and
\* however many wait for the mutex (stack.go:198, the deferred unlock).
OpenEnds == \A c \in Clients : <>(pc[c] \in Ended)

=============================================================================
