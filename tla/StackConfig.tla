---------------------------- MODULE StackConfig ----------------------------
(***************************************************************************)
(* The configuration and the key material of one stack (src/engine/stack.go *)
(* and crypto.go).                                                         *)
(*                                                                         *)
(* Every handle has a copy of Pulumi.<stack>.yaml, which it reads once, in *)
(* Open, and writes as a whole on every change; handles without a project  *)
(* dir have no file.  Key material (a passphrase salt or a KMS data key)   *)
(* is reused from the file or from the checkpoint, or made new.  The       *)
(* handles of the stack agree on its secrets provider.  Pulumi keeps one   *)
(* passphrase manager per salt for the whole process (external).           *)
(***************************************************************************)
EXTENDS StackSpec, Naturals, Sequences

CONSTANTS
    Handles,    \* calls of Open, and the handles they return
    ConfigKeys, \* configuration keys
    Providers,  \* the secrets providers the stack may have
    MaxMade,    \* bound: how much key material is made in a behaviour
    Plain,      \* a plain value
    None        \* no file, no checkpoint state, no manager, unset

ASSUME ConfigAssumption ==
    /\ Providers \subseteq {"passphrase", "service", "b64", "cloud"}
    /\ MaxMade \in Nat
    /\ None \notin Phrases \cup {NoPhrase}

\* Key material is numbered as it is made; 0 is none.
Ids == 0 .. MaxMade

\* A secrets manager, and the key a secret value is encrypted with.
Managers ==
    [type : {"passphrase", "service", "b64", "cloud"}, id : Ids, phrase : Phrases \cup {NoPhrase}]

\* A value is unset, plain, or a secret: the key it is encrypted with.
Configs == [ConfigKeys -> {None, Plain} \cup Managers]

\* workspace.ProjectStack: the salt or the encrypted key, and the config.
ProjectStacks == [id : Ids, config : Configs]

\* What Open keeps of a spec.
OpenSpecs == [provider : Providers, phrase : Phrases \cup {NoPhrase}, dir : BOOLEAN]

Opening == {"get", "create", "load", "secrets", "configure"}

VARIABLES
    provider,   \* the stack's secrets provider
    exists,     \* the backend has the stack
    file,       \* Pulumi.<stack>.yaml
    checkpoint, \* the manager the checkpoint was written with
    made,       \* the passphrase each key material was made with
    cache,      \* Pulumi's manager for each salt: the passphrase it holds
    pc,         \* where each handle is
    spec,       \* its spec
    ps,         \* Stack.projectStack
    sm          \* Stack.sm

vars    == <<provider, exists, file, checkpoint, made, cache, pc, spec, ps, sm>>
backend == <<provider, exists, checkpoint>>

NoSettings == [id |-> 0, config |-> [k \in ConfigKeys |-> None]]

Init ==
    /\ provider \in Providers
    /\ exists = FALSE
    /\ file = None
    /\ checkpoint = None
    /\ made = << >>
    /\ cache = [i \in Ids |-> None]
    /\ pc = [h \in Handles |-> "new"]
    /\ spec = [h \in Handles |-> None]
    /\ ps = [h \in Handles |-> NoSettings]
    /\ sm = [h \in Handles |-> None]

Goto(h, state) == pc' = [pc EXCEPT ![h] = state]

\* VerifyPassphrase: the salt decrypts its check value under this passphrase.
VerifyPassphrase(phrase, salt) == made[salt] = phrase

\* GetPassphraseSecretsManager: the cached manager of the salt, whatever the
\* passphrase, else a new one.
GetPassphraseSecretsManager(phrase, salt) ==
    [type |-> "passphrase", id |-> salt,
     phrase |-> IF cache[salt] = None THEN phrase ELSE cache[salt]]

\* Whether every secret in a config is encrypted with this manager's key.
Decrypts(m, config) == \A k \in ConfigKeys : config[k] \in {None, Plain, m}

-----------------------------------------------------------------------------
(* Faulty variants, one slip each. *)

\* The cached manager is taken without looking at the passphrase.
passphraseManagerCached(h, salt) ==
    /\ sm' = [sm EXCEPT ![h] = GetPassphraseSecretsManager(spec[h].phrase, salt)]
    /\ cache' = [cache EXCEPT ![salt] = sm'[h].phrase]

\* The salt found in the checkpoint does not get into the settings.
KeepSaltForgotten(h, salt) == UNCHANGED ps

\* The manager of the checkpoint is rebuilt without verifying.
OfTypeUnverified(h) == TRUE

-----------------------------------------------------------------------------
(* Open, up to the handle's settings. *)

OpenRefused(h) ==
    /\ pc[h] = "new"
    /\ \E s \in Specs : ~ validate(s)
    /\ Goto(h, "failed")
    /\ UNCHANGED <<backend, file, made, cache, spec, ps, sm>>

Open(h) ==
    /\ pc[h] = "new"
    /\ \E s \in Specs :
        /\ validate(s)
        /\ Accept(s).provider = provider
        /\ spec' = [spec EXCEPT ![h] = Accept(s)]
    /\ Goto(h, "get")
    /\ UNCHANGED <<backend, file, made, cache, ps, sm>>

\* Any call of the backend, the file system or the secrets provider may fail
\* and ends Open there: nothing it did before is undone.
OpenFails(h) ==
    /\ pc[h] \in Opening
    /\ Goto(h, "failed")
    /\ UNCHANGED <<backend, file, made, cache, spec, ps, sm>>

\* A stack that does not exist is only created when the spec says so;
\* otherwise this is StackNotFound, an OpenFails.
GetStack(h) ==
    /\ pc[h] = "get"
    /\ Goto(h, IF exists THEN "load" ELSE "create")
    /\ UNCHANGED <<backend, file, made, cache, spec, ps, sm>>

\* Somebody may have created it since; the backend then refuses.
CreateStack(h) ==
    /\ pc[h] = "create"
    /\ ~ exists
    /\ exists' = TRUE
    /\ Goto(h, "load")
    /\ UNCHANGED <<provider, checkpoint, file, made, cache, spec, ps, sm>>

SettingsIn(f) == IF f = None THEN NoSettings ELSE f

loadProjectStack(h) ==
    /\ pc[h] = "load"
    /\ ps' = [ps EXCEPT ![h] = IF spec[h].dir THEN SettingsIn(file) ELSE NoSettings]
    /\ Goto(h, "secrets")
    /\ UNCHANGED <<backend, file, made, cache, spec, sm>>

-----------------------------------------------------------------------------
(* newSecretsManager, one action for each way to a manager. *)

\* Key material in the file goes before that of the checkpoint, which must be
\* of the stack's provider.
MaterialOf(h) ==
    IF ps[h].id # 0 THEN ps[h].id
    ELSE IF checkpoint # None /\ checkpoint.type = provider THEN checkpoint.id ELSE 0

passphraseManager(h, salt) ==
    /\ VerifyPassphrase(spec[h].phrase, salt)
    /\ sm' = [sm EXCEPT ![h] = GetPassphraseSecretsManager(spec[h].phrase, salt)]
    /\ cache' = [cache EXCEPT ![salt] = sm'[h].phrase]

\* ps.EncryptionSalt = salt
KeepSalt(h, salt) == ps' = [ps EXCEPT ![h].id = salt]

\* An incorrect passphrase is an OpenFails.
ReuseSalt(h) ==
    /\ pc[h] = "secrets"
    /\ provider = "passphrase"
    /\ MaterialOf(h) # 0
    /\ passphraseManager(h, MaterialOf(h))
    /\ KeepSalt(h, MaterialOf(h))
    /\ Goto(h, "configure")
    /\ UNCHANGED <<backend, file, made, spec>>

\* NewPassphraseSecretsManager and GenerateNewDataKey: new key material.
MakeMaterial(h) ==
    /\ Len(made) < MaxMade
    /\ made' = Append(made, spec[h].phrase)
    /\ ps' = [ps EXCEPT ![h].id = Len(made')]
    /\ sm' = [sm EXCEPT ![h] =
                [type |-> provider, id |-> Len(made'), phrase |-> spec[h].phrase]]

NewSalt(h) ==
    /\ pc[h] = "secrets"
    /\ provider = "passphrase"
    /\ MaterialOf(h) = 0
    /\ MakeMaterial(h)
    /\ cache' = [cache EXCEPT ![Len(made')] = spec[h].phrase]
    /\ Goto(h, "configure")
    /\ UNCHANGED <<backend, file, spec>>

\* A data key found in the checkpoint is used and not kept in the settings:
\* newSecretsManager sets ps.SecretsProvider alone.
ReuseDataKey(h) ==
    /\ pc[h] = "secrets"
    /\ provider = "cloud"
    /\ MaterialOf(h) # 0
    /\ sm' = [sm EXCEPT ![h] = [type |-> "cloud", id |-> MaterialOf(h), phrase |-> NoPhrase]]
    /\ Goto(h, "configure")
    /\ UNCHANGED <<backend, file, made, cache, spec, ps>>

NewDataKey(h) ==
    /\ pc[h] = "secrets"
    /\ provider = "cloud"
    /\ MaterialOf(h) = 0
    /\ MakeMaterial(h)
    /\ Goto(h, "configure")
    /\ UNCHANGED <<backend, file, cache, spec>>

\* The service keeps the key itself, and b64 has none.
KeylessManager(h) ==
    /\ pc[h] = "secrets"
    /\ provider \in {"service", "b64"}
    /\ sm' = [sm EXCEPT ![h] = [type |-> provider, id |-> 0, phrase |-> NoPhrase]]
    /\ Goto(h, "configure")
    /\ UNCHANGED <<backend, file, made, cache, spec, ps>>

-----------------------------------------------------------------------------
(* Settings in memory and in the file. *)

\* setConfigLocked: secrets are encrypted with the handle's own manager.
setConfigLocked(h, k, v) ==
    /\ v \in {Plain, sm[h]}
    /\ ps' = [ps EXCEPT ![h].config[k] = v]

saveProjectStack(h) == file' = IF spec[h].dir THEN ps'[h] ELSE file

\* The end of Open: the spec's config, and the first save.
Configure(h) ==
    /\ pc[h] = "configure"
    /\ \/ UNCHANGED ps
       \/ \E k \in ConfigKeys : setConfigLocked(h, k, Plain) \/ setConfigLocked(h, k, sm[h])
    /\ saveProjectStack(h)
    /\ Goto(h, "open")
    /\ UNCHANGED <<backend, made, cache, spec, sm>>

\* A save that fails leaves the change in memory.
SetConfig(h) ==
    /\ pc[h] = "open"
    /\ \E k \in ConfigKeys : setConfigLocked(h, k, Plain) \/ setConfigLocked(h, k, sm[h])
    /\ saveProjectStack(h) \/ UNCHANGED file
    /\ UNCHANGED <<backend, made, cache, pc, spec, sm>>

RemoveConfig(h) ==
    /\ pc[h] = "open"
    /\ \E k \in ConfigKeys : ps' = [ps EXCEPT ![h].config[k] = None]
    /\ saveProjectStack(h) \/ UNCHANGED file
    /\ UNCHANGED <<backend, made, cache, pc, spec, sm>>

-----------------------------------------------------------------------------
(* The checkpoint. *)

\* specSecretsProvider.OfType: the checkpoint's manager, from what the spec
\* provides.
OfType(h) ==
    checkpoint # None /\ checkpoint.type = "passphrase" =>
        /\ hasPassphrase(spec[h])
        /\ VerifyPassphrase(spec[h].phrase, checkpoint.id)

\* An operation that writes the checkpoint: the config must decrypt, the old
\* checkpoint is read with OfType's manager, the new one is written with the
\* handle's, under the backend's lock.
Update(h) ==
    /\ pc[h] = "open"
    /\ exists
    /\ Decrypts(sm[h], ps[h].config)
    /\ OfType(h)
    /\ checkpoint' = sm[h]
    /\ UNCHANGED <<provider, exists, file, made, cache, pc, spec, ps, sm>>

\* What a deployment may have been encrypted with: nothing, a provider without
\* key material, or some material.
Exported ==
    {None} \cup {[type |-> t, id |-> 0, phrase |-> NoPhrase] : t \in {"service", "b64"}} \cup
    {[type |-> IF made[i] = NoPhrase THEN "cloud" ELSE "passphrase", id |-> i,
      phrase |-> made[i]] : i \in DOMAIN made}

\* Stack.Import: the checkpoint becomes that of a deployment which this stack
\* exported before, or another one with material of its own.  Nothing is
\* decrypted, so the handle's passphrase does not matter.
Import(h) ==
    /\ pc[h] = "open"
    /\ exists
    /\ \/ UNCHANGED made
       \/ /\ Len(made) < MaxMade
          /\ \E phrase \in Phrases \cup {NoPhrase} : made' = Append(made, phrase)
    /\ checkpoint' \in Exported'
    /\ UNCHANGED <<provider, exists, file, cache, pc, spec, ps, sm>>

\* Stack.Remove: an error of the file's removal is ignored.
Remove(h) ==
    /\ pc[h] = "open"
    /\ exists
    /\ exists' = FALSE
    /\ checkpoint' = None
    /\ (spec[h].dir /\ file' = None) \/ UNCHANGED file
    /\ UNCHANGED <<provider, made, cache, pc, spec, ps, sm>>

Next ==
    \E h \in Handles :
        \/ OpenRefused(h) \/ Open(h) \/ OpenFails(h)
        \/ GetStack(h) \/ CreateStack(h) \/ loadProjectStack(h)
        \/ ReuseSalt(h) \/ NewSalt(h) \/ ReuseDataKey(h) \/ NewDataKey(h) \/ KeylessManager(h)
        \/ Configure(h) \/ SetConfig(h) \/ RemoveConfig(h)
        \/ Update(h) \/ Import(h) \/ Remove(h)

Spec == Init /\ [][Next]_vars

-----------------------------------------------------------------------------
(* Properties. *)

TypeOK ==
    /\ provider \in Providers
    /\ exists \in BOOLEAN
    /\ file \in ProjectStacks \cup {None}
    /\ checkpoint \in Managers \cup {None}
    /\ made \in Seq(Phrases \cup {NoPhrase}) /\ Len(made) <= MaxMade
    /\ cache \in [Ids -> Phrases \cup {NoPhrase, None}]
    /\ pc \in [Handles -> {"new", "open", "failed"} \cup Opening]
    /\ spec \in [Handles -> OpenSpecs \cup {None}]
    /\ ps \in [Handles -> ProjectStacks]
    /\ sm \in [Handles -> Managers \cup {None}]

\* Nobody gets a handle with a wrong passphrase, whoever opened the stack
\* before and whatever manager Pulumi has cached for its salt
\* (crypto.go:83, passphraseManager).
RightPassphrase ==
    \A h \in Handles : pc[h] = "open" /\ provider = "passphrase" =>
        sm[h].phrase = spec[h].phrase /\ made[sm[h].id] = spec[h].phrase

\* Every open handle can decrypt every secret of its config, its own and the
\* ones it loaded, whatever other handles wrote in between: material and
\* config are saved together and never mixed (crypto.go:111,
\* newSecretsManager; stack.go:276, saveProjectStack).
ReadsItsConfig == \A h \in Handles : pc[h] = "open" => Decrypts(sm[h], ps[h].config)

\* ReadsItsConfig for the providers other than a cloud KMS.
SecretsReadable == provider # "cloud" => ReadsItsConfig

\* No update writes a checkpoint under another passphrase than the one it
\* found it with, also when racing first Opens left the stack with two salts or
\* Import brought the checkpoint of another stack (crypto.go:50, OfType).
CheckpointKeepsPassphrase ==
    [][\A h \in Handles : Update(h) /\ checkpoint # None /\ checkpoint.type = "passphrase"
        => checkpoint'.phrase = checkpoint.phrase]_vars

\* What crypto.go:111-114 says: the data key is reused from the file or the
\* checkpoint, so a stack keeps one encryption context.  Does not hold for a
\* cloud KMS, where the key found in the checkpoint is not saved.
KeepsEncryptionContext == provider = "cloud" => ReadsItsConfig

=============================================================================
