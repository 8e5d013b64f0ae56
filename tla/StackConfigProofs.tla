------------------------- MODULE StackConfigProofs -------------------------
(***************************************************************************)
(* Proofs about StackConfig, for any number of handles, keys, passphrases  *)
(* and specs.                                                              *)
(***************************************************************************)
EXTENDS StackConfig, TLAPS

USE DEF Goto

Acting == Opening \cup {"open"}
Ready  == {"configure", "open"}

\* What validate lets through has a passphrase exactly when the stack's
\* provider takes one.
LEMMA AcceptedSpec ==
    ASSUME NEW s \in Specs, validate(s), NEW p \in Providers, Accept(s).provider = p
    PROVE  /\ Accept(s) \in OpenSpecs
           /\ p = "passphrase" => Accept(s).phrase \in Phrases
           /\ p # "passphrase" => Accept(s).phrase = NoPhrase
<1>1. s \in RawSpecs
  BY SpecAssumption
<1>2. WithDefaults(s).phrase = s.phrase /\ WithDefaults(s).url = s.url
  BY <1>1 DEF WithDefaults, RawSpecs
<1>3. /\ Accept(s).phrase = s.phrase
      /\ WithDefaults(s).provider = p
      /\ Accept(s) \in OpenSpecs
  BY <1>1 DEF Accept, OpenSpecs, RawSpecs
<1> QED
  BY <1>1, <1>2, <1>3 DEF validate, ValidSecrets, hasPassphrase, RawSpecs

\* The material of a handle is a number of some material, or 0.
LEMMA MaterialType ==
    ASSUME TypeOK, NEW h \in Handles
    PROVE  MaterialOf(h) \in Ids
BY ConfigAssumption DEF TypeOK, MaterialOf, ProjectStacks, Managers, Ids

LEMMA ManagerType ==
    ASSUME NEW t \in {"passphrase", "service", "b64", "cloud"}, NEW i \in Ids,
           NEW p \in Phrases \cup {NoPhrase}
    PROVE  [type |-> t, id |-> i, phrase |-> p] \in Managers
BY DEF Managers

\* What Import brings is nothing or a manager, and one that is of the stack's
\* provider goes with its material.
LEMMA ImportedManager ==
    ASSUME made' \in Seq(Phrases \cup {NoPhrase}), Len(made') <= MaxMade, MaxMade \in Nat,
           NEW m \in Exported', m # None
    PROVE  /\ m \in Managers
           /\ m.type \in {"service", "b64"} => m.id = 0 /\ m.phrase = NoPhrase
           /\ m.type \notin {"service", "b64"} => m.id \in 1..Len(made') /\ m.phrase = made'[m.id]
           /\ m.type = "passphrase" <=> m.phrase # NoPhrase
<1>1. CASE \E t \in {"service", "b64"} : m = [type |-> t, id |-> 0, phrase |-> NoPhrase]
  BY <1>1 DEF Managers, Ids
<1>2. ASSUME NEW i \in 1..Len(made'),
             m = [type |-> IF made'[i] = NoPhrase THEN "cloud" ELSE "passphrase", id |-> i,
                  phrase |-> made'[i]]
      PROVE  /\ m \in Managers
             /\ m.type \in {"cloud", "passphrase"}
             /\ m.type = "passphrase" <=> m.phrase # NoPhrase
             /\ m.id = i /\ m.phrase = made'[i]
  <2>1. i \in Ids /\ made'[i] \in Phrases \cup {NoPhrase}
    BY DEF Ids
  <2> QED
    BY <1>2, <2>1 DEF Managers
<1>3. \/ \E t \in {"service", "b64"} : m = [type |-> t, id |-> 0, phrase |-> NoPhrase]
      \/ \E i \in 1..Len(made') :
            m = [type |-> IF made'[i] = NoPhrase THEN "cloud" ELSE "passphrase", id |-> i,
                 phrase |-> made'[i]]
  BY DEF Exported
<1> QED
  BY <1>1, <1>2, <1>3

\* Import leaves the material or makes more of it.
LEMMA ImportMade ==
    ASSUME TypeOK, NEW h \in Handles, Import(h)
    PROVE  /\ made' \in Seq(Phrases \cup {NoPhrase})
           /\ Len(made') <= MaxMade /\ Len(made') \in Nat
<1> USE ConfigAssumption DEF TypeOK
<1>1. CASE UNCHANGED made
  BY <1>1
<1>2. ASSUME NEW phrase \in Phrases \cup {NoPhrase}, made' = Append(made, phrase),
             Len(made) < MaxMade
      PROVE  /\ made' \in Seq(Phrases \cup {NoPhrase})
             /\ Len(made') <= MaxMade /\ Len(made') \in Nat
  <2>1. made' \in Seq(Phrases \cup {NoPhrase}) /\ Len(made') = Len(made) + 1
    BY <1>2
  <2> QED
    BY <1>2, <2>1
<1> QED
  BY <1>1, <1>2 DEF Import

\* The settings with one value set are settings.
LEMMA SettingsType ==
    ASSUME NEW s \in ProjectStacks, NEW k \in ConfigKeys, NEW v \in {None, Plain} \cup Managers
    PROVE  [s EXCEPT !.config[k] = v] \in ProjectStacks
BY DEF ProjectStacks, Configs

(***************************************************************************)
(* Types.  What Open keeps of the spec is part of the invariant, since the *)
(* managers are made from it.                                              *)
(***************************************************************************)
SpecInv ==
    \A h \in Handles : pc[h] \in Acting =>
        /\ spec[h] \in OpenSpecs
        /\ provider = "passphrase" => spec[h].phrase \in Phrases
        /\ provider # "passphrase" => spec[h].phrase = NoPhrase

ManagerInv == \A h \in Handles : pc[h] \in Ready => sm[h] \in Managers

TypeInv == TypeOK /\ SpecInv /\ ManagerInv

\* A step of Open before the manager.
LEMMA OpenTypes ==
    ASSUME TypeInv, NEW h \in Handles,
           OpenRefused(h) \/ Open(h) \/ OpenFails(h) \/ GetStack(h) \/ CreateStack(h)
               \/ loadProjectStack(h)
    PROVE  TypeInv'
<1> USE DEF TypeInv, TypeOK, SpecInv, ManagerInv, Acting, Ready, Opening, backend
<1>1. CASE OpenRefused(h) \/ OpenFails(h)
  BY <1>1 DEF OpenRefused, OpenFails
<1>2. CASE Open(h)
  <2>1. PICK s \in Specs : /\ validate(s)
                           /\ Accept(s).provider = provider
                           /\ spec' = [spec EXCEPT ![h] = Accept(s)]
    BY <1>2 DEF Open
  <2>2. /\ Accept(s) \in OpenSpecs
        /\ provider = "passphrase" => Accept(s).phrase \in Phrases
        /\ provider # "passphrase" => Accept(s).phrase = NoPhrase
    BY <2>1, AcceptedSpec
  <2> QED
    BY <1>2, <2>1, <2>2 DEF Open
<1>3. CASE GetStack(h) \/ CreateStack(h)
  BY <1>3 DEF GetStack, CreateStack
<1>4. CASE loadProjectStack(h)
  <2>1. NoSettings \in ProjectStacks
    BY ConfigAssumption DEF NoSettings, ProjectStacks, Configs, Ids
  <2>2. ps' \in [Handles -> ProjectStacks]
    BY <1>4, <2>1 DEF loadProjectStack, SettingsIn
  <2> QED
    BY <1>4, <2>2 DEF loadProjectStack
<1> QED
  BY <1>1, <1>2, <1>3, <1>4

\* A step of newSecretsManager.
LEMMA SecretsTypes ==
    ASSUME TypeInv, NEW h \in Handles,
           ReuseSalt(h) \/ NewSalt(h) \/ ReuseDataKey(h) \/ NewDataKey(h) \/ KeylessManager(h)
    PROVE  TypeInv'
<1> USE ConfigAssumption DEF TypeInv, TypeOK, SpecInv, ManagerInv, Acting, Ready, Opening, backend
<1>0. /\ spec[h] \in OpenSpecs
      /\ spec[h].phrase \in Phrases \cup {NoPhrase}
      /\ provider \in {"passphrase", "service", "b64", "cloud"}
  BY DEF ReuseSalt, NewSalt, ReuseDataKey, NewDataKey, KeylessManager, OpenSpecs
<1>1. CASE ReuseSalt(h)
  <2> DEFINE salt == MaterialOf(h)
             m == GetPassphraseSecretsManager(spec[h].phrase, salt)
  <2>1. salt \in Ids
    BY MaterialType
  <2>2. m \in Managers /\ m.phrase \in Phrases \cup {NoPhrase, None}
    BY <1>0, <2>1, ManagerType DEF GetPassphraseSecretsManager, Managers
  <2>3. /\ sm' = [sm EXCEPT ![h] = m]
        /\ cache' = [cache EXCEPT ![salt] = sm'[h].phrase]
        /\ ps' = [ps EXCEPT ![h].id = salt]
    BY <1>1 DEF ReuseSalt, passphraseManager, KeepSalt
  <2>4. ps' \in [Handles -> ProjectStacks]
    BY <2>1, <2>3 DEF ProjectStacks
  <2>5. sm' \in [Handles -> Managers \cup {None}] /\ sm'[h] = m
    BY <2>2, <2>3
  <2>6. cache' \in [Ids -> Phrases \cup {NoPhrase, None}]
    BY <2>1, <2>2, <2>3, <2>5
  <2> HIDE DEF m, salt
  <2> QED
    BY <1>1, <2>2, <2>3, <2>4, <2>5, <2>6 DEF ReuseSalt
<1>2. CASE NewSalt(h) \/ NewDataKey(h)
  <2> DEFINE m == [type |-> provider, id |-> Len(made'), phrase |-> spec[h].phrase]
  <2>1. /\ made' \in Seq(Phrases \cup {NoPhrase})
        /\ Len(made') <= MaxMade
        /\ Len(made') \in Ids
    <3>1. made' = Append(made, spec[h].phrase) /\ Len(made) < MaxMade
      BY <1>2 DEF NewSalt, NewDataKey, MakeMaterial
    <3>2. made' \in Seq(Phrases \cup {NoPhrase}) /\ Len(made') = Len(made) + 1
      BY <1>0, <3>1
    <3> QED
      BY <3>1, <3>2 DEF Ids
  <2>2. m \in Managers
    BY <1>0, <2>1, ManagerType
  <2>3. /\ ps' = [ps EXCEPT ![h].id = Len(made')]
        /\ sm' = [sm EXCEPT ![h] = m]
        /\ cache' = [cache EXCEPT ![Len(made')] = spec[h].phrase] \/ cache' = cache
    BY <1>2 DEF NewSalt, NewDataKey, MakeMaterial
  <2>4. ps' \in [Handles -> ProjectStacks]
    BY <2>1, <2>3 DEF ProjectStacks
  <2>5. sm' \in [Handles -> Managers \cup {None}] /\ sm'[h] = m
    BY <2>2, <2>3
  <2>6. cache' \in [Ids -> Phrases \cup {NoPhrase, None}]
    BY <1>0, <2>1, <2>3
  <2> HIDE DEF m
  <2> QED
    BY <1>2, <2>1, <2>2, <2>3, <2>4, <2>5, <2>6 DEF NewSalt, NewDataKey
<1>3. CASE ReuseDataKey(h) \/ KeylessManager(h)
  <2>1. PICK m \in Managers : sm' = [sm EXCEPT ![h] = m]
    <3>1. 0 \in Ids /\ MaterialOf(h) \in Ids
      BY MaterialType DEF Ids
    <3> QED
      BY <1>3, <1>0, <3>1, ManagerType DEF ReuseDataKey, KeylessManager
  <2> QED
    BY <1>3, <2>1 DEF ReuseDataKey, KeylessManager
<1> QED
  BY <1>1, <1>2, <1>3

\* What a change of the config does to the settings and the file.
SettingsChange(h) ==
    /\ \/ ps' = ps
       \/ \E k \in ConfigKeys, v \in {None, Plain, sm[h]} :
             ps' = [ps EXCEPT ![h] = [ps[h] EXCEPT !.config[k] = v]]
    /\ file' = ps'[h] \/ file' = file

\* Every action that changes the config is one.
LEMMA ConfigChanges ==
    ASSUME TypeInv, NEW h \in Handles, Configure(h) \/ SetConfig(h) \/ RemoveConfig(h)
    PROVE  /\ SettingsChange(h)
           /\ pc[h] \in Ready /\ sm[h] \in Managers
           /\ pc' = pc \/ (pc[h] = "configure" /\ pc' = [pc EXCEPT ![h] = "open"])
           /\ UNCHANGED <<provider, exists, checkpoint, made, cache, spec, sm>>
<1> USE DEF TypeInv, TypeOK
<1>1. pc[h] \in Ready /\ sm[h] \in Managers
  BY DEF Configure, SetConfig, RemoveConfig, Ready, ManagerInv
<1>2. /\ pc' = pc \/ (pc[h] = "configure" /\ pc' = [pc EXCEPT ![h] = "open"])
      /\ UNCHANGED <<provider, exists, checkpoint, made, cache, spec, sm>>
  BY DEF Configure, SetConfig, RemoveConfig, backend
<1>3. \A k \in ConfigKeys : \A v :
        [ps EXCEPT ![h].config[k] = v] = [ps EXCEPT ![h] = [ps[h] EXCEPT !.config[k] = v]]
  OBVIOUS
<1>4. \/ ps' = ps
      \/ \E k \in ConfigKeys, v \in {None, Plain, sm[h]} : ps' = [ps EXCEPT ![h].config[k] = v]
  BY DEF Configure, SetConfig, RemoveConfig, setConfigLocked
<1>5. file' = ps'[h] \/ file' = file
  BY DEF Configure, SetConfig, RemoveConfig, saveProjectStack
<1> QED
  BY <1>1, <1>2, <1>3, <1>4, <1>5 DEF SettingsChange

\* A change of the config, or of the checkpoint.
LEMMA SettingsTypes ==
    ASSUME TypeInv, NEW h \in Handles,
           Configure(h) \/ SetConfig(h) \/ RemoveConfig(h) \/ Update(h) \/ Import(h) \/ Remove(h)
    PROVE  TypeInv'
<1> USE DEF TypeInv, TypeOK, SpecInv, ManagerInv, Acting, Ready, Opening
<1>1. CASE Configure(h) \/ SetConfig(h) \/ RemoveConfig(h)
  <2>1. /\ SettingsChange(h)
        /\ pc[h] \in Ready /\ sm[h] \in Managers
        /\ pc' = pc \/ (pc[h] = "configure" /\ pc' = [pc EXCEPT ![h] = "open"])
        /\ UNCHANGED <<provider, exists, checkpoint, made, cache, spec, sm>>
    BY <1>1, ConfigChanges
  <2>2. ps' \in [Handles -> ProjectStacks]
    <3>1. ASSUME NEW k \in ConfigKeys, NEW v \in {None, Plain, sm[h]},
                 ps' = [ps EXCEPT ![h] = [ps[h] EXCEPT !.config[k] = v]]
          PROVE  ps' \in [Handles -> ProjectStacks]
      <4>1. v \in {None, Plain} \cup Managers /\ ps[h] \in ProjectStacks
        BY <2>1
      <4>2. [ps[h] EXCEPT !.config[k] = v] \in ProjectStacks
        BY <4>1, SettingsType
      <4> QED
        BY <3>1, <4>2
    <3> QED
      BY <2>1, <3>1 DEF SettingsChange
  <2>3. file' \in ProjectStacks \cup {None}
    BY <2>1, <2>2 DEF SettingsChange
  <2> QED
    BY <2>1, <2>2, <2>3
<1>2. CASE Update(h)
  BY <1>2 DEF Update
<1>3. CASE Remove(h)
  BY <1>3 DEF Remove
<1>4. CASE Import(h)
  <2>1. made' \in Seq(Phrases \cup {NoPhrase}) /\ Len(made') <= MaxMade /\ Len(made') \in Nat
    BY <1>4, ImportMade
  <2>2. checkpoint' \in Managers \cup {None}
    BY <1>4, <2>1, ImportedManager, ConfigAssumption DEF Import
  <2> QED
    BY <1>4, <2>1, <2>2 DEF Import
<1> QED
  BY <1>1, <1>2, <1>3, <1>4

\* The types and what the managers are made from.
LEMMA TypeInvariant == Spec => []TypeInv
<1>1. Init => TypeInv
  <2> SUFFICES ASSUME Init
               PROVE  TypeInv
    OBVIOUS
  <2>1. NoSettings \in ProjectStacks
    BY ConfigAssumption DEF NoSettings, ProjectStacks, Configs, Ids
  <2>2. made \in Seq(Phrases \cup {NoPhrase}) /\ Len(made) <= MaxMade
    BY ConfigAssumption DEF Init
  <2> QED
    BY <2>1, <2>2 DEF Init, TypeInv, TypeOK, SpecInv, ManagerInv, Acting, Ready, Opening
<1>2. TypeInv /\ [Next]_vars => TypeInv'
  <2> SUFFICES ASSUME TypeInv, [Next]_vars
               PROVE  TypeInv'
    OBVIOUS
  <2>1. CASE UNCHANGED vars
    BY <2>1 DEF vars, TypeInv, TypeOK, SpecInv, ManagerInv
  <2> QED
    BY <2>1, OpenTypes, SecretsTypes, SettingsTypes DEF Next
<1> QED
  BY <1>1, <1>2, PTL DEF Spec

\* The configuration, the checkpoint and the key material keep their types.
THEOREM TypeCorrect == Spec => []TypeOK
<1>1. TypeInv => TypeOK
  BY DEF TypeInv
<1> QED
  BY <1>1, TypeInvariant, PTL

-----------------------------------------------------------------------------
(***************************************************************************)
(* Keys.  A sound manager is determined by its material: the passphrase it *)
(* holds is the one the salt was made with, and without a passphrase it    *)
(* holds none.  Settings are sound when every secret in them is encrypted  *)
(* with the material they name, which is what lets a handle that loads     *)
(* them read them; a cloud KMS is left out, where they are not.            *)
(***************************************************************************)
Sound(m, p, md) ==
    /\ m.type = p
    /\ m.id \in 0..Len(md)
    /\ p = "passphrase" => m.id \in 1..Len(md) /\ m.phrase = md[m.id]
    /\ p # "passphrase" => m.phrase = NoPhrase
    /\ p \in {"service", "b64"} => m.id = 0

SoundValue(v, i, p, md) ==
    \/ v \in {None, Plain}
    \/ v \in Managers /\ Sound(v, p, md) /\ (p = "passphrase" => v.id = i)

SoundSettings(s, p, md) ==
    /\ s.id \in 0..Len(md)
    /\ p # "cloud" => \A k \in ConfigKeys : SoundValue(s.config[k], s.id, p, md)

CacheInv == \A i \in Ids : cache[i] # None => i \in 1..Len(made) /\ cache[i] = made[i]

HandleInv ==
    \A h \in Handles : pc[h] \in Ready =>
        /\ Sound(sm[h], provider, made)
        /\ provider = "passphrase" => sm[h].phrase = spec[h].phrase /\ sm[h].id = ps[h].id

KeyInv ==
    /\ CacheInv
    /\ HandleInv
    /\ checkpoint # None /\ checkpoint.type = provider => Sound(checkpoint, provider, made)
    /\ file # None => SoundSettings(file, provider, made)
    /\ \A h \in Handles : SoundSettings(ps[h], provider, made)

\* Making more material leaves what is there as it was.
LEMMA SoundGrows ==
    ASSUME NEW S, NEW md \in Seq(S), NEW x \in S, NEW p
    PROVE  /\ \A m : Sound(m, p, md) => Sound(m, p, Append(md, x))
           /\ \A v, i : SoundValue(v, i, p, md) => SoundValue(v, i, p, Append(md, x))
           /\ \A s : SoundSettings(s, p, md) => SoundSettings(s, p, Append(md, x))
<1>1. /\ Len(Append(md, x)) = Len(md) + 1
      /\ \A i \in 1..Len(md) : Append(md, x)[i] = md[i]
      /\ Len(md) \in Nat
  OBVIOUS
<1>2. \A m : Sound(m, p, md) => Sound(m, p, Append(md, x))
  BY <1>1 DEF Sound
<1>3. \A v, i : SoundValue(v, i, p, md) => SoundValue(v, i, p, Append(md, x))
  BY <1>2 DEF SoundValue
<1> QED
  BY <1>1, <1>2, <1>3 DEF SoundSettings

\* Settings that name no material have no secrets, so they may be given some.
LEMMA SoundMaterial ==
    ASSUME NEW s \in ProjectStacks, NEW md, NEW p, NEW i \in 0..Len(md),
           SoundSettings(s, p, md), s.id \in {0, i}, Len(md) \in Nat
    PROVE  SoundSettings([s EXCEPT !.id = i], p, md)
<1> DEFINE t == [s EXCEPT !.id = i]
<1>1. t.id = i /\ t.config = s.config
  BY DEF ProjectStacks
<1>2. ASSUME NEW v, SoundValue(v, s.id, p, md)
      PROVE  SoundValue(v, i, p, md)
  BY <1>2 DEF SoundValue, Sound
<1> HIDE DEF t
<1>3. SoundSettings(t, p, md)
  BY <1>1, <1>2 DEF SoundSettings
<1> QED
  BY <1>3 DEF t

\* A value the handle may write keeps its settings sound.
LEMMA SoundChange ==
    ASSUME NEW s \in ProjectStacks, NEW md, NEW p, NEW k \in ConfigKeys, NEW v,
           SoundSettings(s, p, md), SoundValue(v, s.id, p, md)
    PROVE  SoundSettings([s EXCEPT !.config[k] = v], p, md)
<1> DEFINE t == [s EXCEPT !.config[k] = v]
<1>1. t.id = s.id /\ \A j \in ConfigKeys : t.config[j] = IF j = k THEN v ELSE s.config[j]
  BY DEF ProjectStacks, Configs
<1> HIDE DEF t
<1>2. SoundSettings(t, p, md)
  BY <1>1 DEF SoundSettings
<1> QED
  BY <1>2 DEF t

\* A step of Open before the manager leaves the keys alone.
LEMMA OpenKeys ==
    ASSUME TypeInv, KeyInv, NEW h \in Handles,
           OpenRefused(h) \/ Open(h) \/ OpenFails(h) \/ GetStack(h) \/ CreateStack(h)
               \/ loadProjectStack(h)
    PROVE  KeyInv'
<1> USE DEF TypeInv, TypeOK, Ready, Opening, backend
<1>1. /\ UNCHANGED <<provider, file, checkpoint, made, cache, sm>>
      /\ \A g \in Handles : pc'[g] \in Ready =>
             pc[g] \in Ready /\ spec'[g] = spec[g] /\ ps'[g] = ps[g]
  BY DEF OpenRefused, Open, OpenFails, GetStack, CreateStack, loadProjectStack
<1>2. \A g \in Handles : SoundSettings(ps'[g], provider, made)
  <2>1. SoundSettings(NoSettings, provider, made)
    BY DEF NoSettings, SoundSettings, SoundValue
  <2>2. CASE loadProjectStack(h)
    BY <2>1, <2>2 DEF loadProjectStack, SettingsIn, KeyInv
  <2>3. CASE ~ loadProjectStack(h)
    BY <2>3 DEF OpenRefused, Open, OpenFails, GetStack, CreateStack, KeyInv
  <2> QED
    BY <2>2, <2>3
<1> QED
  BY <1>1, <1>2 DEF KeyInv, CacheInv, HandleInv

\* Every way to a manager makes a sound one, whatever Pulumi has cached.
LEMMA SecretsKeys ==
    ASSUME TypeInv, KeyInv, NEW h \in Handles,
           ReuseSalt(h) \/ NewSalt(h) \/ ReuseDataKey(h) \/ NewDataKey(h) \/ KeylessManager(h)
    PROVE  KeyInv'
<1> USE ConfigAssumption DEF TypeInv, TypeOK
<1>0. /\ pc[h] = "secrets" /\ pc' = [pc EXCEPT ![h] = "configure"]
      /\ UNCHANGED <<provider, checkpoint, file, spec>>
      /\ spec[h] \in OpenSpecs
      /\ spec[h].phrase \in Phrases \cup {NoPhrase}
      /\ provider # "passphrase" => spec[h].phrase = NoPhrase
      /\ ps[h] \in ProjectStacks
  BY DEF ReuseSalt, NewSalt, ReuseDataKey, NewDataKey, KeylessManager, SpecInv, Acting, Opening,
         OpenSpecs, backend
<1>1. CASE ReuseSalt(h)
  <2> DEFINE salt == MaterialOf(h)
             m == GetPassphraseSecretsManager(spec[h].phrase, salt)
  <2>1. /\ provider = "passphrase"
        /\ made[salt] = spec[h].phrase
        /\ sm' = [sm EXCEPT ![h] = m]
        /\ cache' = [cache EXCEPT ![salt] = sm'[h].phrase]
        /\ ps' = [ps EXCEPT ![h].id = salt]
        /\ UNCHANGED made
        /\ salt # 0
    BY <1>1 DEF ReuseSalt, passphraseManager, KeepSalt, VerifyPassphrase
  <2>2. salt \in 1..Len(made) /\ salt \in Ids /\ ps[h].id \in {0, salt}
    <3>1. /\ ps[h].id \in 0..Len(made)
          /\ checkpoint # None /\ checkpoint.type = provider => checkpoint.id \in 0..Len(made)
      BY DEF KeyInv, SoundSettings, Sound
    <3> QED
      BY <2>1, <3>1, MaterialType DEF MaterialOf
  <2>3. m.type = "passphrase" /\ m.id = salt /\ m.phrase = made[salt]
    BY <2>1, <2>2 DEF GetPassphraseSecretsManager, KeyInv, CacheInv
  <2> HIDE DEF m, salt
  <2>4. Sound(m, provider, made)
    BY <2>1, <2>2, <2>3 DEF Sound
  <2>5. sm'[h] = m /\ \A g \in Handles \ {h} : sm'[g] = sm[g] /\ ps'[g] = ps[g] /\ pc'[g] = pc[g]
    BY <1>0, <2>1
  <2>6. ps'[h] = [ps[h] EXCEPT !.id = salt]
    BY <2>1
  <2>7. ps'[h].id = salt
    BY <1>0, <2>6 DEF ProjectStacks
  <2>8. CacheInv'
    BY <2>1, <2>2, <2>3, <2>5 DEF CacheInv, KeyInv
  <2>9. \A g \in Handles : SoundSettings(ps'[g], provider, made)
    <3>1. SoundSettings(ps'[h], provider, made)
      <4>1. Len(made) \in Nat /\ salt \in 0..Len(made) /\ SoundSettings(ps[h], provider, made)
        BY <2>2 DEF KeyInv
      <4> QED
        BY <1>0, <2>2, <2>6, <4>1, SoundMaterial
    <3> QED
      BY <2>5, <3>1 DEF KeyInv
  <2>10. HandleInv'
    BY <1>0, <2>1, <2>3, <2>4, <2>5, <2>7 DEF HandleInv, KeyInv
  <2> QED
    BY <1>0, <2>1, <2>8, <2>9, <2>10 DEF KeyInv
<1>2. CASE NewSalt(h) \/ NewDataKey(h)
  <2> DEFINE new == Append(made, spec[h].phrase)
             m == [type |-> provider, id |-> Len(new), phrase |-> spec[h].phrase]
  <2>1. /\ provider \in {"passphrase", "cloud"}
        /\ made' = new
        /\ sm' = [sm EXCEPT ![h] = m]
        /\ ps' = [ps EXCEPT ![h].id = Len(new)]
        /\ cache' = [cache EXCEPT ![Len(new)] = spec[h].phrase] \/ cache' = cache
        /\ MaterialOf(h) = 0
        /\ Len(made) < MaxMade
    BY <1>2 DEF NewSalt, NewDataKey, MakeMaterial
  <2>2. /\ new \in Seq(Phrases \cup {NoPhrase})
        /\ Len(new) = Len(made) + 1 /\ new[Len(new)] = spec[h].phrase
        /\ \A i \in 1..Len(made) : new[i] = made[i]
        /\ Len(made) \in Nat
    BY <1>0
  <2>3. ps[h].id = 0
    BY <2>1 DEF MaterialOf
  <2> HIDE DEF new
  <2>4. Sound(m, provider, new)
    BY <1>0, <2>1, <2>2 DEF Sound
  <2>5. sm'[h] = m /\ \A g \in Handles \ {h} : sm'[g] = sm[g] /\ ps'[g] = ps[g] /\ pc'[g] = pc[g]
    BY <1>0, <2>1
  <2>6. ps'[h] = [ps[h] EXCEPT !.id = Len(new)]
    BY <2>1
  <2>7. ps'[h].id = Len(new)
    BY <1>0, <2>6 DEF ProjectStacks
  <2>8. CacheInv'
    <3>1. \A i \in Ids : cache[i] # None => i \in 1..Len(new) /\ cache[i] = new[i]
      BY <2>2 DEF CacheInv, KeyInv
    <3>2. ASSUME NEW i \in Ids, cache'[i] # None
          PROVE  i \in 1..Len(new) /\ cache'[i] = new[i]
      <4>1. CASE i = Len(new) /\ cache' = [cache EXCEPT ![Len(new)] = spec[h].phrase]
        BY <2>2, <4>1
      <4>2. CASE cache'[i] = cache[i]
        BY <3>1, <3>2, <4>2
      <4> QED
        BY <2>1, <4>1, <4>2
    <3> QED
      BY <2>1, <3>2 DEF CacheInv
  <2>9. /\ \A x : Sound(x, provider, made) => Sound(x, provider, new)
        /\ \A s : SoundSettings(s, provider, made) => SoundSettings(s, provider, new)
    BY <1>0, SoundGrows DEF new
  <2>10. \A g \in Handles : SoundSettings(ps'[g], provider, new)
    <3>1. SoundSettings(ps'[h], provider, new)
      <4>1. Len(new) \in Nat /\ Len(new) \in 0..Len(new) /\ SoundSettings(ps[h], provider, new)
        BY <2>2, <2>9 DEF KeyInv
      <4>2. ps[h].id \in {0, Len(new)}
        BY <2>3
      <4>3. SoundSettings([ps[h] EXCEPT !.id = Len(new)], provider, new)
        BY <1>0, <4>1, <4>2, SoundMaterial
      <4> QED
        BY <2>6, <4>3
    <3> QED
      BY <2>5, <2>9, <3>1 DEF KeyInv
  <2>11. HandleInv'
    BY <1>0, <2>1, <2>4, <2>5, <2>7, <2>9 DEF HandleInv, KeyInv
  <2> QED
    BY <1>0, <2>1, <2>8, <2>9, <2>10, <2>11 DEF KeyInv
<1>3. CASE ReuseDataKey(h) \/ KeylessManager(h)
  <2>1. PICK i \in 0..Len(made) :
          /\ sm' = [sm EXCEPT ![h] = [type |-> provider, id |-> i, phrase |-> NoPhrase]]
          /\ provider \in {"service", "b64", "cloud"}
          /\ provider # "cloud" => i = 0
    <3>1. /\ ps[h].id \in 0..Len(made)
          /\ checkpoint # None /\ checkpoint.type = provider => checkpoint.id \in 0..Len(made)
      BY DEF KeyInv, SoundSettings, Sound
    <3>2. MaterialOf(h) \in 0..Len(made) /\ 0 \in 0..Len(made)
      BY <3>1 DEF MaterialOf
    <3> QED
      BY <1>3, <3>2 DEF ReuseDataKey, KeylessManager
  <2>2. Sound([type |-> provider, id |-> i, phrase |-> NoPhrase], provider, made)
    BY <2>1 DEF Sound
  <2>3. UNCHANGED <<made, cache, ps>>
    BY <1>3 DEF ReuseDataKey, KeylessManager
  <2>4. HandleInv'
    BY <1>0, <2>1, <2>2, <2>3 DEF HandleInv, KeyInv
  <2> QED
    BY <1>0, <2>3, <2>4 DEF KeyInv, CacheInv
<1> QED
  BY <1>1, <1>2, <1>3

\* Import brings a checkpoint whose material, old or new, is known, and leaves
\* the handles and the file alone.
LEMMA ImportKeys ==
    ASSUME TypeInv, KeyInv, NEW h \in Handles, Import(h)
    PROVE  KeyInv'
<1> USE ConfigAssumption DEF TypeInv, TypeOK
<1>1. /\ UNCHANGED <<provider, file, cache, pc, spec, ps, sm>>
      /\ checkpoint' \in Exported'
  BY DEF Import
<1>2. made' \in Seq(Phrases \cup {NoPhrase}) /\ Len(made') <= MaxMade /\ Len(made') \in Nat
  BY ImportMade
<1>3. checkpoint' # None /\ checkpoint'.type = provider => Sound(checkpoint', provider, made')
  <2>1. ASSUME checkpoint' # None, checkpoint'.type = provider
        PROVE  /\ provider \in {"service", "b64"} => checkpoint'.id = 0
               /\ provider \notin {"service", "b64"} =>
                      checkpoint'.id \in 1..Len(made') /\ checkpoint'.phrase = made'[checkpoint'.id]
               /\ provider # "passphrase" => checkpoint'.phrase = NoPhrase
    BY <1>1, <1>2, <2>1, ImportedManager
  <2> QED
    BY <1>2, <2>1 DEF Sound
<1>4. /\ \A m : Sound(m, provider, made) => Sound(m, provider, made')
      /\ \A s : SoundSettings(s, provider, made) => SoundSettings(s, provider, made')
      /\ \A i \in 1..Len(made) : i \in 1..Len(made') /\ made'[i] = made[i]
  <2>1. CASE UNCHANGED made
    BY <2>1
  <2>2. ASSUME NEW phrase \in Phrases \cup {NoPhrase}, made' = Append(made, phrase)
        PROVE  /\ \A m : Sound(m, provider, made) => Sound(m, provider, made')
               /\ \A s : SoundSettings(s, provider, made) => SoundSettings(s, provider, made')
               /\ \A i \in 1..Len(made) : i \in 1..Len(made') /\ made'[i] = made[i]
    <3>1. /\ \A m : Sound(m, provider, made) => Sound(m, provider, Append(made, phrase))
          /\ \A s : SoundSettings(s, provider, made)
                        => SoundSettings(s, provider, Append(made, phrase))
      BY SoundGrows
    <3>2. \A i \in 1..Len(made) : i \in 1..Len(made') /\ made'[i] = made[i]
      BY <2>2
    <3> QED
      BY <2>2, <3>1, <3>2
  <2> QED
    BY <2>1, <2>2 DEF Import
<1>5. CacheInv'
  BY <1>1, <1>4 DEF KeyInv, CacheInv
<1>6. HandleInv'
  BY <1>1, <1>4 DEF KeyInv, HandleInv
<1> QED
  BY <1>1, <1>3, <1>4, <1>5, <1>6 DEF KeyInv

\* A change of the config, or of the checkpoint, writes what the handle's own
\* manager encrypted.
LEMMA SettingsKeys ==
    ASSUME TypeInv, KeyInv, NEW h \in Handles,
           Configure(h) \/ SetConfig(h) \/ RemoveConfig(h) \/ Update(h) \/ Import(h) \/ Remove(h)
    PROVE  KeyInv'
<1> USE DEF TypeInv, TypeOK
<1>1. CASE Configure(h) \/ SetConfig(h) \/ RemoveConfig(h)
  <2>1. /\ SettingsChange(h)
        /\ pc[h] \in Ready /\ sm[h] \in Managers
        /\ pc' = pc \/ (pc[h] = "configure" /\ pc' = [pc EXCEPT ![h] = "open"])
        /\ UNCHANGED <<provider, exists, checkpoint, made, cache, spec, sm>>
    BY <1>1, ConfigChanges
  <2>2. /\ SoundSettings(ps'[h], provider, made) /\ ps'[h].id = ps[h].id
        /\ \A g \in Handles \ {h} : ps'[g] = ps[g]
    <3>1. ASSUME NEW k \in ConfigKeys, NEW v \in {None, Plain, sm[h]},
                 ps' = [ps EXCEPT ![h] = [ps[h] EXCEPT !.config[k] = v]]
          PROVE  /\ SoundSettings(ps'[h], provider, made) /\ ps'[h].id = ps[h].id
                 /\ \A g \in Handles \ {h} : ps'[g] = ps[g]
      <4>1. SoundValue(v, ps[h].id, provider, made)
        BY <2>1 DEF SoundValue, KeyInv, HandleInv
      <4>2. ps[h] \in ProjectStacks /\ SoundSettings(ps[h], provider, made)
        BY DEF KeyInv
      <4>3. SoundSettings([ps[h] EXCEPT !.config[k] = v], provider, made)
        BY <4>1, <4>2, SoundChange
      <4>4. [ps[h] EXCEPT !.config[k] = v].id = ps[h].id
        BY <4>2 DEF ProjectStacks
      <4> QED
        BY <3>1, <4>3, <4>4
    <3> QED
      BY <2>1, <3>1 DEF SettingsChange, KeyInv
  <2>3. \A g \in Handles : pc'[g] \in Ready => pc[g] \in Ready
    BY <2>1 DEF Ready
  <2>4. HandleInv'
    BY <2>1, <2>2, <2>3 DEF HandleInv, KeyInv
  <2>5. \A g \in Handles : SoundSettings(ps'[g], provider, made)
    BY <2>2 DEF KeyInv
  <2>6. file' # None => SoundSettings(file', provider, made)
    BY <2>1, <2>2 DEF SettingsChange, KeyInv
  <2> QED
    BY <2>1, <2>4, <2>5, <2>6 DEF KeyInv, CacheInv
<1>2. CASE Update(h)
  <2>1. Sound(sm[h], provider, made)
    BY <1>2 DEF Update, KeyInv, HandleInv, Ready
  <2> QED
    BY <1>2, <2>1 DEF Update, KeyInv, CacheInv, HandleInv
<1>3. CASE Remove(h)
  BY <1>3 DEF Remove, KeyInv, CacheInv, HandleInv
<1>4. CASE Import(h)
  BY <1>4, ImportKeys
<1> QED
  BY <1>1, <1>2, <1>3, <1>4

\* The keys are sound in every reachable state.
LEMMA KeyInvariant == Spec => []KeyInv
<1>1. Init => KeyInv
  <2> SUFFICES ASSUME Init
               PROVE  KeyInv
    OBVIOUS
  <2>1. SoundSettings(NoSettings, provider, made)
    BY DEF Init, NoSettings, SoundSettings, SoundValue
  <2> QED
    BY <2>1 DEF Init, KeyInv, CacheInv, HandleInv, Ready
<1>2. TypeInv /\ KeyInv /\ [Next]_vars => KeyInv'
  <2> SUFFICES ASSUME TypeInv, KeyInv, [Next]_vars
               PROVE  KeyInv'
    OBVIOUS
  <2>1. CASE UNCHANGED vars
    BY <2>1 DEF vars, KeyInv, CacheInv, HandleInv
  <2> QED
    BY <2>1, OpenKeys, SecretsKeys, SettingsKeys DEF Next
<1> QED
  BY <1>1, <1>2, TypeInvariant, PTL DEF Spec

-----------------------------------------------------------------------------

\* Nobody gets a handle with a wrong passphrase: the manager of an open handle
\* holds the passphrase of the handle's spec, which is the one its salt was
\* made with, for any number of handles (crypto.go, passphraseManager).
THEOREM HandleHasRightPassphrase == Spec => []RightPassphrase
<1>1. KeyInv => RightPassphrase
  BY DEF KeyInv, HandleInv, Ready, Sound, RightPassphrase
<1> QED
  BY <1>1, KeyInvariant, PTL

\* Every open handle decrypts every secret of its config, for any number of
\* handles that open, write and remove the stack in any order; a cloud KMS is
\* the exception (crypto.go, newSecretsManager; stack.go, saveProjectStack).
THEOREM SecretsStayReadable == Spec => []SecretsReadable
<1>1. TypeInv /\ KeyInv => SecretsReadable
  <2> SUFFICES ASSUME TypeInv, KeyInv, provider # "cloud", NEW h \in Handles, pc[h] = "open",
                      NEW k \in ConfigKeys
               PROVE  ps[h].config[k] \in {None, Plain, sm[h]}
    BY DEF SecretsReadable, ReadsItsConfig, Decrypts
  <2>1. sm[h] \in Managers /\ Sound(sm[h], provider, made)
    BY DEF TypeInv, ManagerInv, Ready, KeyInv, HandleInv
  <2>2. CASE ps[h].config[k] \notin {None, Plain}
    <3> DEFINE v == ps[h].config[k]
    <3>1. v \in Managers /\ Sound(v, provider, made) /\ (provider = "passphrase" => v.id = ps[h].id)
      BY <2>2 DEF KeyInv, SoundSettings, SoundValue
    <3>2. provider = "passphrase" => sm[h].id = ps[h].id
      BY DEF KeyInv, HandleInv, Ready
    <3> HIDE DEF v
    <3>3. provider \in {"passphrase", "service", "b64"}
      BY ConfigAssumption DEF TypeInv, TypeOK
    <3>4. v.type = sm[h].type /\ v.id = sm[h].id /\ v.phrase = sm[h].phrase
      BY <2>1, <3>1, <3>2, <3>3 DEF Sound
    <3>5. v = sm[h]
      BY <2>1, <3>1, <3>4 DEF Managers
    <3> QED
      BY <3>5 DEF v
  <2> QED
    BY <2>2
<1> QED
  BY <1>1, TypeInvariant, KeyInvariant, PTL

\* No update writes the checkpoint under another passphrase than the one it
\* found it with, for any number of handles, however many salts the stack has
\* got and whatever was imported (crypto.go, OfType).
THEOREM CheckpointPassphraseKept == Spec => CheckpointKeepsPassphrase
<1>1. TypeInv /\ KeyInv /\ [Next]_vars =>
        [\A h \in Handles : Update(h) /\ checkpoint # None /\ checkpoint.type = "passphrase"
            => checkpoint'.phrase = checkpoint.phrase]_vars
  <2> SUFFICES ASSUME TypeInv, KeyInv, NEW h \in Handles, Update(h), checkpoint # None,
                      checkpoint.type = "passphrase"
               PROVE  checkpoint'.phrase = checkpoint.phrase
    BY DEF vars
  <2>1. provider = "passphrase"
    BY DEF Update, OfType, hasPassphrase, TypeInv, SpecInv, Acting
  <2>2. Sound(checkpoint, provider, made) /\ Sound(sm[h], provider, made)
    BY <2>1 DEF Update, KeyInv, HandleInv, Ready
  <2>3. made[checkpoint.id] = spec[h].phrase /\ sm[h].phrase = spec[h].phrase
    BY <2>1 DEF Update, OfType, VerifyPassphrase, KeyInv, HandleInv, Ready
  <2> QED
    BY <2>1, <2>2, <2>3 DEF Update, Sound
<1> QED
  BY <1>1, TypeInvariant, KeyInvariant, PTL DEF Spec, CheckpointKeepsPassphrase

=============================================================================
