------------------------------ MODULE StackSpec ------------------------------
(***************************************************************************)
(* What a caller may ask of Open (src/engine/spec.go): the specs that pass *)
(* validate, with its defaults filled in.  Strings are reduced to the      *)
(* cases validate tells apart.                                             *)
(***************************************************************************)

CONSTANTS
    Phrases,   \* passphrases, the empty one included
    Specs,     \* the specs callers pass
    NoPhrase   \* no passphrase given: Passphrase empty and PassphraseSet false

RawSpecs ==
    [name      : {"", "invalid", "valid"},
     url       : {"", "diy", "http", "unknown"},
     token     : BOOLEAN,
     dir       : {"", "missing", "exists"},
     project   : {"", "invalid", "valid"},
     provider  : {"", "passphrase", "service", "b64", "cloud", "unknown"},
     phrase    : Phrases \cup {NoPhrase},
     env       : {"invalid", "valid"},
     config    : {"invalid", "valid"}]

ASSUME SpecAssumption ==
    /\ NoPhrase \notin Phrases
    /\ Specs \subseteq RawSpecs

isDIYBackend(url) == url = "diy"

hasPassphrase(spec) == spec.phrase # NoPhrase

\* The provider a spec without one gets.
DefaultProvider(url) == IF isDIYBackend(url) THEN "passphrase" ELSE "service"

WithDefaults(s) == [s EXCEPT !.provider = IF @ = "" THEN DefaultProvider(s.url) ELSE @]

ValidBackend(s) ==
    /\ s.url \in {"diy", "http"}
    /\ s.token => ~ isDIYBackend(s.url)

\* A project without a name takes it from Pulumi.yaml in its dir; a file
\* that does not load or has a bad name is the "invalid" project.
ValidProject(s) ==
    /\ s.dir # "missing"
    /\ s.project = "valid" \/ (s.project = "" /\ s.dir = "exists")

ValidSecrets(s) ==
    /\ s.provider \in {"passphrase", "service", "b64", "cloud"}
    /\ s.provider = "passphrase" => hasPassphrase(s)
    /\ s.provider = "service" => ~ isDIYBackend(s.url)
    /\ s.provider # "passphrase" => ~ hasPassphrase(s)

validate(s) ==
    /\ s.name = "valid"
    /\ ValidBackend(s)
    /\ ValidProject(s)
    /\ ValidSecrets(WithDefaults(s))
    /\ s.env = "valid"
    /\ s.config = "valid"

\* What Open keeps of a valid spec.
Accept(s) ==
    [provider |-> WithDefaults(s).provider, phrase |-> s.phrase, dir |-> s.dir = "exists"]

=============================================================================
