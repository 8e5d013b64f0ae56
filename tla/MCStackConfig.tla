--------------------------- MODULE MCStackConfig ---------------------------
(* StackConfig for TLC: specs of every provider, with and without a        *)
(* passphrase and a project dir.                                           *)
EXTENDS StackConfig, TLC

MCSpecs ==
    [name : {"valid"}, url : {"diy", "http"}, token : {FALSE}, dir : {"", "exists"},
     project : {"valid"}, provider : {"", "b64", "cloud"},
     phrase : Phrases \cup {NoPhrase}, env : {"valid"}, config : {"valid"}]

\* Handles are alike, and so are passphrases.
MCSymmetry == Permutations(Handles) \cup Permutations(Phrases)
=============================================================================
