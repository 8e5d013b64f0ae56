----------------------------- MODULE PluginHost -----------------------------
(***************************************************************************)
(* The plugin host of one operation (src/engine/pluginhost.go) and the     *)
(* launch of a language host process (src/internal/upstream/launch.go).    *)
(*                                                                         *)
(* LanguageRuntime launches one process per runtime and holds the host's   *)
(* mutex from the lookup to the end of the launch; Close takes what has    *)
(* been launched, once, and stops it.  A process is named after the call   *)
(* that launched it.                                                       *)
(***************************************************************************)
EXTENDS Naturals

CONSTANTS
    Callers,    \* LanguageRuntime calls, EnsurePlugins' included
    Runtimes,   \* runtimes with a language host
    RuntimeOf,  \* the runtime each call asks for
    HostClosers,\* Close calls: the engine's and the operation's
    None        \* nobody

VARIABLES
    mu,       \* operationHost.mu: the LanguageRuntime call that has it
    call,     \* where each LanguageRuntime call is
    proc,     \* the process it launched: "none", "up", "dead" or "reaped"
    langs,    \* operationHost.langs
    once,     \* operationHost.once: "no", "taken", "swapped" or "done"
    hcloser,  \* each Close: "idle", "first", "waiting" or "returned"
    closing,  \* processes taken by Close and not yet stopped
    late      \* history: launched after Close had taken the others

vars == <<mu, call, proc, langs, once, hcloser, closing, late>>

Init ==
    /\ mu = None
    /\ call = [c \in Callers |-> "idle"]
    /\ proc = [c \in Callers |-> "none"]
    /\ langs = [r \in Runtimes |-> None]
    /\ once = "no"
    /\ hcloser = [k \in HostClosers |-> "idle"]
    /\ closing = {}
    /\ late = {}

Goto(c, state) == call' = [call EXCEPT ![c] = state]

Returned == {"delegated", "failed", "alive"}

\* plug.Close and plug.Kill: the process is stopped and waited for.
Reaped(cs) == [c \in Callers |-> IF c \in cs THEN "reaped" ELSE proc[c]]

-----------------------------------------------------------------------------
(* Faulty variants, one slip each. *)

\* The launched host of the runtime is not looked up.
LookupMissing(c) ==
    /\ call[c] = "locked"
    /\ \/ Goto(c, "exec") /\ UNCHANGED mu
       \/ Goto(c, "failed") /\ mu' = None
    /\ UNCHANGED <<proc, langs, once, hcloser, closing, late>>

\* A launch that fails after the exec leaves the process.
LaunchFailsLeaving(c) ==
    /\ call[c] \in {"port", "dial", "test"}
    /\ Goto(c, "failed")
    /\ mu' = None
    /\ UNCHANGED <<proc, langs, once, hcloser, closing, late>>

-----------------------------------------------------------------------------
(* LanguageRuntime. *)

\* Without an environment overlay, or with a host to attach to, the default
\* host does the work.
Delegate(c) ==
    /\ call[c] = "idle"
    /\ Goto(c, "delegated")
    /\ UNCHANGED <<mu, proc, langs, once, hcloser, closing, late>>

Lock(c) ==
    /\ call[c] = "idle"
    /\ mu = None
    /\ mu' = c
    /\ Goto(c, "locked")
    /\ UNCHANGED <<proc, langs, once, hcloser, closing, late>>

\* One that is there is returned; otherwise the binary is located, or not.
Lookup(c) ==
    /\ call[c] = "locked"
    /\ \/ /\ langs[RuntimeOf[c]] # None
          /\ Goto(c, "alive")
          /\ mu' = None
       \/ /\ langs[RuntimeOf[c]] = None
          /\ \/ Goto(c, "exec") /\ UNCHANGED mu
             \/ Goto(c, "failed") /\ mu' = None
    /\ UNCHANGED <<proc, langs, once, hcloser, closing, late>>

\* plugin.ExecPlugin (external).
ExecPlugin(c) ==
    /\ call[c] = "exec"
    /\ \/ /\ proc' = [proc EXCEPT ![c] = "up"]
          /\ late' = IF once \in {"swapped", "done"} THEN late \cup {c} ELSE late
          /\ Goto(c, "port")
          /\ UNCHANGED mu
       \/ /\ Goto(c, "failed")
          /\ mu' = None
          /\ UNCHANGED <<proc, late>>
    /\ UNCHANGED <<langs, once, hcloser, closing>>

\* The process dies by itself.
Dies(c) ==
    /\ proc[c] = "up"
    /\ proc' = [proc EXCEPT ![c] = "dead"]
    /\ UNCHANGED <<mu, call, langs, once, hcloser, closing, late>>

\* It announced a port that parsePort takes, ...
ReadPort(c) ==
    /\ call[c] = "port"
    /\ proc[c] = "up"
    /\ Goto(c, "dial")
    /\ UNCHANGED <<mu, proc, langs, once, hcloser, closing, late>>

\* ... the connection to it got ready, ...
DialReady(c) ==
    /\ call[c] = "dial"
    /\ proc[c] = "up"
    /\ Goto(c, "test")
    /\ UNCHANGED <<mu, proc, langs, once, hcloser, closing, late>>

\* ... and the test call came back: the process answered, or it did not and
\* the deadline passed, which testConnection takes for an answer too.
TestConnection(c) ==
    /\ call[c] = "test"
    /\ langs' = [langs EXCEPT ![RuntimeOf[c]] = c]
    /\ Goto(c, "alive")
    /\ mu' = None
    /\ UNCHANGED <<proc, once, hcloser, closing, late>>

\* Each of these may fail: no port line, a bad one, a connection that is not
\* ready in time, an unknown error.  The process is killed or closed by the
\* deferred function, and waited for.
LaunchFails(c) ==
    /\ call[c] \in {"port", "dial", "test"}
    /\ proc' = Reaped({c})
    /\ Goto(c, "failed")
    /\ mu' = None
    /\ UNCHANGED <<langs, once, hcloser, closing, late>>

-----------------------------------------------------------------------------
(* Close. *)

\* once.Do: the first call works, the others wait for it.
HostClose(k) ==
    /\ hcloser[k] = "idle"
    /\ hcloser' = [hcloser EXCEPT ![k] = IF once = "no" THEN "first" ELSE "waiting"]
    /\ once' = IF once = "no" THEN "taken" ELSE once
    /\ UNCHANGED <<mu, call, proc, langs, closing, late>>

\* The map is taken under the mutex, ...
TakeLangs(k) ==
    /\ hcloser[k] = "first"
    /\ once = "taken"
    /\ mu = None
    /\ closing' = {langs[r] : r \in Runtimes} \ {None}
    /\ langs' = [r \in Runtimes |-> None]
    /\ once' = "swapped"
    /\ UNCHANGED <<mu, call, proc, hcloser, late>>

\* ... and the processes stopped one by one.
ClosePlugin(k) ==
    /\ hcloser[k] = "first"
    /\ once = "swapped"
    /\ \E c \in closing :
        /\ proc' = Reaped({c})
        /\ closing' = closing \ {c}
    /\ UNCHANGED <<mu, call, langs, once, hcloser, late>>

\* Then the default host.
HostClosed(k) ==
    /\ hcloser[k] = "first"
    /\ once = "swapped"
    /\ closing = {}
    /\ once' = "done"
    /\ hcloser' = [hcloser EXCEPT ![k] = "returned"]
    /\ UNCHANGED <<mu, call, proc, langs, closing, late>>

OnceReturns(k) ==
    /\ hcloser[k] = "waiting"
    /\ once = "done"
    /\ hcloser' = [hcloser EXCEPT ![k] = "returned"]
    /\ UNCHANGED <<mu, call, proc, langs, once, closing, late>>

-----------------------------------------------------------------------------

LaunchStep(c) ==
    \/ Lookup(c) \/ ExecPlugin(c) \/ ReadPort(c) \/ DialReady(c) \/ TestConnection(c)
    \/ LaunchFails(c)

\* What a launch does by itself.  The exec, the dial and the test call come to
\* an end, the dial because it has a deadline; the read of the port has none
\* (launch.go:173) and ends only when the process prints or dies.
LaunchGoesOn(c) == (call[c] = "port" => proc[c] = "dead") /\ LaunchStep(c)

CloseStep(k) == TakeLangs(k) \/ ClosePlugin(k) \/ HostClosed(k) \/ OnceReturns(k)

Next ==
    \/ \E c \in Callers : Delegate(c) \/ Lock(c) \/ LaunchStep(c) \/ Dies(c)
    \/ \E k \in HostClosers : HostClose(k) \/ CloseStep(k)

\* No process is left when Close has returned and no launch is under way,
\* whatever failed in between and however the launches and Close met, except
\* one that was launched after Close took the others, which nobody stops
\* (launch.go:69, "The caller owns the plugin and must Close it").
NothingLeftRunning ==
    once = "done" /\ mu = None =>
        \A c \in Callers \ late : proc[c] \in {"none", "reaped"}

\* Until Close, a runtime has one process: calls that ask for the same one at
\* once share it (pluginhost.go:129, the lookup under the mutex).
OneHostPerRuntime ==
    once \in {"no", "taken"} =>
        \A c, d \in Callers :
            /\ RuntimeOf[c] = RuntimeOf[d]
            /\ proc[c] \in {"up", "dead"}
            /\ proc[d] \in {"up", "dead"}
            => c = d

=============================================================================
