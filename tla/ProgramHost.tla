---------------------------- MODULE ProgramHost ----------------------------
(***************************************************************************)
(* The program of an operation (src/engine/program.go) and what serves it: *)
(* a Go function runs in a server of this process that belongs to the      *)
(* operation, a callback program in a server of the caller that other      *)
(* operations may use too, a local program in a language host launched by  *)
(* the operation's plugin host.  execute's deferred calls close the host   *)
(* before the program.                                                     *)
(***************************************************************************)
EXTENDS Naturals

CONSTANTS
    Runs, Closers,        \* as in LanguageServer
    OwnRun, OwnCloser,    \* the operation's own Run and Close
    Callers, Runtimes, RuntimeOf, HostClosers, None  \* as in PluginHost

ASSUME ProgramHostAssumption ==
    /\ OwnRun \in Runs
    /\ OwnCloser \in Closers
    /\ RuntimeOf \in [Callers -> Runtimes]
    /\ None \notin Callers

VARIABLES
    program,   \* "none", "failed", or the mode of the prepared program
    state, run, closer, cancel, grpc,
    mu, call, proc, langs, once, hcloser, closing, late

LS == INSTANCE LanguageServer
PH == INSTANCE PluginHost

serverVars == <<state, run, closer, cancel, grpc>>
hostVars   == <<mu, call, proc, langs, once, hcloser, closing, late>>
vars       == <<program, serverVars, hostVars>>

Init ==
    /\ program = "none"
    /\ LS!Init
    /\ PH!Init

-----------------------------------------------------------------------------
(* prepare, one action per kind of program. *)

PrepareFails ==
    /\ program = "none"
    /\ program' = "failed"
    /\ UNCHANGED <<serverVars, hostVars>>

\* GoProgram starts the server; ServeGoProgram has started the callback one.
PrepareServed ==
    /\ program = "none"
    /\ program' \in {"go", "callback"}
    /\ UNCHANGED <<serverVars, hostVars>>

\* LocalProgram: the project matches, and the language host is there or was
\* installed.
PrepareLocal ==
    /\ program = "none"
    /\ program' = "local"
    /\ UNCHANGED <<serverVars, hostVars>>

-----------------------------------------------------------------------------
(* While the program is in use. *)

Prepared == program \notin {"none", "failed"}

\* The server of a Go program has one Run and one Close, which comes after
\* the host's; a callback server has those of all who use it.
RunProgram   == program = "go" /\ LS!Run(OwnRun)
CloseProgram == program = "go" /\ once = "done" /\ LS!Close(OwnCloser)

UseCallback ==
    /\ program = "callback"
    /\ (\E r \in Runs : LS!Run(r)) \/ (\E c \in Closers : LS!Close(c))

ServerGoesOn ==
    \/ \E r \in Runs : LS!RunStep(r)
    \/ \E c \in Closers : LS!CloserStep(c)
    \/ LS!Stopped

ServerStep == RunProgram \/ CloseProgram \/ UseCallback \/ ServerGoesOn

\* Only a local program has a language host; every operation closes its host
\* (one that failed before it had a host has launched nothing).
LanguageRuntime ==
    /\ program = "local"
    /\ \E c \in Callers : PH!Delegate(c) \/ PH!Lock(c)

CloseHost(k) == Prepared /\ PH!HostClose(k)

HostGoesOn ==
    \/ \E c \in Callers : PH!LaunchStep(c) \/ PH!Dies(c)
    \/ \E k \in HostClosers : PH!CloseStep(k)

HostStep == LanguageRuntime \/ (\E k \in HostClosers : CloseHost(k)) \/ HostGoesOn

Next ==
    \/ PrepareFails \/ PrepareServed \/ PrepareLocal
    \/ ServerStep /\ UNCHANGED <<program, hostVars>>
    \/ HostStep /\ UNCHANGED <<program, serverVars>>

\* Goroutines run, and a Go mutex does not starve the ones that wait for it.
\* A program need not end, and a language host need not print its port: both
\* are code of others, and nothing here bounds the wait for them.
Fairness ==
    /\ \A r \in Runs : WF_vars(LS!Broadcast(r) /\ UNCHANGED <<program, hostVars>>)
    /\ \A c \in Closers : WF_vars(LS!CloserStep(c) /\ UNCHANGED <<program, hostVars>>)
    /\ WF_vars(LS!Stopped /\ UNCHANGED <<program, hostVars>>)
    /\ \A c \in Callers : WF_vars(PH!LaunchGoesOn(c) /\ UNCHANGED <<program, serverVars>>)
    /\ \A k \in HostClosers : SF_vars(PH!CloseStep(k) /\ UNCHANGED <<program, serverVars>>)

Spec == Init /\ [][Next]_vars /\ Fairness

-----------------------------------------------------------------------------
(* Properties, from the parts. *)

\* LanguageServer: a Close that waited has left no program running.
ClosedMeansIdle == LS!ClosedMeansIdle

\* PluginHost: no process is left behind.
NothingLeftRunning == PH!NothingLeftRunning

\* PluginHost: one process per runtime.
OneHostPerRuntime == PH!OneHostPerRuntime

\* The deferred calls of execute come to an end, unless code of others never
\* does: every Close of the host returns, also one that meets launches or
\* another Close, unless a language host that was launched neither prints its
\* port nor dies, since the launch holds the mutex that Close needs
\* (pluginhost.go:127 and 207); so does a Close of a program's server, unless
\* a program goes on for ever (langserver.go:110).
ClosesReturn ==
    /\ \A k \in HostClosers :
        hcloser[k] # "idle" ~>
            (hcloser[k] = "returned" \/ [](\E c \in Callers : call[c] = "port"))
    /\ LS!SomeCloseReturns

=============================================================================
