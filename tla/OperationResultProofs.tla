------------------------ MODULE OperationResultProofs ------------------------
(***************************************************************************)
(* Proofs about OperationResult, for any requests, resources and events.   *)
(***************************************************************************)
EXTENDS OperationResult, SequenceTheorems, TLAPS

\* The lists of cases are short, so that the first case that applies exists.
LEMMA MinIs ==
    ASSUME NEW S \in SUBSET (1..10), S # {}
    PROVE  Min(S) \in S /\ \A n \in S : Min(S) <= n
<1>1. PICK m \in S : \A n \in S : m <= n
  <2> SUFFICES ASSUME \A m \in S : \E n \in S : n < m PROVE FALSE
    OBVIOUS
  <2>1. 1 \notin S   OBVIOUS
  <2>2. 2 \notin S   BY <2>1
  <2>3. 3 \notin S   BY <2>1, <2>2
  <2>4. 4 \notin S   BY <2>1, <2>2, <2>3
  <2>5. 5 \notin S   BY <2>1, <2>2, <2>3, <2>4
  <2>6. 6 \notin S   BY <2>1, <2>2, <2>3, <2>4, <2>5
  <2>7. 7 \notin S   BY <2>1, <2>2, <2>3, <2>4, <2>5, <2>6
  <2>8. 8 \notin S   BY <2>1, <2>2, <2>3, <2>4, <2>5, <2>6, <2>7
  <2>9. 9 \notin S   BY <2>1, <2>2, <2>3, <2>4, <2>5, <2>6, <2>7, <2>8
  <2>10. 10 \notin S BY <2>1, <2>2, <2>3, <2>4, <2>5, <2>6, <2>7, <2>8, <2>9
  <2>11. PICK x \in 1..10 : x \in S
    OBVIOUS
  <2>12. \/ x = 1 \/ x = 2 \/ x = 3 \/ x = 4 \/ x = 5
         \/ x = 6 \/ x = 7 \/ x = 8 \/ x = 9 \/ x = 10
    OBVIOUS
  <2> QED
    BY <2>1, <2>2, <2>3, <2>4, <2>5, <2>6, <2>7, <2>8, <2>9, <2>10, <2>11, <2>12
<1> QED
  BY <1>1 DEF Min

\* FirstCase returns a type that the chain has, or otherwise none applies.
LEMMA FirstCaseIs ==
    ASSUME NEW n \in 1..10, NEW cases, DOMAIN cases = 1..n, NEW chain, NEW otherwise
    PROVE  LET c == FirstCase(cases, chain, otherwise)
           IN  \/ c = otherwise /\ \A i \in 1..n : ~Has(chain, cases[i])
               \/ Has(chain, c) /\ \E i \in 1..n : c = cases[i]
<1> DEFINE hits == {i \in DOMAIN cases : Has(chain, cases[i])}
<1>1. CASE hits = {}
  BY <1>1 DEF FirstCase
<1>2. CASE hits # {}
  <2>1. hits \in SUBSET (1..10)
    OBVIOUS
  <2>2. Min(hits) \in hits
    BY <1>2, <2>1, MinIs
  <2> QED
    BY <1>2, <2>2 DEF FirstCase
<1> QED
  BY <1>1, <1>2

\* The error types of the library, as KindOf asks for them.
KindTypes == {"InvalidSpec", "PlanViolation", "ResourceOpFailed", "ProgramFailed",
              "ConcurrentUpdate", "StackNotFound", "StackExists", "PendingOperations",
              "Cancelled", "Unsupported"}

\* KindOf finds a type of the library if the chain has one.
LEMMA KindIs ==
    ASSUME NEW chain
    PROVE  LET kind == KindOf(chain)
           IN  \/ kind = "Unclassified" /\ \A t \in KindTypes : ~Has(chain, t)
               \/ kind \in KindTypes /\ Has(chain, kind)
<1> DEFINE cases == <<"InvalidSpec", "PlanViolation", "ResourceOpFailed", "ProgramFailed",
                      "ConcurrentUpdate", "StackNotFound", "StackExists", "PendingOperations",
                      "Cancelled", "Unsupported">>
<1>1. DOMAIN cases = 1..10
  OBVIOUS
<1>2. \A i \in 1..10 : cases[i] \in KindTypes
  BY DEF KindTypes
<1>3. \A t \in KindTypes : \E i \in 1..10 : cases[i] = t
  <2>1. /\ cases[1] = "InvalidSpec" /\ cases[2] = "PlanViolation"
        /\ cases[3] = "ResourceOpFailed" /\ cases[4] = "ProgramFailed"
        /\ cases[5] = "ConcurrentUpdate" /\ cases[6] = "StackNotFound"
        /\ cases[7] = "StackExists" /\ cases[8] = "PendingOperations"
        /\ cases[9] = "Cancelled" /\ cases[10] = "Unsupported"
    OBVIOUS
  <2> HIDE DEF cases
  <2> QED
    BY <2>1 DEF KindTypes
<1>4. KindOf(chain) = FirstCase(cases, chain, "Unclassified")
  BY DEF KindOf
<1> HIDE DEF cases
<1>5. \/ /\ KindOf(chain) = "Unclassified"
         /\ \A i \in 1..10 : ~Has(chain, cases[i])
      \/ /\ Has(chain, KindOf(chain))
         /\ \E i \in 1..10 : KindOf(chain) = cases[i]
  BY <1>1, <1>4, FirstCaseIs
<1> QED
  BY <1>2, <1>3, <1>5

\* errorJSON finds a type of the library too, or none.
LEMMA JSONIs ==
    ASSUME NEW chain
    PROVE  LET type == errorJSON(chain)
           IN  type = "none" \/ (type \in KindTypes /\ Has(chain, type))
<1> DEFINE cases == <<"InvalidSpec", "PlanViolation", "ResourceOpFailed", "PendingOperations",
                      "StackNotFound", "StackExists", "Cancelled", "Unsupported">>
<1>1. DOMAIN cases = 1..8
  OBVIOUS
<1>2. \A i \in 1..8 : cases[i] \in KindTypes
  BY DEF KindTypes
<1>3. errorJSON(chain) = FirstCase(cases, chain, "none")
  BY DEF errorJSON
<1> HIDE DEF cases
<1>4. \/ errorJSON(chain) = "none"
      \/ /\ Has(chain, errorJSON(chain))
         /\ \E i \in 1..8 : errorJSON(chain) = cases[i]
  BY <1>1, <1>3, FirstCaseIs
<1> QED
  BY <1>2, <1>4

\* The types classifyOperationError chooses from.
Classes == {"nil", "Cancelled", "ConcurrentUpdate", "PendingOperations", "PlanViolation",
            "ResourceOpFailed", "ProgramFailed", "Unclassified"}

\* What is known of the recorded state when a type is chosen.
LEMMA ClassifyCases ==
    LET type == classifyOperationError IN
    /\ type \in Classes
    /\ type = "ConcurrentUpdate" =>
          Has(raw, "conflict") \/ Has(raw, "locked")
    /\ type = "PendingOperations" => Has(raw, "pending")
    /\ type = "PlanViolation" => planViolations # {}
    /\ type = "ProgramFailed" => failures = <<>>
<1> DEFINE b1 == raw = nil
           b2 == cancelled \/ Has(raw, "context.Canceled")
           b3 == Has(raw, "conflict") \/ isLockError(raw)
           b4 == Has(raw, "backendCancelled")
           b5 == Has(raw, "pending")
           b6 == planViolations # {}
           b7 == failures # <<>>
           b8 == errorDiags # {}
           cases == << <<"nil", b1>>, <<"Cancelled", b2>>, <<"ConcurrentUpdate", b3>>,
                       <<"Cancelled", b4>>, <<"PendingOperations", b5>>,
                       <<"PlanViolation", b6>>, <<"ResourceOpFailed", b7>>,
                       <<"ProgramFailed", b8>>, <<"Unclassified", TRUE>> >>
           S == {i \in DOMAIN cases : cases[i][2]}
           type == classifyOperationError
<1>1. type = cases[Min(S)][1]
  BY Zenon DEF classifyOperationError
<1>2. /\ b1 \in BOOLEAN /\ b2 \in BOOLEAN /\ b3 \in BOOLEAN /\ b4 \in BOOLEAN
      /\ b5 \in BOOLEAN /\ b6 \in BOOLEAN /\ b7 \in BOOLEAN /\ b8 \in BOOLEAN
  <2>1. b1 \in BOOLEAN OBVIOUS
  <2>2. b2 \in BOOLEAN OBVIOUS
  <2>3. b3 \in BOOLEAN OBVIOUS
  <2>4. b4 \in BOOLEAN BY Zenon DEF Has
  <2>5. b5 \in BOOLEAN BY Zenon DEF Has
  <2>6. b6 \in BOOLEAN OBVIOUS
  <2>7. b7 \in BOOLEAN OBVIOUS
  <2>8. b8 \in BOOLEAN OBVIOUS
  <2> QED
    BY <2>1, <2>2, <2>3, <2>4, <2>5, <2>6, <2>7, <2>8
<1> HIDE DEF b1, b2, b3, b4, b5, b6, b7, b8, type
<1>3. DOMAIN cases = 1..9
  OBVIOUS
<1>4. /\ cases[3][2] = b3 /\ cases[5][2] = b5 /\ cases[6][2] = b6
      /\ cases[7][2] = b7 /\ cases[9][2] = TRUE
  BY <1>2
<1>5. \A i \in 1..9 : cases[i][1] \in Classes
  BY <1>2 DEF Classes
<1>6. \A i \in 1..9 : /\ cases[i][1] = "ConcurrentUpdate" => i = 3
                      /\ cases[i][1] = "PendingOperations" => i = 5
                      /\ cases[i][1] = "PlanViolation" => i = 6
                      /\ cases[i][1] = "ProgramFailed" => i = 8
  BY <1>2
<1> HIDE DEF cases
<1>7. 9 \in S
  BY <1>3, <1>4
<1>8. S \in SUBSET (1..10)
  BY <1>3
<1>9. PICK m \in S : m = Min(S) /\ \A n \in S : m <= n
  BY <1>7, <1>8, MinIs
<1>10. m \in 1..9 /\ cases[m][2]
  BY <1>3, Zenon
<1>11. (m = 3 => b3) /\ (m = 5 => b5) /\ (m = 6 => b6)
  BY <1>4, <1>10, Zenon
<1>12. m = 8 => ~b7
  <2> SUFFICES ASSUME m = 8, b7 PROVE FALSE
    OBVIOUS
  <2>1. 7 \in DOMAIN cases
    BY <1>3
  <2>2. 7 \in S
    BY <1>4, <2>1, Zenon
  <2> QED
    BY <1>9, <2>2
<1>13. type = cases[m][1]
  BY <1>1, <1>9, Zenon
<1>14. type \in Classes
  BY <1>5, <1>10, <1>13, Zenon
<1>15. /\ type = "ConcurrentUpdate" => m = 3
       /\ type = "PendingOperations" => m = 5
       /\ type = "PlanViolation" => m = 6
       /\ type = "ProgramFailed" => m = 8
  <2>1. /\ cases[m][1] = "ConcurrentUpdate" => m = 3
        /\ cases[m][1] = "PendingOperations" => m = 5
        /\ cases[m][1] = "PlanViolation" => m = 6
        /\ cases[m][1] = "ProgramFailed" => m = 8
    BY <1>6, <1>10, Zenon
  <2> QED
    BY <1>13, <2>1, Zenon
<1>16. /\ type = "ConcurrentUpdate" => b3
       /\ type = "PendingOperations" => b5
       /\ type = "PlanViolation" => b6
       /\ type = "ProgramFailed" => ~b7
  BY <1>11, <1>12, <1>15, Zenon
<1> QED
  BY <1>14, <1>16, Zenon DEF type, b3, b5, b6, b7, isLockError

-----------------------------------------------------------------------------
\* The states of run: before the engine, and once an error is set.
Early  == {"validate", "lock", "prepare", "host", "backend"}
Ending == {"closing", "release", "finish", "classify", "done"}

\* The errors execute returns, and those that refuse the operation.
RawErrs  == {<<>>, <<"InvalidSpec">>, <<"ConcurrentUpdate", "text">>, <<"text">>,
             <<"Unclassified", "text">>, <<"conflict">>, <<"locked">>, <<"pending">>,
             <<"backendCancelled">>, <<"context.Canceled">>}
Refusals == {<<"InvalidSpec">>, <<"ConcurrentUpdate", "text">>, <<"conflict">>, <<"locked">>}

Checkpoints == [version : Nat, pending : SUBSET URNs]
Failures    == [urn : URNs, messages : Seq(Texts)]

(***************************************************************************)
(* ResultInv holds throughout: an error is set only on the way out, and    *)
(* one that refuses the operation before a step was taken; a plan is in    *)
(* force only for an Up; finish copies the failures with their messages;   *)
(* the checkpoint is the operation's own last one until somebody meddles,  *)
(* and never older.                                                        *)
(***************************************************************************)
RunInv ==
    /\ pc \in Early \cup {"engine", "plan", "outputs"} \cup Ending
    /\ raw \in RawErrs
    /\ pc \notin Ending => raw = <<>>
    /\ DOMAIN result = {"failures", "cancelled", "outputs", "plan"}

UntouchedInv ==
    /\ pc \in Early \/ req.kind = "preview" \/ raw \in Refusals => steps = 0
    /\ pc = "plan" => req.kind = "preview"
    /\ pc \in Early => ~ran
    /\ raw \in Refusals /\ ran =>
          raw = <<"InvalidSpec">> /\ req.kind = "preview" /\ req.savePlan = "path"

PlanInv ==
    /\ pc \in {"lock", "prepare", "host"} => validatePlanOptions(req)
    /\ planned => req.kind = "up" /\ req.plan # "none"

NotesInv ==
    /\ failures \in Seq(Failures)
    /\ urnDiags \in [Diagnosed -> Seq(Texts)]
    /\ pc \in {"classify", "done"} =>
          /\ result.failures = failures
          /\ \A i \in DOMAIN failures : failures[i].messages = urnDiags[failures[i].urn]

ReadInv ==
    /\ ckpt \in Checkpoints /\ own \in Checkpoints
    /\ own.version <= ckpt.version
    /\ ~meddled /\ pc # "engine" => ckpt = own
    /\ pc \in Early \cup {"engine"} => result.outputs = {} /\ ~meddled
    /\ \A v \in result.outputs : v \in Nat /\ v >= own.version

ResultInv == RunInv /\ UntouchedInv /\ PlanInv /\ NotesInv /\ ReadInv

\* Errors that refuse the operation are returned before the engine runs.
LEMMA RunStep == ResultInv /\ [Next]_vars => RunInv' /\ UntouchedInv'
<1> SUFFICES ASSUME ResultInv, [Next]_vars PROVE RunInv' /\ UntouchedInv'
  OBVIOUS
<1> USE DEF ResultInv, RunInv, UntouchedInv, Early, Ending, Goto, Return,
            ReturnHosted, worldVars, noteVars, nil
<1>1. CASE Validate        BY <1>1 DEF Validate, RawErrs, Refusals
<1>2. CASE TryLock         BY <1>2 DEF TryLock, RawErrs, Refusals
<1>3. CASE Prepare         BY <1>3 DEF Prepare, RawErrs, Refusals
<1>4. CASE LoadPlan        BY <1>4 DEF LoadPlan, RawErrs, Refusals
<1>5. CASE BackendRefuses  BY <1>5 DEF BackendRefuses, RawErrs, Refusals
<1>6. CASE EngineStarts    BY <1>6 DEF EngineStarts, RawErrs, Refusals
<1>7. CASE EngineStep      BY <1>7 DEF EngineStep, RawErrs, Refusals
<1>8. CASE EngineReturns   BY <1>8 DEF EngineReturns, RawErrs, Refusals
<1>9. CASE SavePlan        BY <1>9 DEF SavePlan, RawErrs, Refusals
<1>10. CASE ReadOutputs
  BY <1>10 DEF ReadOutputs, OutputsFail, RawErrs, Refusals
<1>11. CASE CloseHost      BY <1>11 DEF CloseHost
<1>12. CASE Release        BY <1>12 DEF Release
<1>13. CASE Fill           BY <1>13 DEF Fill
<1>14. CASE Classify       BY <1>14 DEF Classify
<1>15. CASE HandleFailure  BY <1>15 DEF HandleFailure
<1>16. CASE HandleDiagnostic BY <1>16 DEF HandleDiagnostic
<1>17. CASE Cancel         BY <1>17 DEF Cancel
<1>18. CASE Neighbour      BY <1>18 DEF Neighbour
<1>19. CASE UNCHANGED vars BY <1>19 DEF vars
<1> QED
  BY <1>1, <1>2, <1>3, <1>4, <1>5, <1>6, <1>7, <1>8, <1>9, <1>10, <1>11, <1>12, <1>13, <1>14,
     <1>15, <1>16, <1>17, <1>18, <1>19 DEF Next

\* Options are validated before a plan is loaded.
LEMMA PlanStep == ResultInv /\ [Next]_vars => PlanInv'
<1> SUFFICES ASSUME ResultInv, [Next]_vars PROVE PlanInv'
  OBVIOUS
<1> USE DEF ResultInv, PlanInv, validatePlanOptions, Goto, Return,
            ReturnHosted, worldVars, noteVars
<1>1. CASE Validate        BY <1>1 DEF Validate
<1>2. CASE TryLock         BY <1>2 DEF TryLock
<1>3. CASE Prepare         BY <1>3 DEF Prepare
<1>4. CASE LoadPlan        BY <1>4 DEF LoadPlan
<1>5. CASE BackendRefuses \/ EngineStarts \/ EngineStep
             \/ EngineReturns \/ SavePlan \/ ReadOutputs
  BY <1>5 DEF BackendRefuses, EngineStarts, EngineStep,
              EngineReturns, SavePlan, ReadOutputs, OutputsFail
<1>6. CASE CloseHost \/ Release \/ Fill \/ Classify
  BY <1>6 DEF CloseHost, Release, Fill, Classify
<1>7. CASE HandleFailure \/ HandleDiagnostic \/ Cancel \/ Neighbour
  BY <1>7 DEF HandleFailure, HandleDiagnostic, Cancel, Neighbour
<1>8. CASE UNCHANGED vars  BY <1>8 DEF vars
<1> QED
  BY <1>1, <1>2, <1>3, <1>4, <1>5, <1>6, <1>7, <1>8 DEF Next

\* Nothing is recorded once finish has filled in the failures' messages.
LEMMA NotesStep == ResultInv /\ [Next]_vars => NotesInv'
<1> SUFFICES ASSUME ResultInv, [Next]_vars PROVE NotesInv'
  OBVIOUS
<1> USE DEF ResultInv, NotesInv, Goto, Return, ReturnHosted,
            worldVars, noteVars
<1>1. CASE Validate \/ TryLock \/ Prepare \/ LoadPlan
  BY <1>1 DEF Validate, TryLock, Prepare, LoadPlan
<1>2. CASE BackendRefuses \/ EngineStarts \/ EngineStep
             \/ EngineReturns \/ SavePlan \/ ReadOutputs
  BY <1>2 DEF BackendRefuses, EngineStarts, EngineStep,
              EngineReturns, SavePlan, ReadOutputs, OutputsFail
<1>3. CASE CloseHost \/ Release \/ Cancel \/ Neighbour
  BY <1>3 DEF CloseHost, Release, Cancel, Neighbour
<1>4. CASE Fill
  <2>1. /\ failures' = [i \in DOMAIN failures |->
                           [failures[i] EXCEPT !.messages = urnDiags[failures[i].urn]]]
        /\ urnDiags' = urnDiags /\ pc' = "classify"
        /\ result' = [result EXCEPT !.failures = failures']
    BY <1>4 DEF Fill
  <2>2. \A i \in DOMAIN failures : failures[i] \in Failures
    BY ElementOfSeq, LenProperties
  <2>3. ASSUME NEW i \in DOMAIN failures
        PROVE  /\ failures'[i] \in Failures
               /\ failures'[i].messages = urnDiags[failures'[i].urn]
    <3>1. failures[i].urn \in Diagnosed
      BY <2>2 DEF Failures, Diagnosed
    <3>2. urnDiags[failures[i].urn] \in Seq(Texts)
      BY <3>1
    <3>3. failures'[i] = [failures[i] EXCEPT !.messages = urnDiags[failures[i].urn]]
      BY <2>1
    <3> QED
      BY <2>2, <3>2, <3>3 DEF Failures
  <2>4. failures' \in Seq(Failures)
    <3>1. Len(failures) \in Nat /\ DOMAIN failures = 1..Len(failures)
      BY LenProperties
    <3>2. failures' \in [1..Len(failures) -> Failures]
      BY <2>1, <2>3, <3>1
    <3> QED
      BY <3>1, <3>2, SeqDef
  <2>5. result'.failures = failures'
    BY <2>1 DEF RunInv
  <2> QED
    BY <2>1, <2>3, <2>4, <2>5
<1>5. CASE Classify
  <2>1. UNCHANGED <<failures, urnDiags>> /\ pc = "classify"
    BY <1>5 DEF Classify
  <2>2. result'.failures = result.failures
    BY <1>5 DEF Classify, RunInv
  <2> QED
    BY <2>1, <2>2
<1>6. CASE HandleFailure
  <2>1. PICK u \in URNs : failures' = Append(failures, [urn |-> u, messages |-> <<>>])
    BY <1>6 DEF HandleFailure
  <2>2. [urn |-> u, messages |-> <<>>] \in Failures
    BY DEF Failures
  <2>3. failures' \in Seq(Failures)
    BY <2>1, <2>2, AppendProperties
  <2> QED
    BY <1>6, <2>3 DEF HandleFailure
<1>7. CASE HandleDiagnostic
  BY <1>7 DEF HandleDiagnostic
<1>8. CASE UNCHANGED vars
  BY <1>8 DEF vars
<1> QED
  BY <1>1, <1>2, <1>3, <1>4, <1>5, <1>6, <1>7, <1>8 DEF Next

\* The outputs are read from the stack as it is after the operation.
LEMMA ReadStep == ResultInv /\ [Next]_vars => ReadInv'
<1> SUFFICES ASSUME ResultInv, [Next]_vars PROVE ReadInv'
  OBVIOUS
<1> USE DEF ResultInv, ReadInv, Checkpoints, Early, Goto, Return,
            ReturnHosted, worldVars, noteVars
<1>1. CASE Validate \/ TryLock \/ Prepare \/ LoadPlan
  BY <1>1 DEF Validate, TryLock, Prepare, LoadPlan
<1>2. CASE BackendRefuses  BY <1>2 DEF BackendRefuses
<1>3. CASE EngineStarts    BY <1>3 DEF EngineStarts
<1>4. CASE EngineStep      BY <1>4 DEF EngineStep
<1>5. CASE EngineReturns   BY <1>5 DEF EngineReturns
<1>6. CASE SavePlan
  <2>1. result'.outputs = result.outputs
    BY <1>6 DEF SavePlan, RunInv
  <2> QED
    BY <1>6, <2>1 DEF SavePlan
<1>7. CASE ReadOutputs
  <2>1. \A v \in result'.outputs : v \in result.outputs \/ v = ckpt.version
    BY <1>7 DEF ReadOutputs, freshStack, RunInv
  <2>2. UNCHANGED <<ckpt, own, meddled>> /\ pc = "outputs" /\ pc' = "closing"
    BY <1>7 DEF ReadOutputs, OutputsFail
  <2> QED
    BY <2>1, <2>2
<1>8. CASE CloseHost \/ Release
  BY <1>8 DEF CloseHost, Release
<1>9. CASE Fill \/ Classify
  <2>1. result'.outputs = result.outputs
    BY <1>9 DEF Fill, Classify, RunInv
  <2>2. UNCHANGED <<ckpt, own, meddled>> /\ pc \in {"finish", "classify"}
        /\ pc' \in {"classify", "done"}
    BY <1>9 DEF Fill, Classify
  <2> QED
    BY <2>1, <2>2
<1>10. CASE HandleFailure \/ HandleDiagnostic \/ Cancel
  BY <1>10 DEF HandleFailure, HandleDiagnostic, Cancel
<1>11. CASE Neighbour      BY <1>11 DEF Neighbour
<1>12. CASE UNCHANGED vars BY <1>12 DEF vars
<1> QED
  BY <1>1, <1>2, <1>3, <1>4, <1>5, <1>6, <1>7, <1>8, <1>9, <1>10, <1>11, <1>12 DEF Next

\* The invariant holds when run begins.
LEMMA ResultInit == Init => ResultInv
<1> SUFFICES ASSUME Init PROVE ResultInv
  OBVIOUS
<1> USE DEF Init, nil, NoResult
<1>1. RunInv
  BY DEF RunInv, Early, RawErrs
<1>2. UntouchedInv /\ PlanInv
  BY DEF UntouchedInv, PlanInv
<1>3. NotesInv
  BY DEF NotesInv
<1>4. ReadInv
  BY DEF ReadInv, Checkpoints
<1> QED
  BY <1>1, <1>2, <1>3, <1>4 DEF ResultInv

\* ResultInv is an invariant.
LEMMA ResultInvariant == Spec => []ResultInv
<1>1. ResultInv /\ [Next]_vars => ResultInv'
  BY RunStep, PlanStep, NotesStep, ReadStep DEF ResultInv
<1> QED
  BY <1>1, ResultInit, PTL DEF Spec

\* The types of the library in what execute returned.
LEMMA RawHas ==
    ASSUME raw \in RawErrs, NEW t \in KindTypes, Has(raw, t)
    PROVE  \/ t = "InvalidSpec" /\ raw = <<"InvalidSpec">>
           \/ t = "ConcurrentUpdate" /\ raw = <<"ConcurrentUpdate", "text">>
BY DEF RawErrs, KindTypes, Has

\* The types of the library in the error finish makes: the one it chose, or
\* that of a refusal it passes on, and never two.
LEMMA ChainHas ==
    ASSUME raw \in RawErrs
    PROVE  LET type  == classifyOperationError
               chain == ErrorOf(type).chain
           IN  \A t \in KindTypes : Has(chain, t) =>
                  \/ t = type
                  \/ /\ type = "Unclassified" /\ t = "InvalidSpec"
                     /\ raw = <<"InvalidSpec">>
                  \/ /\ type = "Unclassified" /\ t = "ConcurrentUpdate"
                     /\ raw = <<"ConcurrentUpdate", "text">>
<1> DEFINE type  == classifyOperationError
           chain == ErrorOf(type).chain
<1>1. /\ type \in Classes
      /\ type = "ConcurrentUpdate" =>
            Has(raw, "conflict") \/ Has(raw, "locked")
      /\ type = "PendingOperations" => Has(raw, "pending")
  BY ClassifyCases
<1>2. \/ type = "nil" /\ chain = <<>>
      \/ type \in {"ConcurrentUpdate", "PendingOperations", "Unclassified"}
         /\ chain = <<type>> \o raw
      \/ type \in Classes \ {"nil", "ConcurrentUpdate", "PendingOperations", "Unclassified"}
         /\ chain = <<type>>
  BY <1>1 DEF ErrorOf, nil, Classes
<1> HIDE DEF type, chain
<1>3. type = "ConcurrentUpdate" => raw \in {<<"conflict">>, <<"locked">>}
  BY <1>1 DEF RawErrs, Has
<1>4. type = "PendingOperations" => raw = <<"pending">>
  BY <1>1 DEF RawErrs, Has
<1>5. ASSUME NEW t \in KindTypes, Has(chain, t)
      PROVE  t = type \/ (type = "Unclassified" /\ Has(raw, t))
  <2>1. CASE type = "nil" /\ chain = <<>>
    BY <1>5, <2>1 DEF Has
  <2>2. CASE chain = <<type>>
    BY <1>5, <2>2 DEF Has
  <2>3. CASE type \in {"ConcurrentUpdate", "PendingOperations", "Unclassified"}
               /\ chain = <<type>> \o raw
    <3> DEFINE T == {"InvalidSpec", "ConcurrentUpdate", "PendingOperations", "Unclassified",
                     "text", "conflict", "locked", "pending", "backendCancelled",
                     "context.Canceled"}
    <3>1. raw \in Seq(T) /\ type \in T
      <4>1. type \in T
        BY <2>3
      <4>2. \A x, y \in T : <<>> \in Seq(T) /\ <<x>> \in Seq(T) /\ <<x, y>> \in Seq(T)
        OBVIOUS
      <4>3. /\ "InvalidSpec" \in T /\ "ConcurrentUpdate" \in T /\ "Unclassified" \in T
            /\ "text" \in T /\ "conflict" \in T /\ "locked" \in T /\ "pending" \in T
            /\ "backendCancelled" \in T /\ "context.Canceled" \in T
        OBVIOUS
      <4> HIDE DEF T
      <4> QED
        BY <4>1, <4>2, <4>3, Zenon DEF RawErrs
    <3>2. t = type \/ Has(raw, t)
      BY <1>5, <2>3, <3>1 DEF Has
    <3>3. type # "Unclassified" => ~Has(raw, t)
      BY <1>3, <1>4, <2>3 DEF Has, KindTypes
    <3> QED
      BY <2>3, <3>2, <3>3
  <2> QED
    BY <1>2, <2>1, <2>2, <2>3
<1> QED
  BY <1>5, RawHas DEF type, chain

\* What Classify leaves: the error of the chosen type, and for pending
\* operations what the checkpoint has by then.
LEMMA ClassifyLeaves ==
    ASSUME ResultInv, Classify
    PROVE  LET e == ErrorOf(classifyOperationError)
           IN  /\ err'.chain = e.chain
               /\ err'.failure = e.failure
               /\ err'.messages = e.messages
               /\ err'.read => err'.urns = ckpt.pending
<1> DEFINE e == ErrorOf(classifyOperationError)
<1>1. DOMAIN e = {"chain", "failure", "messages", "urns", "read"} /\ e.read = FALSE
  BY DEF ErrorOf
<1>2. \/ err' = [e EXCEPT !.urns = pendingOperationURNs, !.read = TRUE]
      \/ err' = e
  BY DEF Classify
<1>3. pendingOperationURNs = ckpt.pending
  BY DEF pendingOperationURNs, freshStack
<1> HIDE DEF e
<1> QED
  BY <1>1, <1>2, <1>3 DEF e

\* A state with pc = "done" is one that Classify has just left, or was there
\* before.
LEMMA DoneStays ==
    ASSUME [Next]_vars, pc' = "done", ~Classify
    PROVE  UNCHANGED vars
BY DEF Next, Validate, TryLock, Prepare, LoadPlan,
       BackendRefuses, EngineStarts, EngineStep, EngineReturns,
       SavePlan, ReadOutputs, OutputsFail, CloseHost,
       Release, Fill, HandleFailure, HandleDiagnostic,
       Cancel, Neighbour, Goto, Return, ReturnHosted

\* InvalidSpec and ConcurrentUpdate mean that this operation has changed
\* nothing and, but for a plan that could not be written, that its engine has
\* not run, for any requests, resources and number of changes.
THEOREM RefusalsUntouched == Spec => []RefusedMeansUntouched
<1>1. Init => RefusedMeansUntouched
  BY DEF Init, RefusedMeansUntouched
<1>2. ASSUME ResultInv, RefusedMeansUntouched, [Next]_vars
      PROVE  RefusedMeansUntouched'
  <2>1. CASE Classify
    <3> DEFINE type == classifyOperationError
               kind == KindOf(ErrorOf(type).chain)
    <3>1. err'.chain = ErrorOf(type).chain
      BY <1>2, <2>1, ClassifyLeaves
    <3>2. Kind' = kind
      BY <3>1 DEF Kind
    <3>3. UNCHANGED <<ran, steps, req>>
      BY <2>1 DEF Classify, worldVars
    <3>4. ASSUME kind \in {"InvalidSpec", "ConcurrentUpdate"}
          PROVE  /\ steps = 0
                 /\ ran => kind = "InvalidSpec" /\ req.kind = "preview" /\ req.savePlan = "path"
      <4>1. raw \in RawErrs
        BY <1>2 DEF ResultInv, RunInv
      <4>2. kind \in KindTypes /\ Has(ErrorOf(type).chain, kind)
        BY <3>4, KindIs
      <4>3. \/ kind = type
            \/ kind = "InvalidSpec" /\ raw = <<"InvalidSpec">>
            \/ kind = "ConcurrentUpdate" /\ raw = <<"ConcurrentUpdate", "text">>
        BY <4>1, <4>2, ChainHas
      <4>4. /\ type \in Classes
            /\ type = "ConcurrentUpdate" =>
                  Has(raw, "conflict") \/ Has(raw, "locked")
        BY ClassifyCases
      <4> HIDE DEF type, kind
      <4>5. raw \in Refusals /\ (raw = <<"InvalidSpec">> => kind = "InvalidSpec")
        BY <3>4, <4>1, <4>3, <4>4 DEF Classes, RawErrs, Refusals, Has
      <4> QED
        BY <1>2, <4>5 DEF ResultInv, UntouchedInv
    <3> HIDE DEF kind
    <3> QED
      BY <3>2, <3>3, <3>4 DEF RefusedMeansUntouched
  <2>2. CASE pc' = "done" /\ ~Classify
    <3>1. UNCHANGED vars
      BY <1>2, <2>2, DoneStays
    <3> QED
      BY <1>2, <3>1 DEF vars, RefusedMeansUntouched, Kind
  <2> QED
    BY <2>1, <2>2 DEF RefusedMeansUntouched
<1> QED
  BY <1>1, <1>2, ResultInvariant, PTL DEF Spec

\* The outputs of a result are at least as new as the operation's last write,
\* and the pending operations listed are the ones the backend refused, unless
\* another operation came in between.
THEOREM ReadsAreFresh == Spec => []FreshReads
<1>1. Init => FreshReads
  BY DEF Init, FreshReads
<1>2. ASSUME ResultInv, ResultInv', FreshReads, [Next]_vars
      PROVE  FreshReads'
  <2>1. CASE Classify
    <3>1. err'.read => err'.urns = ckpt.pending
      BY <1>2, <2>1, ClassifyLeaves
    <3>2. UNCHANGED <<own, ckpt, meddled>> /\ pc = "classify"
      BY <2>1 DEF Classify, worldVars
    <3>3. ~meddled => ckpt = own
      BY <1>2, <3>2 DEF ResultInv, ReadInv
    <3>4. \A v \in result'.outputs : v >= own'.version
      BY <1>2 DEF ResultInv, ReadInv
    <3> QED
      BY <3>1, <3>2, <3>3, <3>4 DEF FreshReads
  <2>2. CASE pc' = "done" /\ ~Classify
    <3>1. UNCHANGED vars
      BY <1>2, <2>2, DoneStays
    <3> QED
      BY <1>2, <3>1 DEF vars, FreshReads, Kind
  <2> QED
    BY <2>1, <2>2 DEF FreshReads
<1> QED
  BY <1>1, <1>2, ResultInvariant, PTL DEF Spec

\* The error names the first failure of the result with all its messages, a
\* failed program every diagnostic, a plan violation comes only from an Up
\* with a plan, and the JSON form has the fields of the kind it names, for any
\* resources and however failures and diagnostics interleave.
THEOREM ReportsAgree == Spec => []FailureReported
<1>1. Init => FailureReported
  BY DEF Init, FailureReported
<1>2. ASSUME ResultInv, ResultInv', FailureReported, [Next]_vars
      PROVE  FailureReported'
  <2>1. CASE Classify
    <3> DEFINE type  == classifyOperationError
               e     == ErrorOf(type)
               kind  == KindOf(e.chain)
    <3>1. err'.chain = e.chain /\ err'.failure = e.failure /\ err'.messages = e.messages
      BY <1>2, <2>1, ClassifyLeaves
    <3>2. Kind' = kind
      BY <3>1 DEF Kind
    <3>3. UNCHANGED <<req, planned, failures, urnDiags>> /\ pc' = "done"
      BY <2>1 DEF Classify, noteVars, Goto
    <3>4. /\ result'.failures = failures
          /\ \A i \in DOMAIN failures : failures[i].messages = urnDiags[failures[i].urn]
      BY <1>2, <3>3 DEF ResultInv, NotesInv
    <3>5. raw \in RawErrs
      BY <1>2 DEF ResultInv, RunInv
    <3>6. kind \in {"ResourceOpFailed", "ProgramFailed", "PlanViolation"} => kind = type
      <4>1. \/ kind = "Unclassified"
            \/ kind \in KindTypes /\ Has(e.chain, kind)
        BY KindIs
      <4>2. \A t \in KindTypes : Has(e.chain, t) =>
               t = type \/ t = "InvalidSpec" \/ t = "ConcurrentUpdate"
        BY <3>5, ChainHas
      <4> HIDE DEF kind, e, type
      <4> QED
        BY <4>1, <4>2
    <3>7. kind = "ResourceOpFailed" => err'.failure = <<Head(result'.failures)>>
      BY <3>1, <3>4, <3>6 DEF ErrorOf
    <3>8. kind = "ProgramFailed" => err'.messages = Messages(Diagnosed)
      <4> SUFFICES ASSUME kind = "ProgramFailed"
                   PROVE  err'.messages = Messages(Diagnosed)
        OBVIOUS
      <4>1. type = "ProgramFailed" /\ failures = <<>>
        BY <3>6, ClassifyCases
      <4>2. e.messages = errorDiags
        BY <4>1 DEF ErrorOf
      <4>3. Diagnosed \ {failures[i].urn : i \in DOMAIN failures} = Diagnosed
        <5>1. DOMAIN failures = {}
          BY <4>1
        <5> QED
          BY <5>1
      <4>4. errorDiags = Messages(Diagnosed)
        BY <4>3 DEF errorDiags
      <4> QED
        BY <3>1, <4>2, <4>4
    <3>9. kind = "PlanViolation" => req.kind = "up" /\ req.plan # "none"
      <4>1. kind = "PlanViolation" => planViolations # {}
        BY <3>6, ClassifyCases
      <4>2. planViolations # {} => planned
        BY DEF planViolations
      <4> QED
        BY <1>2, <4>1, <4>2 DEF ResultInv, PlanInv
    <3>10. errorJSON(e.chain) \in {kind, "none"}
      <4> DEFINE json == errorJSON(e.chain)
      <4>1. json = "none" \/ (json \in KindTypes /\ Has(e.chain, json))
        BY JSONIs
      <4>2. \/ kind = "Unclassified" /\ \A t \in KindTypes : ~Has(e.chain, t)
            \/ kind \in KindTypes /\ Has(e.chain, kind)
        BY KindIs
      <4>3. \A t \in KindTypes : Has(e.chain, t) =>
               \/ t = type
               \/ /\ type = "Unclassified" /\ t = "InvalidSpec"
                  /\ raw = <<"InvalidSpec">>
               \/ /\ type = "Unclassified" /\ t = "ConcurrentUpdate"
                  /\ raw = <<"ConcurrentUpdate", "text">>
        BY <3>5, ChainHas
      <4> HIDE DEF json, kind, e, type
      <4>4. \A s, t \in KindTypes :
               Has(e.chain, s) /\ Has(e.chain, t) => s = t
        <5>1. "Unclassified" \notin KindTypes
          BY DEF KindTypes
        <5>2. <<"InvalidSpec">> # <<"ConcurrentUpdate", "text">>
          OBVIOUS
        <5> QED
          BY <4>3, <5>1, <5>2
      <4> QED
        BY <4>1, <4>2, <4>4 DEF json
    <3>11. Messages(Diagnosed)' = Messages(Diagnosed)
      BY <3>3 DEF Messages, Diagnosed
    <3> HIDE DEF kind, e, type
    <3> QED
      BY <3>1, <3>2, <3>3, <3>4, <3>7, <3>8, <3>9, <3>10, <3>11 DEF FailureReported
  <2>2. CASE pc' = "done" /\ ~Classify
    <3>1. UNCHANGED vars
      BY <1>2, <2>2, DoneStays
    <3>2. Messages(Diagnosed)' = Messages(Diagnosed)
      BY <3>1 DEF vars, Messages, Diagnosed
    <3>3. err' = err /\ result' = result /\ urnDiags' = urnDiags /\ pc' = pc /\ req' = req
      BY <3>1 DEF vars
    <3> QED
      BY <1>2, <2>2, <3>2, <3>3 DEF FailureReported, Kind
  <2> QED
    BY <2>1, <2>2 DEF FailureReported
<1> QED
  BY <1>1, <1>2, ResultInvariant, PTL DEF Spec

=============================================================================
