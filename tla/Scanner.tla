------------------------------ MODULE Scanner ------------------------------
(***************************************************************************)
(* internal/scanner and its three engines (nuclei, zap, sast): RunAll takes *)
(* the registered engines one after the other, Run takes one of them from   *)
(* the probe of its executable to an Outcome, and RunAll turns the Outcome  *)
(* into ledger rows, imported observations and claimed weakness classes.    *)
(*                                                                         *)
(* The engine is another program: while it runs it writes results and may   *)
(* end well, end with the status that means "findings", crash, or be        *)
(* killed. The supervision of its process is the module Proc; here proc.Run *)
(* is what it returns, and the time budget and the caller's cancellation    *)
(* race with the process and with every step of Run.                        *)
(*                                                                         *)
(* A document is abstracted to how many items of each kind it holds, sizes  *)
(* to counts of items, and an observation to its engine. The text, its      *)
(* redaction and the diagnostics are left out.                              *)
(***************************************************************************)
EXTENDS Naturals, Sequences, Functions

CONSTANTS
  Order,            \* the engines in the order of the registry
  MaxStdout,        \* how many items stdout may carry
  MaxObservations,  \* how many observations are imported from one engine
  MaxItems,         \* bound: how many items the engines write, all together
  Inputs            \* the configurations and installations considered

EngineIds == {"nuclei", "zap", "sast"}
Capabilities(e) ==
  CASE e = "nuclei" -> {"CWE-1395"}
    [] e = "zap" -> {"CWE-79", "CWE-89"}
    [] e = "sast" -> {"source analysis"}

Rank == [discovery |-> 1, verification |-> 2, intrusive |-> 3]

\* What a document holds: results that name their rule, results that do not, results that
\* name it by what sanitizing leaves nothing of, lines (or brackets) that do not parse, and
\* errors the engine reports of itself.
Kinds == {"result", "anonymous", "blank", "malformed", "error"}
Writes(e) == IF e = "zap" THEN Kinds \ {"error"} ELSE Kinds

AllInputs ==
  [enabled : SUBSET EngineIds,
   present : SUBSET EngineIds,      \* the executables that answer a version probe
   profile : DOMAIN Rank,
   active : BOOLEAN,                \* engines.zap.mode
   templates : Nat, signed : Nat,   \* the nuclei corpus
   allowUnsigned : BOOLEAN,
   source : BOOLEAN,                \* a source root and local rules for sast
   stdout : SUBSET EngineIds]       \* the engines whose document comes on stdout

ASSUME ScannerAssumption ==
  /\ Order \in Seq(EngineIds)
  /\ \A i, j \in 1 .. Len(Order) : Order[i] = Order[j] => i = j
  /\ {MaxStdout, MaxObservations, MaxItems} \subseteq Nat
  /\ Inputs \subseteq AllInputs

Statuses == {"completed", "partial", "blocked", "skipped"}
Causes == {"none", "cancelled", "engine_unavailable", "safety_policy", "budget_exceeded"}
Outcome == [status : Statuses, cause : Causes, observed : 0 .. MaxObservations, covers : BOOLEAN]
Unknown == [status |-> "skipped", cause |-> "none", observed |-> 0, covers |-> FALSE]

VARIABLES
  input,
  at,         \* the engine RunAll has reached
  phase,      \* how far Run is with it
  cancelled,  \* ctx of the assessment
  expired,    \* the time budget of the process that runs
  world,      \* for each engine its process: how it ended, what it wrote
  res,        \* what proc.Run returned
  workspace,  \* the temporary directories that exist
  outcomes,   \* Collection.Outcomes, a function of the engines taken
  rows,       \* Collection.Coverage: the rows of each engine
  failures,   \* the engines in Collection.Failures
  imported,   \* how many findings each engine contributed
  covered     \* Collection.Covered

vars == <<input, at, phase, cancelled, expired, world, res, workspace,
          outcomes, rows, failures, imported, covered>>
account == <<rows, failures, imported, covered>>

Phases == {"next", "detect", "gate", "prepare", "start", "running", "result", "account"}
Ends == {"never", "running", "ok", "findings", "crashed", "killed"}
Results == {"none", "unstarted", "timeout", "cancelled", "truncated", "exit", "ok"}

Init ==
  /\ input \in Inputs
  /\ at = 1
  /\ phase = "next"
  /\ cancelled = FALSE
  /\ expired = FALSE
  /\ world = [e \in EngineIds |->
       [end |-> "never", doc |-> [k \in Kinds |-> 0], closed |-> FALSE]]
  /\ res = "none"
  /\ workspace = {}
  /\ outcomes = <<>>
  /\ rows = [e \in EngineIds |-> <<>>]
  /\ failures = {}
  /\ imported = [e \in EngineIds |-> 0]
  /\ covered = {}

Done == at > Len(Order)
engine == Order[at]

-----------------------------------------------------------------------------
(* What each engine needs and how each reads its document.                 *)

\* (PassiveProfile: the fault of gating ZAP without asking for its mode.)
PassiveProfile(e) == IF e = "sast" THEN "discovery" ELSE "verification"
RequiredProfile(e) ==
  CASE e = "nuclei" -> "verification"
    [] e = "zap" -> IF input.active THEN "intrusive" ELSE "verification"
    [] e = "sast" -> "discovery"
Permitted(e) == Rank[input.profile] >= Rank[RequiredProfile(e)]

\* The templates nuclei executes: unsigned ones only if the operator said so.
Executes == IF input.allowUnsigned THEN input.templates ELSE input.signed
NucleiInvocation == input.templates > 0 /\ Executes > 0
SASTInvocation == input.source
CanInvoke(e) ==
  /\ e = "nuclei" => NucleiInvocation
  /\ e = "sast" => SASTInvocation

Size(doc) ==
  doc["result"] + doc["anonymous"] + doc["blank"] + doc["malformed"] + doc["error"]

\* Normalize of each engine: whether its document can be read, whether it is read only in
\* part, and whether it covers the engine's capabilities. nuclei writes a line for each
\* result, so no output at all is a document; the other two write one JSON value. A result
\* that does not name its rule is passed over, and only nuclei's is counted against it; the
\* errors of nuclei's templates are not.
NormalizeNuclei(w) ==
  LET partial == w.doc["malformed"] + w.doc["anonymous"] > 0 IN
  [readable |-> TRUE, partial |-> partial, covers |-> ~partial]
NormalizeZAP(w) ==
  [readable |-> w.closed /\ w.doc["malformed"] = 0, partial |-> FALSE, covers |-> input.active]
NormalizeSAST(w) ==
  LET partial == w.doc["error"] > 0 IN
  [readable |-> w.closed /\ w.doc["malformed"] = 0, partial |-> partial, covers |-> ~partial]
Normalize(e) ==
  CASE e = "nuclei" -> NormalizeNuclei(world[e])
    [] e = "zap" -> NormalizeZAP(world[e])
    [] e = "sast" -> NormalizeSAST(world[e])

-----------------------------------------------------------------------------
(* Run, up to the process.                                                 *)

Recorded(out) ==
  [e \in DOMAIN outcomes \cup {engine} |-> IF e = engine THEN out ELSE outcomes[e]]

\* blocked, and every other return of Run: the deferred cleanup removes the workspace.
\* (Leaves: the fault of a return before the cleanup is deferred.)
Leaves(out) ==
  /\ phase' = "account"
  /\ outcomes' = Recorded(out)
  /\ UNCHANGED workspace
Finish(out) ==
  /\ phase' = "account"
  /\ outcomes' = Recorded(out)
  /\ workspace' = workspace \ {engine}
Block(cause) == Finish([status |-> "blocked", cause |-> cause, observed |-> 0,
                        covers |-> FALSE])

\* RunAll reaches an engine after the assessment was cancelled.
NotRun ==
  /\ phase = "next" /\ ~Done /\ cancelled
  /\ Block("cancelled")
  /\ UNCHANGED <<input, at, cancelled, expired, world, res, account>>

Begin ==
  /\ phase = "next" /\ ~Done /\ ~cancelled
  /\ IF engine \in input.enabled THEN phase' = "detect" /\ UNCHANGED <<workspace, outcomes>>
                                 ELSE Finish(Unknown)
  /\ UNCHANGED <<input, at, cancelled, expired, world, res, account>>

\* Detect asks the executable for its version under the same ctx: a cancelled probe
\* answers nothing.
Detect ==
  /\ phase = "detect"
  /\ IF engine \in input.present /\ ~cancelled
     THEN phase' = "gate" /\ UNCHANGED <<workspace, outcomes>>
     ELSE Block("engine_unavailable")
  /\ UNCHANGED <<input, at, cancelled, expired, world, res, account>>

Gate ==
  /\ phase = "gate"
  /\ IF Permitted(engine) THEN phase' = "prepare" /\ UNCHANGED <<workspace, outcomes>>
                          ELSE Block("safety_policy")
  /\ UNCHANGED <<input, at, cancelled, expired, world, res, account>>

\* newWorkspace, which can fail.
NoWorkspace ==
  /\ phase = "prepare" /\ engine \notin workspace
  /\ Block("engine_unavailable")
  /\ UNCHANGED <<input, at, cancelled, expired, world, res, account>>

NewWorkspace ==
  /\ phase = "prepare" /\ engine \notin workspace
  /\ workspace' = workspace \cup {engine}
  /\ UNCHANGED <<input, at, phase, cancelled, expired, world, res, outcomes, account>>

\* Invocation, in the new workspace.
Invoke ==
  /\ phase = "prepare" /\ engine \in workspace
  /\ IF CanInvoke(engine) THEN phase' = "start" /\ UNCHANGED <<workspace, outcomes>>
                          ELSE Block("engine_unavailable")
  /\ UNCHANGED <<input, at, cancelled, expired, world, res, account>>

-----------------------------------------------------------------------------
(* proc.Run and the process.                                               *)

\* exec.Cmd.Start. It can fail, and does if ctx is already done: then proc.Run returns
\* a zero result and an error that is no ExitError.
Unstarted ==
  /\ phase = "start"
  /\ phase' = "result"
  /\ res' = "unstarted"
  /\ UNCHANGED <<input, at, cancelled, expired, world, workspace, outcomes, account>>

Start ==
  /\ phase = "start" /\ ~cancelled
  /\ phase' = "running"
  /\ expired' = FALSE
  /\ world' = [world EXCEPT ![engine].end = "running"]
  /\ UNCHANGED <<input, at, cancelled, res, workspace, outcomes, account>>

Running(e) == world[e].end = "running"

Written == Size(world["nuclei"].doc) + Size(world["zap"].doc) + Size(world["sast"].doc)
Write(e) ==
  /\ Running(e) /\ Written < MaxItems
  /\ \E k \in Writes(e) : world' = [world EXCEPT ![e].doc[k] = @ + 1]
  /\ UNCHANGED <<input, at, phase, cancelled, expired, res, workspace, outcomes, account>>

\* A process that ends of itself has closed its document, unless it crashes.
Exit(e) ==
  /\ Running(e)
  /\ \E end \in {"ok", "findings", "crashed"}, closed \in BOOLEAN :
       /\ end # "crashed" => closed
       /\ world' = [world EXCEPT ![e].end = end, ![e].closed = closed]
  /\ UNCHANGED <<input, at, phase, cancelled, expired, res, workspace, outcomes, account>>

\* The first of the two ends runCtx and decides what its Err() says.
Cancel ==
  /\ ~cancelled /\ ~Done
  /\ cancelled' = TRUE
  /\ UNCHANGED <<input, at, phase, expired, world, res, workspace, outcomes, account>>

\* (LateBudget: the fault of a budget that starts with the first output.)
LateBudget ==
  /\ phase = "running" /\ ~expired /\ ~cancelled /\ Size(world[engine].doc) > 0
  /\ expired' = TRUE
  /\ UNCHANGED <<input, at, phase, cancelled, world, res, workspace, outcomes, account>>
Expire ==
  /\ phase = "running" /\ ~expired /\ ~cancelled
  /\ expired' = TRUE
  /\ UNCHANGED <<input, at, phase, cancelled, world, res, workspace, outcomes, account>>

Kill(e) ==
  /\ Running(e) /\ (expired \/ cancelled)
  /\ world' = [world EXCEPT ![e].end = "killed"]
  /\ UNCHANGED <<input, at, phase, cancelled, expired, res, workspace, outcomes, account>>

Truncated(e) == e \in input.stdout /\ Size(world[e].doc) > MaxStdout

\* The order of the tests of proc.Run, then of Run. (ExitFirst: the fault of asking how
\* the process ended before asking whether it was stopped.)
ExitFirst(e) ==
  IF world[e].end \in {"findings", "crashed"} THEN "exit"
  ELSE IF Truncated(e) THEN "truncated"
  ELSE IF world[e].end = "killed" THEN "exit" ELSE "ok"
Result(e) ==
  IF expired THEN "timeout"
  ELSE IF cancelled THEN "cancelled"
  ELSE IF Truncated(e) THEN "truncated"
  ELSE IF world[e].end = "ok" THEN "ok" ELSE "exit"

Collect ==
  /\ phase = "running" /\ ~Running(engine)
  /\ phase' = "result"
  /\ res' = Result(engine)
  /\ UNCHANGED <<input, at, cancelled, expired, world, workspace, outcomes, account>>

-----------------------------------------------------------------------------
(* Run, from the process's output to the Outcome.                          *)

Stopped == res \in {"timeout", "cancelled", "truncated"}

Refuse ==
  /\ phase = "result" /\ Stopped
  /\ Block(IF res = "cancelled" THEN "cancelled" ELSE "budget_exceeded")
  /\ UNCHANGED <<input, at, cancelled, expired, world, res, account>>

\* len(norm.Observations)
Observations(e) == world[e].doc["result"] + world[e].doc["blank"]

\* Normalize failed, or the process ended badly with nothing to show for it.
Unusable(e) == ~Normalize(e).readable \/ (res = "exit" /\ Observations(e) = 0)

Reject ==
  /\ phase = "result" /\ ~Stopped /\ Unusable(engine)
  /\ Block("engine_unavailable")
  /\ UNCHANGED <<input, at, cancelled, expired, world, res, account>>

\* The observations up to the limit, in the order written, without those sanitizing leaves
\* no rule of: how many that can be. (Everything: the fault of no limit; SanitizedAway: that
\* of a break where the first is without a rule, for a continue; QuietCut: that of cutting
\* the list without a word.)
Everything(e) == {world[e].doc["result"]}
Taken(e) == IF Observations(e) > MaxObservations THEN MaxObservations ELSE Observations(e)
SanitizedAway(e) ==
  {kept \in 0 .. world[e].doc["result"] :
     /\ kept <= Taken(e)
     /\ world[e].doc["blank"] = 0 => kept = Taken(e)}
Kept(e) ==
  {kept \in 0 .. world[e].doc["result"] :
     \E dropped \in 0 .. world[e].doc["blank"] : kept + dropped = Taken(e)}
QuietCut(e) == Normalize(e).partial
Incomplete(e) == Normalize(e).partial \/ Observations(e) > MaxObservations

Accept ==
  /\ phase = "result" /\ ~Stopped /\ ~Unusable(engine)
  /\ \E kept \in Kept(engine) :
       Finish(
         IF Incomplete(engine)
         THEN [status |-> "partial", cause |-> "budget_exceeded", observed |-> kept,
               covers |-> FALSE]
         ELSE [status |-> "completed", cause |-> "none", observed |-> kept,
               covers |-> Normalize(engine).covers])
  /\ UNCHANGED <<input, at, cancelled, expired, world, res, account>>

-----------------------------------------------------------------------------
(* RunAll accounts for the outcome.                                        *)

Row(out) == [disp |-> IF out.status = "completed" THEN "executed" ELSE "blocked",
             cause |-> out.cause]

\* The row of an outcome. (PartialExecuted: the fault of counting a partial scan.)
PartialExecuted(out) ==
  IF out.status = "skipped" THEN <<>>
  ELSE <<[disp |-> IF out.status = "blocked" THEN "blocked" ELSE "executed",
          cause |-> out.cause]>>
RowsOf(out) == IF out.status = "skipped" THEN <<>> ELSE <<Row(out)>>

Account ==
  LET out == outcomes[engine] IN
  /\ phase = "account"
  /\ phase' = "next"
  /\ at' = at + 1
  /\ rows' = [rows EXCEPT ![engine] = @ \o RowsOf(out)]
  /\ failures' = IF out.status = "blocked" THEN failures \cup {engine} ELSE failures
  /\ imported' = [imported EXCEPT ![engine] = @ + out.observed]
  /\ covered' = IF out.covers THEN covered \cup Capabilities(engine) ELSE covered
  /\ res' = "none"
  /\ UNCHANGED <<input, cancelled, expired, world, workspace, outcomes>>

Supervise ==
  \/ NotRun \/ Begin \/ Detect \/ Gate \/ NoWorkspace \/ NewWorkspace \/ Invoke
  \/ Unstarted \/ Start \/ Collect \/ Refuse \/ Reject \/ Accept \/ Account

Next ==
  \/ Supervise
  \/ Cancel \/ Expire
  \/ \E e \in EngineIds : Write(e) \/ Exit(e) \/ Kill(e)

\* The supervisor is one goroutine that is not held up, the timer of the budget fires,
\* and SIGKILL ends the process. Of the engine itself nothing is assumed.
Fairness == WF_vars(Supervise) /\ WF_vars(Expire) /\ \A e \in EngineIds : WF_vars(Kill(e))

Spec == Init /\ [][Next]_vars /\ Fairness

-----------------------------------------------------------------------------
(* Properties.                                                             *)

TypeOK ==
  /\ input \in Inputs
  /\ at \in 1 .. Len(Order) + 1
  /\ phase \in Phases
  /\ {cancelled, expired} \subseteq BOOLEAN
  /\ world \in [EngineIds -> [end : Ends, doc : [Kinds -> 0 .. MaxItems], closed : BOOLEAN]]
  /\ res \in Results
  /\ workspace \subseteq EngineIds
  /\ DOMAIN outcomes \subseteq EngineIds /\ Range(outcomes) \subseteq Outcome
  /\ \A e \in EngineIds : Range(rows[e]) \subseteq [disp : {"executed", "blocked"},
                                                    cause : Causes]
  /\ failures \subseteq EngineIds
  /\ imported \in [EngineIds -> 0 .. MaxObservations]
  /\ covered \subseteq UNION {Capabilities(e) : e \in EngineIds}

Status(e) == outcomes[e].status
Accounted == {Order[i] : i \in 1 .. at - 1}

\* Each engine taken has an outcome; one that was enabled has exactly one row, and the
\* row says executed if and only if the engine completed. A blocked engine is named among
\* the failures and contributes nothing; a partial one is neither a failure nor executed.
EveryEngineAccounted ==
  \A e \in Accounted :
    /\ e \in DOMAIN outcomes
    /\ rows[e] = <<>> => e \notin input.enabled
    /\ rows[e] # <<>> =>
         /\ Len(rows[e]) = 1
         /\ (rows[e][1].disp = "executed") = (Status(e) = "completed")
         /\ (rows[e][1].cause = "none") = (Status(e) = "completed")
         /\ (e \in failures) = (Status(e) = "blocked")
    /\ Status(e) \in {"blocked", "skipped"} => imported[e] = 0

\* A class is claimed only for an engine that nobody stopped, in the mode that looks for the
\* class and with a rule to run, whose output was neither cut nor in part unreadable: every
\* result that names its rule was imported. That is less than all it wrote: the results that
\* zap and sast leave anonymous, those sanitizing leaves blank and the errors of nuclei's
\* templates are dropped, and the class is claimed. Nor need the engine have ended well, or
\* nuclei have started.
CoverageOnWholeOutput ==
  \A e \in EngineIds : Capabilities(e) \cap covered # {} =>
    /\ imported[e] = world[e].doc["result"]
    /\ world[e].end \notin {"running", "killed"}
    /\ ~Truncated(e)
    /\ world[e].doc["malformed"] = 0
    /\ e = "nuclei" => world[e].doc["anonymous"] = 0 /\ Executes > 0
    /\ e = "zap" => input.active
    /\ e = "sast" => world[e].doc["error"] = 0

\* A process this tool stopped contributes nothing and claims nothing, and its row says
\* that a budget or the operator stopped it, whatever it had written by then.
StoppedContributesNothing ==
  \A e \in Accounted : world[e].end = "killed" =>
    /\ Status(e) = "blocked"
    /\ rows[e][1].cause \in {"budget_exceeded", "cancelled"}
    /\ imported[e] = 0
    /\ Capabilities(e) \cap covered = {}

\* A process runs only while Run waits for it, one at a time and in a workspace of its
\* own, and no workspace outlives the run it was made for.
ContainedInWorkspace ==
  /\ \A e \in EngineIds : Running(e) => ~Done /\ e = engine /\ phase = "running"
  /\ ~Done /\ phase \in {"start", "running", "result"} => engine \in workspace
  /\ \A e \in workspace : ~Done /\ e = engine /\ phase \in {"prepare", "start", "running", "result"}

\* No process starts above the effective profile, or for an engine nobody enabled.
\* (run.go:80-90: "An engine that sends attack traffic must not run because somebody
\* enabled it under a reconnaissance profile.")
RunsOnlyAsPermitted ==
  \A e \in EngineIds : world[e].end # "never" =>
    /\ e \in input.enabled \cap input.present
    /\ e = "zap" /\ input.active => input.profile = "intrusive"
    /\ e \in {"nuclei", "zap"} => input.profile # "discovery"

\* What the run says of its engines is what they did: every one is accounted for, a class is
\* claimed only where every result that names its rule was imported, and a stopped process
\* contributes nothing.
AccountIsTrue ==
  /\ EveryEngineAccounted
  /\ CoverageOnWholeOutput
  /\ StoppedContributesNothing

\* Engines run only where and when they may, and leave nothing behind.
RunsConfined ==
  /\ TypeOK
  /\ ContainedInWorkspace
  /\ RunsOnlyAsPermitted

\* Whatever the engines do, RunAll ends.
Terminates == <>Done
=============================================================================
