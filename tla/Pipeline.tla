------------------------------ MODULE Pipeline ------------------------------
(***************************************************************************)
(* appsec scan (internal/cli): from the command line to the exit code.     *)
(*                                                                         *)
(* The command reads its configuration, finds the specification, lets      *)
(* adapters and discovery add to the surface, creates the run directory,   *)
(* resolves the identities, runs the engines and the assessment, writes    *)
(* the reports and chooses an exit code. Every stage may end the run.      *)
(*                                                                         *)
(* The stages are modelled by what they hand on: the surface is a set of   *)
(* kinds of operation, the assessment a set of findings and whether any    *)
(* check was executed. Planning, Engine, Scanner, Adapters, Store and      *)
(* Reporting model what happens inside them.                               *)
(***************************************************************************)
EXTENDS Naturals, FiniteSets

CONSTANTS
  WellKnownPaths,  \* how many paths are probed for a specification
  Thresholds,      \* what an operator may write as a threshold
  MaxFindings      \* bound: how many kinds of finding a run has

\* Severity.severityRank. "unassessed" is a severity that has none.
Ranked == <<"info", "low", "medium", "high", "critical">>
Severities == {Ranked[i] : i \in DOMAIN Ranked} \cup {"unassessed"}

PipelineAssumption ==
  /\ WellKnownPaths \in Nat \ {0}
  /\ {"", "unassessed"} \subseteq Thresholds
  /\ MaxFindings \in Nat

Codes == [ok |-> 0, findings |-> 1, usage |-> 2, nothing |-> 3, aborted |-> 4, internal |-> 5]
None == 99
Signal == 98  \* the process was ended by a signal: it returned no exit code

\* The low and the high end of the scale stand for the severities of findings.
Findings ==
  [state : {"confirmed", "suspected"}, severity : {"low", "high"}]
    \cup [state : {"observed"}, severity : {"unassessed"}]

VARIABLES
  cfg,        \* the configuration, as validated
  reachable,  \* whether the target answers
  stage,      \* the stage of runScan
  probe,      \* the well-known path probed next
  answers,    \* what the probes before it met
  requests,   \* who has sent a request to the target
  registered, \* whether the redactor knows the credentials
  surface,    \* Surface.Operations, by where they came from
  fidelity,   \* the operations Surface.Fidelity was graded on
  files,      \* what the run directory holds
  res,        \* the Result
  shown,      \* whether the summary was printed
  exit,       \* the exit code
  interrupted \* whether the operator interrupted the run

found == <<probe, answers>>
told == <<surface, fidelity>>
vars == <<cfg, reachable, stage, found, requests, registered, told, files, res, shown, exit,
          interrupted>>

NoResult == [executed |-> FALSE, findings |-> {}]

Configurations ==
  [spec : {"file", "url", "probe", "none"},
   adapters : BOOLEAN, assessDiscovered : BOOLEAN, sources : BOOLEAN,
   identities : BOOLEAN, confirmed : Thresholds, suspected : Thresholds]

Init ==
  /\ cfg \in Configurations
  /\ reachable \in BOOLEAN
  /\ stage = "configure"
  /\ probe = 1
  /\ answers = {}
  /\ requests = {}
  /\ registered = FALSE
  /\ surface = {}
  /\ fidelity = {}
  /\ files = {}
  /\ res = NoResult
  /\ shown = FALSE
  /\ exit = None
  /\ interrupted = FALSE

-----------------------------------------------------------------------------
Running(s) == exit = None /\ stage = s
Exit(code) == exit' = Codes[code] /\ stage' = "ended"
Continue(s) == stage' = s /\ UNCHANGED exit

\* config.Validate on a threshold.
ValidThreshold(t) == t \in Severities \cup {""}

\* resolveConfig. A file is validated as it is loaded, its target included, before a target
\* on the command line takes its place; without a file there must be one.
Resolved(file, targetGiven) == file = "valid" \/ (file = "none" /\ targetGiven)

\* The command up to runScan, and the scope policy runScan begins with. What else the
\* flags and the validation may reject is one choice.
Configure ==
  /\ Running("configure")
  /\ \E file \in {"none", "valid", "invalid"}, targetGiven, otherwiseValid \in BOOLEAN :
       IF /\ Resolved(file, targetGiven) /\ otherwiseValid
          /\ ValidThreshold(cfg.confirmed) /\ ValidThreshold(cfg.suspected)
       THEN Continue("client")
       ELSE Exit("usage")
  /\ UNCHANGED <<cfg, reachable, found, requests, registered, told, files, res, shown,
                 interrupted>>

\* (UsageMeansNothingRan: the fault of building the scope policy after discovery.)
ClientAfterDiscovery ==
  /\ Running("client")
  /\ \/ Exit("usage") /\ requests' = requests \cup {"specification"}
     \/ Continue("specification") /\ UNCHANGED requests
  /\ UNCHANGED <<cfg, reachable, found, registered, told, files, res, shown, interrupted>>

\* httpx.New fails only without a policy or a redactor.
Client ==
  /\ Running("client")
  /\ Continue("specification")
  /\ UNCHANGED <<cfg, reachable, found, requests, registered, told, files, res, shown,
                 interrupted>>

-----------------------------------------------------------------------------
(* discover.                                                               *)

\* openapi.Parse of what was found: the surface, or the end of the run.
Parse(ok) ==
  IF ok THEN /\ surface' = {"documented"}
             /\ fidelity' = {"documented"}
             /\ Continue("adapters")
        ELSE Exit("aborted") /\ UNCHANGED told

ReadSpecification ==
  /\ Running("specification") /\ cfg.spec = "file"
  /\ \E ok \in BOOLEAN : Parse(ok)
  /\ UNCHANGED <<cfg, reachable, found, requests, registered, files, res, shown, interrupted>>

\* A URL the scope policy refuses is not requested.
FetchSpecification ==
  /\ Running("specification") /\ cfg.spec = "url"
  /\ \/ /\ requests' = requests \cup {"specification"}
        /\ \E ok \in BOOLEAN : Parse(ok /\ reachable)
     \/ Parse(FALSE) /\ UNCHANGED requests
  /\ UNCHANGED <<cfg, reachable, found, registered, files, res, shown, interrupted>>

Answers == IF reachable THEN {"refused", "failed", "empty", "malformed", "document"}
           ELSE {"refused", "failed"}

\* (RefusalIsNotAbsence: the fault of treating a refusal as any failed probe.)
ForgetRefusal(a) == answers' = answers \cup (IF a = "refused" THEN {"failed"} ELSE {a})
Remember(a) == answers' = answers \cup {a}

\* (TypeOK: the fault of a probe loop without an end.)
ProbeWithoutEnd ==
  /\ Running("specification") /\ cfg.spec = "probe"
  /\ \E a \in Answers : Remember(a)
  /\ probe' = probe + 1
  /\ UNCHANGED <<cfg, reachable, stage, exit, requests, registered, told, files, res, shown,
                 interrupted>>

\* One well-known path: the first document that parses is the specification. A request
\* the scope policy refused was not sent.
ProbePath ==
  /\ Running("specification") /\ cfg.spec = "probe"
  /\ probe <= WellKnownPaths
  /\ \E a \in Answers :
       /\ requests' = IF a = "refused" THEN requests ELSE requests \cup {"specification"}
       /\ Remember(a)
       /\ IF a = "document" THEN Parse(TRUE) ELSE UNCHANGED <<stage, exit, told>>
  /\ probe' = probe + 1
  /\ UNCHANGED <<cfg, reachable, registered, files, res, shown, interrupted>>

Probed == probe > WellKnownPaths

\* What the operator is told when no path had a document.
Reason == IF "refused" \in answers THEN "every request was refused"
          ELSE IF "malformed" \in answers THEN "not parsed"
          ELSE "none found"

\* (Terminates: the fault of starting over when nothing was found.)
ProbeAgain ==
  /\ Running("specification")
  /\ cfg.spec = "none" \/ (cfg.spec = "probe" /\ Probed)
  /\ probe' = 1
  /\ UNCHANGED <<stage, exit, answers, cfg, reachable, requests, registered, told, files, res,
                 shown, interrupted>>

NoSpecification ==
  /\ Running("specification")
  /\ cfg.spec = "none" \/ (cfg.spec = "probe" /\ Probed)
  /\ Exit("aborted")
  /\ UNCHANGED <<cfg, reachable, found, requests, registered, told, files, res, shown,
                 interrupted>>

-----------------------------------------------------------------------------
(* What adds to the surface.                                               *)

\* (GradedAsAssessed: the fault of grading before the operations an adapter found join.)
GradeFirst(ops) == {"documented"}
Grade(ops) == ops

AddDiscovered == cfg.adapters /\ cfg.assessDiscovered

\* Collect, MergeInto, the operations an adapter alone knows, and the grade again.
Adapters ==
  /\ Running("adapters")
  /\ \E more \in BOOLEAN :
       surface' = IF more /\ AddDiscovered THEN surface \cup {"adapter"} ELSE surface
  /\ fidelity' = IF cfg.adapters THEN Grade(surface') ELSE fidelity
  /\ Continue("discovery")
  /\ UNCHANGED <<cfg, reachable, found, requests, registered, files, res, shown, interrupted>>

\* Discovery asks the target; the paths it finds are surface nothing is planned against.
Discover ==
  /\ Running("discovery")
  /\ requests' = IF cfg.sources THEN requests \cup {"discovery"} ELSE requests
  /\ Continue("create")
  /\ UNCHANGED <<cfg, reachable, found, registered, told, files, res, shown, interrupted>>

-----------------------------------------------------------------------------
(* The run.                                                                *)

\* store.Create and WriteFingerprintKey.
CreateRun ==
  /\ Running("create")
  /\ \/ Continue("identities") /\ files' = {"meta.json", "fingerprint.key"}
     \/ Exit("internal") /\ files' \in {{}, {"meta.json"}}
  /\ UNCHANGED <<cfg, reachable, found, requests, registered, told, res, shown, interrupted>>

\* (CredentialsAreRegistered: the fault of resolving identities when first used.)
ResolveLater ==
  /\ Running("identities")
  /\ Continue("assess")
  /\ UNCHANGED <<cfg, reachable, found, requests, registered, told, files, res, shown,
                 interrupted>>

\* identity.Resolve never fails the run; it registers every credential it finds.
ResolveIdentities ==
  /\ Running("identities")
  /\ registered' = TRUE
  /\ Continue("assess")
  /\ UNCHANGED <<cfg, reachable, found, requests, told, files, res, shown, interrupted>>

\* What RunAll and engine.Run may return. A confirmed finding has a row that was executed;
\* a suspected one may be left over by a control that was withdrawn, with its row; an
\* engine's observation needs no check of ours.
PossibleResults ==
  {r \in [executed : BOOLEAN, findings : {F \in SUBSET Findings : Cardinality(F) <= MaxFindings}] :
     /\ ~ reachable => ~ r.executed
     /\ \A f \in r.findings :
          \/ f.state = "observed"
          \/ r.executed
          \/ f.state = "suspected" /\ reachable /\ cfg.identities}

Assess ==
  /\ Running("assess")
  /\ requests' = requests \cup {"checks"}
       \cup (IF cfg.identities THEN {"authenticated"} ELSE {})
  /\ res' \in PossibleResults
  /\ Continue("report")
  /\ UNCHANGED <<cfg, reachable, found, registered, told, files, shown, interrupted>>

-----------------------------------------------------------------------------
(* persistAndSummarize.                                                    *)

WriteReport ==
  /\ Running("report")
  /\ \/ Continue("sarif") /\ files' = files \cup {"report.json"}
     \/ Exit("internal") /\ UNCHANGED files
  /\ UNCHANGED <<cfg, reachable, found, requests, registered, told, res, shown, interrupted>>

\* (ConclusionIsOnDisk: the fault of a second report nobody misses.)
WriteSARIFIgnoringErrors ==
  /\ Running("sarif")
  /\ \/ files' = files \cup {"report.sarif"}
     \/ UNCHANGED files
  /\ Continue("summary")
  /\ UNCHANGED <<cfg, reachable, found, requests, registered, told, res, shown, interrupted>>

WriteSARIF ==
  /\ Running("sarif")
  /\ \/ Continue("summary") /\ files' = files \cup {"report.sarif"}
     \/ Exit("internal") /\ UNCHANGED files
  /\ UNCHANGED <<cfg, reachable, found, requests, registered, told, res, shown, interrupted>>

Rank(s) == CHOOSE i \in DOMAIN Ranked : Ranked[i] = s
HasRank(s) == \E i \in DOMAIN Ranked : Ranked[i] = s
AtLeast(s, t) == HasRank(s) /\ HasRank(t) /\ Rank(s) >= Rank(t)

\* (CleanIsBelowThreshold: the fault of gating on confirmed findings alone.)
ConfirmedFailures == {f \in res.findings : f.state = "confirmed" /\ AtLeast(f.severity, cfg.confirmed)}
PolicyFailures ==
  {f \in res.findings :
     \/ f.state = "confirmed" /\ AtLeast(f.severity, cfg.confirmed)
     \/ f.state = "suspected" /\ AtLeast(f.severity, cfg.suspected)}

Verdict == IF ~ res.executed THEN "nothing"
           ELSE IF PolicyFailures # {} THEN "findings" ELSE "ok"

Summarize ==
  /\ Running("summary")
  /\ shown' = TRUE
  /\ Exit(Verdict)
  /\ UNCHANGED <<cfg, reachable, found, requests, registered, told, files, res, interrupted>>

\* An operator's interrupt. Nothing in the command asks to be told of one.
Interrupt ==
  /\ exit = None
  /\ interrupted' = TRUE
  /\ exit' = Signal /\ stage' = "ended"
  /\ UNCHANGED <<cfg, reachable, found, requests, registered, told, files, res, shown>>

Over == exit # None /\ UNCHANGED vars

Steps ==
  \/ Configure \/ Client
  \/ ReadSpecification \/ FetchSpecification \/ ProbePath \/ NoSpecification
  \/ Adapters \/ Discover
  \/ CreateRun \/ ResolveIdentities \/ Assess
  \/ WriteReport \/ WriteSARIF \/ Summarize

Next == Steps \/ Interrupt \/ Over

Spec == Init /\ [][Next]_vars
FairSpec == Spec /\ WF_vars(Steps)

-----------------------------------------------------------------------------
TypeOK ==
  /\ cfg \in Configurations
  /\ reachable \in BOOLEAN
  /\ stage \in {"configure", "client", "specification", "adapters", "discovery", "create",
                "identities", "assess", "report", "sarif", "summary", "ended"}
  /\ probe \in 1 .. WellKnownPaths + 1
  /\ answers \subseteq {"refused", "failed", "empty", "malformed", "document"}
  /\ requests \subseteq {"specification", "discovery", "checks", "authenticated"}
  /\ registered \in BOOLEAN
  /\ surface \subseteq {"documented", "adapter"} /\ fidelity \subseteq {"documented", "adapter"}
  /\ files \subseteq {"meta.json", "fingerprint.key", "report.json", "report.sarif"}
  /\ res \in [executed : BOOLEAN, findings : SUBSET Findings]
  /\ shown \in BOOLEAN /\ interrupted \in BOOLEAN
  /\ exit \in {Codes[c] : c \in DOMAIN Codes} \cup {None, Signal}

\* A pipeline that reads 0, 1 or 3 as a verdict on the target finds both reports in the
\* run directory and the summary on its output.
ConclusionIsOnDisk ==
  exit \in {Codes.ok, Codes.findings, Codes.nothing} =>
    shown /\ {"report.json", "report.sarif"} \subseteq files

\* Exit code 2 promises that nothing ran: no request was sent and no directory made.
UsageMeansNothingRan == exit = Codes.usage => requests = {} /\ files = {}

\* Exit code 0 is never returned by a run that executed no check, nor by one whose reports
\* hold a finding at the threshold its state has.
CleanIsBelowThreshold ==
  exit = Codes.ok =>
    /\ res.executed
    /\ \A f \in res.findings :
         /\ f.state = "confirmed" => ~ AtLeast(f.severity, cfg.confirmed)
         /\ f.state = "suspected" => ~ AtLeast(f.severity, cfg.suspected)

\* The oracle's grade in the report is that of the operations the run assessed, whatever
\* adapters added; and what only an adapter knows is assessed under its switch only.
GradedAsAssessed ==
  stage = "assess" =>
    /\ fidelity = surface
    /\ "adapter" \in surface => cfg.adapters /\ cfg.assessDiscovered

\* No request carries a credential the redactor has not been told of.
CredentialsAreRegistered == "authenticated" \in requests => registered

\* An exit code means what exit.go says it means, and the stages come in the order their
\* results are used in: the grade after the surface is complete, a credential's
\* registration before its first request.
ScanIsConsistent ==
  /\ TypeOK
  /\ ConclusionIsOnDisk
  /\ UsageMeansNothingRan
  /\ CleanIsBelowThreshold
  /\ GradedAsAssessed
  /\ CredentialsAreRegistered

\* A run the scope policy kept from its target is never described as one that found no
\* specification there.
RefusalIsNotAbsence ==
  [][requests = {} /\ exit' = Codes.aborted /\ cfg.spec = "probe"
       => Reason # "none found"]_vars

\* Every run ends: no combination of probes, refusals and failed writes keeps it going.
Terminates == <>(exit # None)
=============================================================================
