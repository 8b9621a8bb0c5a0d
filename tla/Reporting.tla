------------------------------ MODULE Reporting ------------------------------
(***************************************************************************)
(* How a run's work becomes its report: the workers' rows and findings in  *)
(* the order they finish, the end of engine.Run (the closing canaries, the *)
(* withdrawal of what rested on a dead credential, the ownership account,  *)
(* the classes nobody assessed, the sort), report.Build and the Summary an *)
(* operator reads on the terminal.                                         *)
(*                                                                         *)
(* How the workers are scheduled is the module Engine, what a check        *)
(* concludes CrossOwnerRead and AuthRequired, what an external engine does *)
(* Scanner, and what an adapter contributes Adapters: here each of them is *)
(* the result it hands over. A sentence of the report is the claim it      *)
(* makes. Rows have a total key and are kept as a set; findings are a      *)
(* sequence, because their sort key is not total.                          *)
(***************************************************************************)
EXTENDS Naturals, Sequences, FiniteSets, SequencesExt, FiniteSetsExt

CONSTANTS
  Units,        \* the planned units: operation checks and cross-owner units
  Identities,   \* the configured identities
  Engines,      \* the engines of the registry
  Paths,        \* the paths discovery may reveal
  RankOrder,    \* pairs of an operation id and a check id, in the order of their strings
  Inputs        \* what the rest of the pipeline hands over

\* What an engine, a path or an identity has no check, resource or identity for.
NoName == ""

\* A unit is named by its subject, check, resource and acting identity.
UnitSpace == [dim : {"operation", "ownership"}, subject : STRING, check : STRING,
              resource : STRING, who : Identities]
Key(x) == <<x.subject, x.check, x.resource>>

Statuses == {"completed", "partial", "blocked", "skipped"}
Outcomes == [status : Statuses, covers : BOOLEAN, observed : 0 .. 1]

\* What the stages before the report hand it.
AllInputs ==
  [engines : [Engines -> Outcomes],
   discovered : SUBSET Paths,        \* undocumented paths
   attempted : BOOLEAN,              \* whether discovery ran
   incomplete : BOOLEAN,             \* whether it stopped at a budget
   adapterOps : SUBSET STRING,       \* operations only an adapter knows, being assessed
   merges : SUBSET {"corroborated", "new", "unknown", "conflict"},
   adapterFailures : SUBSET STRING]

\* No two units have one name, for the ids of fixtures, identities and operations are unique.
\* Only an engine that completed claims a class, and only one that ran observes.
ReportingAssumption ==
  /\ Units \subseteq UnitSpace /\ IsFiniteSet(Units)
  /\ \A u, v \in Units : Key(u) = Key(v) /\ u.who = v.who => u = v
  /\ Identities \cup Engines \cup Paths \subseteq STRING
  /\ IsFiniteSet(Engines) /\ IsFiniteSet(Paths)
  /\ Inputs \subseteq AllInputs
  /\ \A u \in Units : \E k \in DOMAIN RankOrder : RankOrder[k] = <<u.subject, u.check>>
  /\ \A e \in Engines : \E k \in DOMAIN RankOrder : RankOrder[k] = <<NoName, e>>
  /\ \A i \in Inputs, e \in Engines :
       /\ i.engines[e].covers => i.engines[e].status = "completed"
       /\ i.engines[e].observed > 0 => i.engines[e].status \in {"completed", "partial"}
  /\ \A i \in Inputs : i.incomplete \/ i.discovered # {} => i.attempted

\* The classes a reader assumes were considered, those a cross-owner check examines, and
\* those an engine's capabilities name (what nuclei claims is not among the classes).
Notable == {"object level", "user-controlled key", "cross-site scripting", "SQL injection",
            "rate limiting"}
OwnershipClasses == {"object level", "user-controlled key"}
Capabilities(e) ==
  CASE e = "zap" -> {"cross-site scripting", "SQL injection"}
    [] e = "nuclei" -> {"known vulnerable component"}
    [] OTHER -> {}

\* What a check returns of a unit. A finding is only raised by work that executed;
\* cross-owner work may be left untested.
States == {"none", "suspected", "confirmed"}
ResultsOf(u) ==
  {r \in [disp : {"executed", "blocked", "untested"}, state : States, relied : BOOLEAN] :
     /\ r.state # "none" => r.disp = "executed"
     /\ r.state = "confirmed" => r.relied
     /\ r.disp = "untested" => u.dim = "ownership" /\ ~r.relied}

\* What Status() can say of an identity: without a credential, or without a canary,
\* nothing is ever learned.
Standings ==
  {s \in [usable : BOOLEAN, monitored : BOOLEAN, live : {"unknown", "good", "bad"}] :
     s.live # "unknown" => s.usable /\ s.monitored}

VARIABLES
  input,
  phase,      \* how far the report is
  ledger,     \* the rows appended so far
  controls,   \* the control log: the units that relied on a credential
  found,      \* the findings, in the order the workers finished
  standing,   \* the identities' status
  res,        \* engine.Result
  doc,        \* the Document
  summary     \* what the terminal says

vars == <<input, phase, ledger, controls, found, standing, res, doc, summary>>

Phases == {"working", "probing", "assembling", "sorting", "building", "printing", "printed"}
Nothing == [none |-> TRUE]

Init ==
  /\ input \in Inputs
  /\ phase = "working"
  /\ ledger = {}
  /\ controls = {}
  /\ found = <<>>
  /\ standing \in {s \in [Identities -> Standings] : \A i \in Identities : s[i].live = "unknown"}
  /\ res = Nothing /\ doc = Nothing /\ summary = Nothing

RowOf(u, disp) ==
  [dim |-> u.dim, subject |-> u.subject, check |-> u.check, resource |-> u.resource,
   who |-> u.who, disp |-> disp]
FindingOf(u, state) ==
  [subject |-> u.subject, check |-> u.check, resource |-> u.resource, who |-> u.who,
   state |-> state]
Reported(u) == \E r \in ledger : Key(r) = Key(u) /\ r.who = u.who

\* A worker is done with its unit: the row, the control it relied on and the finding.
Finish(u) ==
  /\ phase = "working"
  /\ ~Reported(u)
  /\ \E r \in ResultsOf(u) :
       /\ ledger' = ledger \cup {RowOf(u, r.disp)}
       /\ controls' = IF r.relied THEN controls \cup {u} ELSE controls
       /\ found' = IF r.state = "none" THEN found ELSE Append(found, FindingOf(u, r.state))
  /\ UNCHANGED <<input, phase, standing, res, doc, summary>>

\* wg.Wait() returns.
AllFinished ==
  /\ phase = "working"
  /\ \A u \in Units : Reported(u)
  /\ phase' = "probing"
  /\ UNCHANGED <<input, ledger, controls, found, standing, res, doc, summary>>

\* The closing canaries: a monitored identity is found good or bad, or the canary is lost.
Probe ==
  /\ phase = "probing"
  /\ \E s \in [Identities -> Standings] :
       /\ \A i \in Identities :
            /\ s[i].usable = standing[i].usable
            /\ s[i].monitored = standing[i].monitored
       /\ standing' = s
  /\ phase' = "assembling"
  /\ UNCHANGED <<input, ledger, controls, found, res, doc, summary>>

-----------------------------------------------------------------------------
(* The assembly of engine.Result.                                          *)

\* The ledger row of an identity.
IdentityRow(i) ==
  [dim |-> "identity", subject |-> i, check |-> NoName, resource |-> NoName, who |-> i,
   disp |-> CASE standing[i].live = "good" -> "executed"
              [] standing[i].usable /\ ~standing[i].monitored -> "untested"
              [] OTHER -> "blocked"]

\* The row of an external engine: partial work is blocked, skipped work has no row.
EngineRow(e) ==
  [dim |-> "engine", subject |-> e, check |-> NoName, resource |-> NoName, who |-> NoName,
   disp |-> IF input.engines[e].status = "completed" THEN "executed" ELSE "blocked"]
Ran == {e \in Engines : input.engines[e].status # "skipped"}

PathRow(p) ==
  [dim |-> "path", subject |-> p, check |-> NoName, resource |-> NoName, who |-> NoName,
   disp |-> "untested"]

\* (WithdrawnForGood: the fault of leaving a cause without a disposition.)
WithdrawnForGood(r, affected) ==
  IF Key(r) \in affected THEN [r EXCEPT !.disp = ""] ELSE r
Withdraw(r, affected) ==
  IF r.dim \in {"operation", "ownership"} /\ Key(r) \in affected
  THEN [r EXCEPT !.disp = "blocked"] ELSE r

Demote(f, affected) ==
  IF f.state = "confirmed" /\ Key(f) \in affected THEN [f EXCEPT !.state = "suspected"] ELSE f

\* The ownership account of a ledger. (BeforeWithdrawal: the fault of drawing it up from
\* the rows as the workers left them, before the withdrawal.)
InLedger(rows, disp) == {r \in rows : r.dim = "ownership" /\ r.disp = disp}
Summarise(rows) ==
  [verified |-> InLedger(rows, "executed"), blocked |-> InLedger(rows, "blocked"),
   untested |-> InLedger(rows, "untested")]
BeforeWithdrawal(rows) == Summarise(ledger)
Ownership(rows) == Summarise(rows)

\* Collection.Covered. (EveryEngineThatRan: the fault of crediting an engine with its
\* capabilities because its process started.)
EveryEngineThatRan == UNION {Capabilities(e) : e \in Ran}
Covered == UNION {Capabilities(e) : e \in {x \in Engines : input.engines[x].covers}}

\* The classes not assessed, each with the extent or the engines that qualify it: the
\* number of boundaries checked, and every engine that completed.
Completed == {e \in Engines : input.engines[e].status = "completed"}
QualifiedClasses(verified) ==
  {[class |-> c,
    extent |-> IF c \in OwnershipClasses THEN verified ELSE 0,
    by |-> IF c \in Covered THEN Completed ELSE {}] : c \in Notable}

Imported ==
  SetToSeq({[subject |-> NoName, check |-> e, resource |-> NoName, who |-> NoName,
              state |-> "observed"] : e \in {x \in Engines : input.engines[x].observed > 0}})

\* Which recorded controls ran after the last canary that found their identity good is a
\* choice among those of the identities found bad.
Assemble ==
  /\ phase = "assembling"
  /\ \E stale \in SUBSET {u \in controls : standing[u.who].live = "bad"} :
       LET affected == {Key(u) : u \in stale}
           rows == {Withdraw(r, affected) : r \in ledger \cup {IdentityRow(i) : i \in Identities}}
           ownership == Ownership(rows)
       IN res' = [coverage |-> rows \cup {EngineRow(e) : e \in Ran}
                               \cup {PathRow(p) : p \in input.discovered},
                  findings |-> [k \in 1 .. Len(found) |-> Demote(found[k], affected)] \o Imported,
                  ownership |-> ownership,
                  failures |-> {e \in Engines : input.engines[e].status = "blocked"},
                  classes |-> QualifiedClasses(Cardinality(ownership.verified))]
  /\ phase' = "sorting"
  /\ UNCHANGED <<input, ledger, controls, found, standing, doc, summary>>

\* What sort.Slice may leave: any order of the findings that their operation and check,
\* which are all it compares, allow.
Rank(f) == CHOOSE k \in DOMAIN RankOrder : RankOrder[k] = <<f.subject, f.check>>
Orders(s) ==
  {t \in {[k \in 1 .. Len(s) |-> s[p[k]]] : p \in Permutations(1 .. Len(s))} :
     \A i, j \in 1 .. Len(t) : i < j => Rank(t[i]) <= Rank(t[j])}

Sort ==
  /\ phase = "sorting"
  /\ \E t \in Orders(res.findings) : res' = [res EXCEPT !.findings = t]
  /\ phase' = "building"
  /\ UNCHANGED <<input, ledger, controls, found, standing, doc, summary>>

-----------------------------------------------------------------------------
(* report.Build                                                            *)

\* (SurfaceOnly: the fault, made once, of counting neither the external engines nor the
\* discovered paths.)
SurfaceOnly(dim) == dim \in {"operation", "ownership"}
IsAssessmentWork(dim) == dim \in {"operation", "ownership", "path", "engine"}
CountDisposition(d) == Cardinality({r \in res.coverage : IsAssessmentWork(r.dim) /\ r.disp = d})

FindingsIn(state) == Cardinality({k \in DOMAIN res.findings : res.findings[k].state = state})

AuthenticatedControl ==
  IF Identities = {} THEN "no identity"
  ELSE IF \A i \in Identities : ~standing[i].usable THEN "no credential"
  ELSE CASE \E i \in Identities : standing[i].live = "bad" -> "rejected"
         [] \A i \in Identities : ~standing[i].monitored -> "no canary"
         [] OTHER -> "confirmed live"

SurfaceCompleteness ==
  IF ~input.attempted THEN "declared operations only"
  ELSE IF input.incomplete THEN "floor" ELSE "what was revealed"

DiscoveryStatement ==
  IF ~input.attempted /\ input.adapterOps = {} THEN "did not run"
  ELSE IF input.incomplete THEN "floor" ELSE "what was revealed"

AdapterStatement ==
  CASE input.merges = {} /\ input.adapterFailures = {} -> "no adapter ran"
    [] input.merges = {} /\ input.adapterFailures # {} -> "every adapter failed"
    [] "conflict" \in input.merges -> "disagreement"
    [] OTHER -> "expectations"

\* The statement of the engine account.
EngineStatement ==
  IF \E e \in Engines : input.engines[e].status \in {"blocked", "partial"}
  THEN "some assessed nothing" ELSE "counts"

Build ==
  /\ phase = "building"
  /\ doc' = [executed |-> CountDisposition("executed"), blocked |-> CountDisposition("blocked"),
             untested |-> CountDisposition("untested"),
             confirmed |-> FindingsIn("confirmed"), suspected |-> FindingsIn("suspected"),
             assurance |-> IF CountDisposition("executed") = 0 THEN "no checks" ELSE "limited",
             control |-> AuthenticatedControl, surface |-> SurfaceCompleteness,
             discovery |-> DiscoveryStatement, adapters |-> AdapterStatement,
             engines |-> EngineStatement, ownership |-> res.ownership,
             classes |-> res.classes, failures |-> res.failures]
  /\ phase' = "printing"
  /\ UNCHANGED <<input, ledger, controls, found, standing, res, summary>>

-----------------------------------------------------------------------------
(* report.Summary                                                          *)

\* The identities the terminal names. (OnlyUnusable: the fault, made once, of a console
\* that says nothing of a credential the target refused.)
OnlyUnusable == {i \in Identities : ~standing[i].usable}
Warned ==
  {i \in Identities :
     \/ ~standing[i].usable
     \/ standing[i].live = "bad"
     \/ standing[i].monitored /\ standing[i].live # "good"}

ShowSummary ==
  /\ phase = "printing"
  /\ summary' = [executed |-> doc.executed, blocked |-> doc.blocked, untested |-> doc.untested,
                 confirmed |-> doc.confirmed, suspected |-> doc.suspected,
                 boundaries |-> doc.ownership.verified,
                 failed |-> doc.failures, identities |-> Warned,
                 engines |-> Ran, observed |-> FindingsIn("observed"),
                 discovery |-> IF input.discovered # {} \/ input.adapterOps # {}
                               THEN {"counts"} \cup (IF input.incomplete THEN {"floor"} ELSE {})
                               ELSE {}]
  /\ phase' = "printed"
  /\ UNCHANGED <<input, ledger, controls, found, standing, res, doc>>

Printed ==
  /\ phase = "printed"
  /\ UNCHANGED vars

Next ==
  \/ \E u \in Units : Finish(u)
  \/ AllFinished \/ Probe \/ Assemble \/ Sort \/ Build \/ ShowSummary \/ Printed

Spec == Init /\ [][Next]_vars

-----------------------------------------------------------------------------
Name == STRING \cup {NoName}
Row == [dim : {"operation", "ownership", "identity", "engine", "path"}, subject : STRING,
        check : Name, resource : Name, who : Name, disp : {"executed", "blocked", "untested"}]

TypeOK ==
  /\ input \in Inputs
  /\ phase \in Phases
  /\ ledger \subseteq Row
  /\ controls \subseteq Units
  /\ \A k \in DOMAIN found : found[k].state \in {"suspected", "confirmed"}
  /\ standing \in [Identities -> Standings]
  /\ res # Nothing => res.coverage \subseteq Row
  /\ \A d \in {doc, summary} : d # Nothing =>
       {d.executed, d.blocked, d.untested, d.confirmed, d.suspected} \subseteq Nat

\* The three headline counts add up to the work there was: each planned unit, each engine
\* that was enabled and each discovered path is in exactly one of them, and no identity is.
EveryPieceOfWorkCounted ==
  doc # Nothing =>
    doc.executed + doc.blocked + doc.untested
      = Cardinality(Units) + Cardinality(Ran) + Cardinality(input.discovered)

\* The boundaries the ownership account names, and the extent the not-assessed classes are
\* qualified with, are those whose row still says executed after the withdrawal.
OwnershipCountsWhatSurvived ==
  res # Nothing =>
    /\ res.ownership.verified
         = {r \in res.coverage : r.dim = "ownership" /\ r.disp = "executed"}
    /\ \A c \in res.classes :
         c.extent > 0 => c.extent = Cardinality({r \in res.coverage : r.dim = "ownership"
                                                                      /\ r.disp = "executed"})

\* A summary without a failed component, a named identity or a blocked item is the summary
\* of a run in which no work was blocked or withdrawn, every engine enabled completed, and
\* every identity was confirmed or unmonitored.
CleanSummaryWasClean ==
  summary # Nothing /\ summary.failed = {} /\ summary.identities = {} =>
    /\ \A i \in Identities : standing[i].usable /\ (standing[i].monitored => standing[i].live = "good")
    /\ summary.blocked = 0 =>
         /\ \A r \in res.coverage : r.disp # "blocked"
         /\ \A e \in Ran : input.engines[e].status = "completed"

\* A class is credited to engines only when one that completed reported it as covered.
CreditNeedsCoverage ==
  res # Nothing =>
    \A c \in res.classes : c.by # {} =>
      \E e \in c.by : input.engines[e].covers /\ c.class \in Capabilities(e)

\* Every count, credit and warning of the report follows from the rows of its ledger.
ReportFollowsLedger ==
  /\ TypeOK
  /\ EveryPieceOfWorkCounted
  /\ OwnershipCountsWhatSurvived
  /\ CleanSummaryWasClean
  /\ CreditNeedsCoverage
=============================================================================
