# Application Security Framework: TLA+ development

This directory models and checks the framework from the command line to the exit
code: planning, the engine that dispatches the checks, the identities they
authenticate as, the checks themselves, external engines, adapters, discovery, the
HTTP client, the evidence store and the report. The modules are written from the Go
source; every definition that stands for code is listed with its lines in
`PROJECT.json` (`map`).

Run a check with `tlc -config <X>.cfg <module>`, a proof with `tlapm <module>.tla`.

## 1. The system

The program takes a target, its OpenAPI document, identities and fixtures
(resources with a known owner), and reports what it could and could not verify.
Its rule is that silence is never a pass: all planned work ends in a ledger row,
and a result that rests on something unverified is blocked, not clean.

| component | state | operations | what makes it correct |
|---|---|---|---|
| `engine` (planning) | jobs, ownership units, rows for what is not planned | planning loops, `planOwnership` | everything is planned or has a row that says why not; nothing is planned that was not permitted |
| `engine` (execution) | ledger, findings, control log, failures, semaphore, wait group, fixture locks, context | two dispatch loops, workers, cancellation, closing canaries, re-scoring | one row per unit, bounded concurrency, exclusive fixtures, rows and findings that agree |
| `engine`, `report` (counts) | the assembled result | `identityCoverage`, `summariseOwnership`, `sortResult`, `Build`, `Summary` | every number and every sentence follows from the ledger |
| `identity` | per control: liveness, lastGood, firstBad, probing | `Probe`, `NoteSuspicious`, `Usable`, `DoWithBody`, `Status` | a dead credential is never trusted, a live one never given up for a lost packet |
| `check`: cross-owner read | two identities, a fixture | owner control, non-owner probe, owner re-check, verdict | a boundary is said to hold only of a resource that was there, with credentials that worked |
| `check`: cross-owner write | the same, and the resource itself | read, write, read, restore, verify | a write is credited to who made it, and undone or reported |
| `check`: declared authentication | baseline, probes, control | `AuthRequired.Run` | a verdict rests on answers that show it |
| `check`: comparison | two documents being walked | `bodyShape`, `materiallyEquivalent`, `sameResource` | what is called the same is the same, all of it compared |
| `outcome` | none (pure) | `Classify` | ambiguity is never a denial or a pass |
| `cli` | stage, surface, run directory, exit code | `runScan`, `persistAndSummarize` | the exit code means what `exit.go` says |
| `store` | run directory, `seen` | `WriteFile`, `PutEvidence` | files are whole, and what is missing is reported |
| `scanner`, `proc` | child process, pipes, output buffers, deadline | `RunAll`, `Run`, `proc.Run` | a failed engine is a row, claims nothing, and never hangs the run |
| `adapter` | documents, the surface being merged | `Collect`, `Parse`, `MergeInto` | every fact is accounted for; nothing declared is overwritten |
| `discovery` | collected paths, budgets | `Run`, `Merge` | the pass stays on its origin and says what it did not follow |
| `httpx`, `scope` | limiter, recorded hosts | `Do`, `dialContext`, `CheckURL`, `CheckAddr` | nothing out of scope is contacted |
| `config`, `openapi`, `resource`, `redact`, `model` | files and values | parsing, validation, rendering | formats; little state |

`runScan` calls the parts in sequence: the specification, adapters, discovery,
identities, external engines, `engine.Run`, the reports. Concurrency lives in three
places. Inside `engine.Run` workers share the ledger, the control log, the findings
and the failures under mutexes, the slots of a channel, the locks of the fixtures,
the identity controls, the evidence store and the HTTP client. A control may send a
canary of its own accord, from whichever goroutine found its credential suspicious.
And `proc.Run` supervises a process tree with two copiers and a watcher.

What is hard: credentials that expire between any two requests and are noticed
later; resources changed or deleted by others; a target that answers every request
as it likes, its name lookups included; requests lost after they took effect;
cancellation and deadlines at any moment; goroutines that interleave on one
resource, file or credential; limits that cut a list, a body, an output or a pass
short; a withdrawal of results that has to hit the row and the finding alike. `PROJECT.json`
lists these hazards at the lines where they bite, with the properties that would
catch each.

## 2. The modules

| module | models |
|---|---|
| `Planning` | the job loop of `engine.Run` and `planOwnership`, with every early `continue` |
| `Accounting` | abstract: units are accounted for once, then the report is published |
| `Engine` | `engine.Run` from the end of planning to the result, `fixtureLocks`; implements `Accounting` |
| `Identity` | `identity.Control` shared by goroutines |
| `CrossOwnerRead` | `runRead`, `judgeUnauthorizedRead` in the run that carries them; instantiates `Identity` |
| `CrossOwnerWrite` | `runMutation`, `restore`, `mutationApplied`, `valuesPresent` |
| `AuthRequired` | `AuthRequired.Run`, one action per request |
| `Classification` | `outcome.Classify` |
| `Evidence` | `bodyShape`, `materiallyEquivalent`, `valuePaths`, `sameResource` |
| `Reporting` | the end of `engine.Run`, `report.Build`, `Summary` |
| `Scanner` | `scanner.RunAll` and `Run` with what nuclei, zap and sast make of their output |
| `Proc` | `proc.Run` with a child, helpers, pipes, deadline and cancellation |
| `Adapters` | `Collect`, `Parse`, `MergeInto` |
| `Discovery` | `discovery.Run` and `Merge` |
| `Client` | `httpx.Client.Do`, `dialContext`, the limiter, `internal/scope` |
| `EvidenceSet` | abstract: an exchange is taken once, then kept or stated lost, and the report says which |
| `Store` | `PutEvidence`, `WriteFile`, failures, process death, power loss; implements `EvidenceSet` |
| `Pipeline` | `runScan`, `persistAndSummarize`, `exitFor` |
| `Engines` | composes `Scanner` and `Proc`: the external engines and what supervises their processes |
| `Run` | composes `Store`, `Pipeline`, `Reporting` and `Client`: a scan, what it sends and what it leaves behind |
| `Checks` | composes `Planning`, `AuthRequired`, `Classification` and `Evidence`: from the plan to a conclusion |
| `Surface` | composes `Discovery` and `Adapters`: what widens the declared surface |
| `EngineProofs`, `IdentityProofs`, `CrossOwnerReadProofs`, `CrossOwnerWriteProofs`, `ChecksProofs`, `SurfaceProofs`, `EnginesProofs`, `RunProofs` | theorems about the modules they are named after |
| `MC...` | instances for TLC |

**Planning.** Sequential; a step is the body of a loop. The configuration and the
surface are chosen once, in `input`. What it has to get right is that each of the
`continue`s leaves a row.

**Engine.** `main` is the program counter of the goroutine that called `Run`,
`worker[u]` that of each unit's goroutine; an action is one step between two
points where others may run: taking or returning a slot or a lock, appending to
something shared. Units `1..NJobs` are operation checks, the rest cross-owner
units, which alone take a fixture lock. What a check returns is a member of
`Results`. Whether the closing canaries open a window of uncertainty is a choice
of `stale`, a subset of the units that recorded a control; `CrossOwnerRead` has
the mechanism in full. A cancelled context is read where the code reads it, at
the head of each loop iteration, so a unit that waits for a slot while the
context is cancelled still starts.

**Identity.** A canary is a round trip: the target decides in `AnswerCanary`, the
control learns in `FinishCanary`. Times are abstracted to the one comparison the
code makes of them, whether a use lies at or before `lastGood`. `accepted` is
what the target takes for valid, which the program never sees; `raced` only
observes.

**CrossOwnerRead.** The control, the probe and the re-check are separate steps,
each answered by a target that may do anything a real one may. `phase` follows
`engine.Run`: opening canaries, work, closing canaries, re-scoring. Expiry of a
credential, deletion of a resource and cancellation may come between any two
steps. `truth` and `closed` only observe.

**CrossOwnerWrite.** The resource is a function from fields to where their value
came from, and `author` records whose value each field holds. The application
stores any part of what it is sent, as sent or normalised, whatever it answers. A
request that times out may land at any later time, after its unit has returned and given
the fixture back, or never (`inFlight`, `Land`). A read as the owner shows the resource,
an older version of it (`copy`), or no JSON object. Somebody else edits fields, to a value
of their own or to the very value the units write. `outdated` only observes.

**AuthRequired.** The target guards the operation or not, may be deployed anew
between any two of the six requests, caches, limits rates and answers unknown paths
in three ways. `content` is what an answer really holds; the check sees its status,
type, length and structure only, and the properties compare the two.

**Evidence.** The walk visits one node per step and takes an object's keys in any
order, as Go does, so a bound may strike at any point. A document is a tree, given by its
addresses (the positions in each container that lead to a node), with the node that stands at
each and the path the code writes for it. A path is a sequence of keys; a key with slashes is
several, since the code joins paths with slashes, so two addresses may have one path. The walk
records paths only, as the code does; the properties compare what it recorded with what the
document holds. Shapes are compared as the code compares them, as one text in which sorted
entries are joined with `;`: a key may itself hold what ends an entry (`:number;`), and then
the text does not tell where one does. `Key` is that text, as the rows between one end and
the next, in order. A body is read up to the end of its first JSON value and may be
continued by anything.

**Reporting.** Rows are a set, findings a sequence in the order workers finish,
because their sort key is not total. A sentence of the report is the claim it makes.

**Scanner, Proc.** In `Scanner` an engine is another program that writes, ends,
crashes or is killed while deadline and cancellation race with each step of `Run`.
What `Run` imports of a result list are those of the first `MaxObservations` whose rule
sanitising leaves something of.
`Proc` opens up the supervision: a pipe ends only when no process holds it, helpers
outlive the child, and the kill goes to the process group.

**Adapters.** The documents are any an untrusted adapter can print. A fact is a step,
of `Parse` in the order it was written in, of `MergeInto` in the order of name and kind.
What `Parse` has accepted is a set: it holds one fact to a subject.

**Discovery.** One request or one source per step. What a body mentions is a set of
references of which a parser takes a bounded part; of a root page's script references it
keeps no note that there were more (`ScriptSources`).

**Client.** Several callers are each somewhere in `Do`. A URL carries what
`CheckURL` looks at, an address the host it reaches and the way it is written.
`trace` records what a request has put on the network; it only observes.

**Store.** Each system call of `WriteFile` is a step and may fail. The process may
die between two steps; the machine may lose power, which tears what is not synced.
`ImplementsEvidenceSet` maps it to `EvidenceSet`: an exchange is taken when it is marked,
kept when the rename has put its file in place, lost when its error is kept, and the set is
closed when the report is assembled (or the setup has failed). All else stutters.

**Pipeline.** The stages of `runScan` with every early return, down to the exit
code. What happens inside a stage is the result it hands on.

## 3. The runs

| run | instance | states | shows |
|---|---|---|---|
| `engine` | 1 job, 3 cross-owner units on 2 fixtures, 2 slots, 3 results | 268,809 | every safety property of `Engine`, and that it implements `Accounting`, liveness included |
| `identity` | 1 live identity, 1 unresolved, 3 callers | 33,600 | one canary at a time, what canaries back, that the flag is given back |
| `cross_owner_read` | 2 identities (one with a canary), 2 fixtures, 2 units with opposite owners | 1,874,718 | conclusions rest on resources that existed and credentials that worked |
| `cross_owner_write` | 2 non-owners, 2 fields, 3 first documents, 1 foreign edit | 1,248,425 | credit is due, restorations are verified or reported, units return |
| `engines` | `Scanner`: 2 of 3 engines, output at and past its limit; `Proc`: a child, a helper | 1,245,000 | engines are accounted for, confined, stopped and never outwait the run |
| `surface` | `Discovery`: 4 references, 3 requests; `Adapters`: 2 adapters, 3 operations | 2,080,000 | a pass stays in bounds and says what it left; facts are accounted for and overwrite nothing |
| `checks` | `Planning`: 4 operations, 2 fixtures; `AuthRequired`: 2 changes of the target; `Classification`: all; `Evidence`: 14 documents | 621,000 | nothing leaves planning in silence, verdicts are founded, comparisons exact |
| `scan` | `Store`: 3 workers, 2 exchanges; `Pipeline`: all configurations; `Reporting`: 3 units, 2 engines; `Client`: 2 callers, 12 URLs | 1,395,000 | evidence survives or is reported lost (what `EvidenceSet` specifies), exit codes and counts are true, no request leaves the scope |
| `lost_canary`, `stale_canary`, `silent_write`, `shared_restore` | as above | counterexample | four disagreements of the code with its comments (section 6) |

Runs of several components. `engines`, `surface`, `checks` and `scan` check
components side by side that do not interact through shared state: a variable
`part` chooses one, whose steps are taken while the others rest in one initial
state. This is the union of the components' behaviours, not their product, so
nothing is checked that a component alone would not show; it keeps related questions
in one configuration. Their properties are stated in the components; `Engines`, `Surface`,
`Checks` and `Run` put them together, and name the properties that are proved of them. A
liveness property is asked, and fairness assumed, of the behaviours of its own part. Where components do
interact they are composed: `CrossOwnerRead` with `Identity`, `Engine` with
`Accounting`, `Store` with `EvidenceSet`.

What the joint properties contain. `PlanWithinBounds`: a job meets every safety control, a
unit the exclusion list, the profile and its declarations, and the bound holds.
`AccountIsTrue`: each engine has its rows, a class is claimed only where every result that
names its rule was imported, a stopped process contributes nothing.
`RunsConfined`: where and when an engine may run. `ResultIsTrue`: output is whole or
marked, a stop is reported, a group dies together. `StaysWithinBounds`: own origin,
limits. `PassIsReported`: truncation where it is marked, reasons, nothing documented is called
undocumented. `FactsAccounted`: each adapter and fact, one answer per subject, each
expectation with its source. `VerdictIsFounded`: clean on a refusal, suspected on two
successes, confirmed on what the identity was served. `ReadingIsJustified`: content is
never a denial, a denial is stated, a mapping decides; and comparison is exact.
`EvidenceIsSound`: files whole, stored once, no leftovers, losses reported.
`ImplementsEvidenceSet`: what is reported lost is lost, and nothing is pending when the report
is assembled.
`ScanIsConsistent`: a conclusion is on disk, "usage" means nothing ran, a clean exit is
below the threshold, the grade is that of the surface assessed, credentials are registered before they are sent.
`ReportFollowsLedger`: all work counted, ownership counts what survived re-scoring, a
clean summary was clean, credit needs coverage. `NeverLeavesScope`: what is sent went to a
granted URL and an evaluated, permitted address; one forbidden address ends a request;
a refused URL causes no lookup; a body is whole or says so.

Why the bounds are enough. `Engine`: two units on one fixture contend for its
lock, a third on another must not be delayed, and four units on two slots fill
the semaphore; two loops are both entered and both cut short. One unit's evidence
cannot be stored, and two units share a re-scoring key. `Identity`: two callers
contend for a canary and a third makes a use behind it. `CrossOwnerRead`: each
identity is owner in one unit and non-owner in the other; one fixture is shared, one
cacheable; one identity has no canary. `CrossOwnerWrite`: a second writer finds what
the first left, and its write may time out and land between the other's two reads; one
field may already hold the written value, or not exist, while the other does not; the
first documents, three of nine, put each of the three side by side with another.
Elsewhere each limit is set so that it is kept, met exactly and passed (`Planning` 2
units, `Proc` 2 and 1 of 3 writes, `Scanner` 2 of 3 items of all engines together,
`Discovery` 2 candidates, 2 script references and 3 requests, `Evidence` depth and
size 2, `Client` a body of 4), and each
input set holds one representative of every case the code distinguishes; the header
of each `MC` module lists them.

Deadlock is checked in the runs of one component, where the steps `Returned` and
`Done` stand for a program that has ended. The four joint runs say
`CHECK_DEADLOCK FALSE`, because a part may really stop (a process that died, a pass
that is over); that they do not stop early is what `EverythingEnds`, `DiscoveryEnds`,
`NothingClearsASuccess` and `Terminates` say. No symmetry is used: it is not sound for
the liveness properties.

Fairness. Weak, and only of what the code or its libraries bound: the Go scheduler
runs every goroutine that can run; the HTTP client's timeout ends every request, body
included; the deadlines of `scanner` and `discovery` expire; a process that was killed
dies; a pipe with a reader is drained; the limiter's ticker ticks. So: `Engine` of the
caller and each worker; `Identity` of a canary in flight (nobody has to probe);
`CrossOwnerWrite` of a unit; `Scanner` of `Supervise`, `Expire`, `Kill`; `Proc` of `Go`,
`Kill`, `Expire`, `Drain`; `Discovery`, `Pipeline` and `AuthRequired` of their steps;
`Client` of `Tick` and each caller's `Do`. That a timed-out write lands, cancellation, closing, crashes and whatever a
target or child may do are owed to nobody. `CrossOwnerRead`, `Planning`, `Store`,
`Reporting`, `Adapters`, `Evidence` and `Classification` state safety only. The
instance of `Proc` has no helper that leaves its process group: with one, `proc.Run`
does not return (section 6).

Every property of a passing run has a mutant in `PROJECT.json`, most have several: a
plausible fault (an operator named in the module's comments) under which TLC finds it
violated.

## 4. The proofs

`EngineProofs` proves, for every number of jobs, units, slots and fixtures, every
safety property the run `engine` checks, and, as `EngineKeepsPromise`, that each step
of the engine is a step of `Accounting` or a stutter. The only assumption is
`EngineAssumption`: at least one slot, a fixture for each cross-owner unit, and of
what checks return that a finding comes with an executed row and that none blames
cancellation. None of the properties is inductive: each is about something shared, and
says nothing of the goroutines that will change it. `IInv` ties what is shared to the
program counters. The wait group holds the units between dispatch and return
(`PendingMatches`); the semaphore those that have not returned their token
(`SlotsMatch`, `SlotsBounded`); a fixture's lock is held by the unit inside it
(`LocksMatch`); the ledger and the findings are functions of where each unit is
and what its check returned (`RowsMatch`, `FindingsMatch`), until re-scoring
replaces row and confirmation together (`RescoredMatch`). That no worker is
pending behind `wg.Wait` (`NothingPending`) and that no goroutine runs for a unit
the loops have not reached (`NotReached`) close the argument.

`ChecksProofs` proves what the run `checks` asks, but for `NothingClearsASuccess`.

`PlanWithinBounds` and `NothingPlannedSilently` hold for every surface, configuration,
number of operations and fixtures, and bound. Of a job the first says that every safety control
permits it; of a unit that the exclusion list and the profile do, since `planOwnership` asks
for no more (section 6). (`PlanningAssumption`: the constants have their types, identities are finitely many). The
properties speak of a finished plan; `PlanInv` says the same of the prefix the loops have
passed: each operation before the cursor has its job or its row (`OperationsSoFar`), each
boundary before it its unit, its row, or the row of its fixture (`BoundariesSoFar`), each
fixture passed has left something (`FixturesSoFar`), with `CursorInRange` and `Visiting`
for where the cursor is and what it has seen of the current fixture. The bound rests on
the units being a finite set to which a step adds one, below the bound.

`VerdictIsFounded` holds for every way of answering unknown paths and every length of the
resource (`AuthRequiredAssumption`), however the target is deployed anew between the
requests. The property speaks of a verdict, the code of the requests it took: `CheckInv`
says which answers are in hand before each request (`Asked`), what each can hold, given how
the target treats paths it does not know (`Answered`), and which judgement let the check go on (`WentOn`).

`ReadingIsJustified` has two halves. The one about a single response
(`ResponsesAreReadAsTheyAre`) holds for any responses and any mapping
(`ClassificationAssumption`). `Classify` asks three readings in turn; lemmas say what each arm
of each of them means.

The one about two documents (`ComparisonsAreExact`) holds for any documents and any bounds on
depth and paths (`EvidenceAssumption`: the bounds are natural numbers, and the documents are
finite trees whose paths are those the code writes). What a whole document should yield is
defined by quantifying over its addresses, not by a second recursion, so that it can be
compared with what the walk has. Equal texts mean equal structures only where no key spells
the end of an entry: then each entry is a row of its own (`PlainRows`), and the rows give the
entries back (`PlainTextTells`). The order of entries is a constant of which nothing is assumed.
The walk is a stack of containers, each with the children
still to be visited. Each frame holds nodes of one level, whose parent has the path the frame
names (`Framed`); each leaf has been recorded or lies below a child still to be visited
(`Covered`). So a walk that ends well has recorded all of its document, and one that does not
met no document or one that passes a bound (`Walked`); `MayWalk` keeps what let the walks begin.
Nothing depends on the order in which an object's keys come.

`IdentityProofs` proves `TypeOK`, `OneCanaryAtATime`, `BackedUseWasLive` and
`DeadNeverTurnsGood` for any identities and any number of goroutines. Whoever waits for a
canary holds the flag (`FlagHeld`); a canary that passed did so with a credential that is
live or has died since (`PassedOrRaced`); and a credential is not accepted again once it
has died, so that while it is accepted every use of it was live (`AcceptedUsesAreLive`).

`CrossOwnerReadProofs` proves `TypeOK`, `HeldMeansPresent` and
`ConclusionsRestOnLiveCredentials` for any identities, fixtures and units
(`CrossOwnerAssumption`: the constants have their types and nobody is the non-owner of its
own fixture). Each step that touches a credential is shown to be a step of `Identity` or
to leave the credentials alone (`IdentityIsRefined`), so what `IdentityProofs` proves
holds here (`IdentityIsKept`). The rest is where the canaries can be: a unit waits for
one of the owner it suspects, the run for each identity once a round (`CanariesInPlace`),
and units run between the two rounds (`UnitsMatchPhase`). Then an answered closing canary
speaks for each use before it (`ClosedIsCurrent`), and a unit that got its control's
answer knows the resource was there when the non-owner asked (`PresentWhenAsked`).

`CrossOwnerWriteProofs` proves `TypeOK`, `RestoredOrReported` and `CreditIsDue` for any
non-owners and fields, any first document and any number of edits by somebody else
(`WriteAssumption`: a mutation has a field, and a unit is not named like the others that
write). What the fixture's lock gives is `LockHeld`: whoever is between its first view and its
return holds it. So a value that came since the unit's first view is its own, unless it is
the other actor's or of a write that landed late (`CreditedLate`, `WrittenByUnit`,
`InFlightLate`); a credited field did not hold the written value in that view
(`CreditedIsNew`); and what is left behind was written (`LeftIsWritten`). `PastTheLock` is
the case of a request that comes from a unit which no longer holds it.

`EnginesProofs` proves `RunsConfined` and `AccountIsTrue` of `Scanner` for any order of
the registry, input and limit (`ScannerAssumption`: no engine comes twice), and
`ResultIsTrue` of `Proc` for any helpers, those outside the process group included, any
pipe and any limit (`ProcAssumption`: types, and a pipe that holds something). Coverage means
no more than the property says: the code claims a class over results it has dropped as
nameless (section 6). The account is
true because an outcome is final when it is recorded: only the engine in hand has a
process (`NothingBeforeItsTurn`, `ProcessMatchesPhase`), no return of `Run` makes an
outcome that says more than the process did (`OutcomesFounded`), and rows, imports and
claims repeat it (`AccountRepeatsOutcome`). Supervision is sound because each unit of output is in
the buffer, in the pipe or past the limit, and a copier that is done saw a pipe nobody
holds (`CopiersAccount`); a watcher that fired has killed the group (`KilledOnStop`).

`SurfaceProofs` proves `StaysWithinBounds` and `PassIsReported` of `Discovery` for any
limits above zero and any finite stock of references, scripts and operations
(`DiscoveryAssumption`). `BudgetKept` and `CollectorKept` keep the limits at each place
that stores something of the target's; `TurnsExplained` and `CutsMarked` say that each
source that had its turn left its reason, and its mark for a cut that has one, in its own
attempt, which no later stage rewrites; `MergeSound` is about what the merge has looked at so far.

It proves `FactsAccounted` and the action property `NeverOverwritten` of `Adapters` for
any adapters, operations and documents (`AdaptersAssumption`: types, adapters that are
distinct, and operations that differ in both of their names). Each adapter passed has a
document or a failure, not both (`CollectedSoFar`). What `Parse` has accepted holds one fact to a
subject, and what it has dropped and has yet to read fit the bound (`DraftIsUsable`);
documents keep that (`DocumentsAreUsable`). A fact that was merged has its row
(`MergedSoFar`), and an expectation the specification did not state names adapters that
said so (`ExpectationsSourced`).

`RunProofs` proves what the run `scan` checks, but for `Terminates`.
- `DirectoryIsSound` (`EvidenceIsSound`), for any workers and exchanges and wherever a
  call fails, the process dies or the machine loses power (`StoreAssumption`: types and
  distinct names). `StoreInv` says of each writer's step what its temporary file holds, that a
  digest somebody writes is marked, and that a marked digest is stored, being stored, or
  lost with an error some worker keeps (`MarkedIsAccounted`).
- `KeepsEvidence` (`ImplementsEvidenceSet`), under the same assumption: `Store` implements
  `EvidenceSet`. To the invariant above it needs that an exchange being written has no error
  kept for it, and that one whose write has failed has no file (`FailuresAreLosses`); then a
  rename keeps a pending exchange, the return of a failed `WriteFile` loses one, and `Assemble`
  finds none pending. `ReportStatesWhatIs` draws the conclusion from the specification alone:
  while there is power no exchange is both on disk and reported lost, and the failures of an
  assembled report are the losses there are.
- `RequestsStayInScope` (`NeverLeavesScope`), for any callers, URLs, scope entries and
  resolutions (`ClientAssumption`: types, and there is a URL). What a wildcard or a prefix
  grants is first shown by lemmas on sequences; `Sound` then says step by step which gates a
  request has passed: the URL (`GatedByURL`), the address (`GatedByAddress`), and that it dials
  only what was resolved (`TriesTheResolved`).
- `ScansAreConsistent` (`ScanIsConsistent`) and `RefusalsAreTold` (`RefusalIsNotAbsence`),
  for any threshold and any findings (`PipelineAssumption`). `ScanInv` adds what a stage
  finds done by those before it: files are written in order (`WrittenInOrder`), identities
  registered before a credential is sent (`RegisteredFirst`), the grade kept
  (`GradedThroughout`), refusals counted (`RefusedSoFar`).
- `ReportsFollowLedgers` (`ReportFollowsLedger`), for any units, identities, engines and
  paths. `ReportInv` makes counting rows counting work: the ledger is the image of the units
  that are done (`OneRowPerUnit`), and the result has one row for each unit, identity, engine
  and path whatever the withdrawal did to their dispositions (`Accounted`); facts on the
  cardinality of disjoint and equally large finite sets do the rest. `ReportingAssumption`
  says that no two units have one name: the ids of fixtures "key the coverage ledger and
  must be unique" (`resource/resource.go:242`), as those of identities must. It leaves
  out a configuration that names one non-owner twice, which plans one unit twice; units
  are a set here.

What the prover cannot reach, and TLC checks: liveness and ENABLED (`ProbingEnds`,
`UnitsReturn`, `EverythingEnds`, `DiscoveryEnds`, `NothingClearsASuccess`, `Terminates`, and
the liveness half of `ImplementsAccounting`). Every other property of a passing run is a
theorem. `MCChecks` lays its documents out with a recursive operator; no other module has one.
`CrossOwnerWriteProofs` proves the type invariant of `CrossOwnerWrite`, which no run repeats.

Where a definition of the code is an ordered chain of conditions, the arms of its CASE
exclude each other: among arms that hold together TLA+ does not say which is chosen, TLC
takes the first, and a proof must not.

## 5. What the properties leave open

`BackedUseWasLive`, `DeadNeverTurnsGood` and `ConclusionsRestOnLiveCredentials`
except a credential whose death could not be seen: no canary is configured, the
closing canary was not sent or not answered, or it died behind a canary that had
passed. These are the limits of what the code can know, and the exceptions are
stated in the properties rather than built into the model. `HeldMeansPresent`
excepts a re-check answered by a cache, which the code does not look for.
`CreditIsDue` and `RestoredOrReported` speak of a comparison of values. Excepted are a
unit whose owner was shown an outdated version, and of credit also the written value saved
by somebody else, or by another unit's write that landed after that unit had returned; all
three happen in the run, and section 6 quotes what the code says of them. A late restoration
may undo a later unit's write, which then gets no credit: nothing is claimed of that. An
application that answers a write first and stores it later is left out; it would be a late
landing without the timeout. `RestoredOrReported` also excepts the null that a restoration
leaves where there was no field. `PassIsReported` does not claim the cuts that leave no mark,
`CoverageOnWholeOutput` not the results without a rule, `PlanWithinBounds` not
`excludeAuthEndpoints` for units, and `ReadingIsJustified` no equal structures where a key
spells the end of an entry; each is listed in section 6. `EvidenceIsSound` promises that a reference of the report resolves or its
loss is among the tool failures, as long as the disk keeps what was synced. Whether two bodies at exactly one path beyond the bound are compared depends on
the order of a map; `ReadingIsJustified` allows both and requires that a
"yes" is right. `AuthRequired`'s properties are those that hold whatever the target does;
section 6 lists what its comments promise beyond them.

## 6. Where the code and its words differ

Four disagreements are runs of their own, each with a counterexample:

- `lost_canary`: a lost canary leaves "previous knowledge intact" only if that was
  good; a credential known bad becomes unknown, and its window vanishes.
- `stale_canary`: `lastGood` is the moment a canary's answer was read. A use made
  after the target answered, with a credential that died meanwhile, is "backed".
- `silent_write`: a write the application normalises, or one behind a view that is
  no JSON object, is left in place under a row that says the boundary held.
- `shared_restore`: on a shared fixture a failed restoration is not tool state.

The others are known from writing the modules: what the code does is in the module, and
the property that the words would give is not claimed. Paths are below `src/internal/`.

Planning and counts:
- `planOwnership` asks `excludeOperations` about the operation of a unit and not about the
  read it picked for a write (`engine/ownership.go:169`); `config/config.go:131`: operations "that must never be exercised".
- `planOwnership` does not ask `excludeAuthEndpoints` at all (`engine/ownership.go:190`), so a
  cross-owner unit is planned on an authentication route; `config/config.go:133-135` and
  `engine/engine.go:120-122` say that such operations are skipped.
- A fixture aimed at an operation it cannot fill is passed over without a row if another
  operation is addressable (`engine/ownership.go:133`, comment at 138-140).
- `Verified` counts each executed ownership row, those with a finding included
  (`engine/ownership.go:326`); the field: "a non-owner was demonstrably refused" (303).
- The findings' sort key is operation and check and the sort is not stable
  (`engine/engine.go:617`), so two cross-owner findings of one operation come in either
  order; the comment at 615: "two identical runs produce byte-identical output". This is
  why `Reporting` keeps findings as a sequence and claims nothing of their order.
- Each engine that completed is credited with a covered class, whether or not it covers
  it (`engine/engine.go:923`, comment at 909).

Reports:
- With every canary lost the canary statement still says an identity "was confirmed live"
  (`report/json.go:721`) while the ledger says it is not known (`engine/engine.go:784`).
- Adapter failures reach stderr and not the summary (`cli/scan.go:222`);
  `report/json.go:912`: a line on stderr "is not the same thing".
- Without discovery the surface statement names the specification only, also when
  operations adopted from adapters are in the ledger (`report/json.go:739`).

Cross-owner writes:
- A change is called "attributable to that request rather than to unrelated activity"
  (`check/crossowner_mutate.go:162-164`, also 24), and all that is compared are the values of
  two reads (`check/mutation.go:50-66`). So the unit is credited, with a confirmed finding,
  when somebody else saved the configured value between the reads; when another unit's write
  timed out (`crossowner_mutate.go:72-83`) and landed then, the fixture having been given
  back; and when its first read was answered with an older version, of a resource that held
  the value already.
- A verifying read that is answered with an older version passes for a restoration
  (`check/crossowner_mutate.go:262`).

Declared authentication:
- Two 429s or 503s count as the behaviour of unknown paths (`check/authrequired.go:594`),
  so a catch-all may be mistaken for an exposed operation (210).
- Equivalence compares structure, so a guest's own document confirms a finding said to
  have "reached the protected resource itself" (`check/authrequired.go:431`, 439).
- A 404 is a denial and an executed row (`check/authrequired.go:263`); `outcome/outcome.go:215`:
  callers "must not count an undisambiguated 404 as meaningful coverage".
- Any answer but a success to the malformed credential reads as a rejection
  (`check/authrequired.go:390`, comment at 386).
- A gap in the evidence does not lower confidence once the control matches
  (`check/authrequired.go:431`); 492: "Naming a gap caps confidence honestly".
- A success within 5% of the catch-all page's length is executed and clean, whatever it
  holds (`check/authrequired.go:561`, detail at 291).

Comparison:
- Keys are joined with `/`, array elements are `[]`, and entries are joined with `;`
  (`check/shape.go:49`, 111-131, 185), all unescaped. An object with a key `[]` or `a/b` has the
  paths of an array or of a nested object, and one with a key `a:string;/b` the text of one
  with two fields: `{"a:string;/b": 1}` is called "materially equivalent" to
  `{"a": "x", "b": 1}`. `Evidence` models paths and the text as they are written.
- `Decode` reads the first JSON value of a body, and what follows it nobody reads
  (`check/shape.go:75-80`, 311-316); the comment at 41: a body that could not be modelled "is
  never treated as a match".

External engines:
- A process that did not start has no `ExitError`, and `Run` asks for nothing else
  (`scanner/run.go:144`, 160): nuclei reads the empty output as a completed scan. `run.go:18-24`:
  "a failed engine is never a clean result". Cancelling between probe and start is enough.
- A crash after the first readable result is a completion (`scanner/run.go:160`, against 182-186).
- A nuclei run all of whose templates failed claims its class
  (`scanner/nuclei/normalize.go:119`, against 110-116).
- Results are dropped and the class stays claimed: those whose rule id is empty once it is
  sanitised (`scanner/run.go:240-244`, after the count of 160-170), and those zap and the
  static analysers report without one (`scanner/zap/zap.go:350-352`,
  `scanner/sast/sast.go:382`). With all of them dropped, `Run` returns what `run.go:21-23`
  says no branch does: "an empty observation list and a completed status".
- `WaitDelay` counts inside `cmd.Wait`, which is called after both copiers have ended
  (`proc/proc.go:177-180`): a descendant outside the process group that holds a pipe holds
  `Run`, too; 107: it "cannot hold Wait forever".

Adapters:
- A conflict makes an operation unstated, and the next adapter's fact becomes its
  expectation (`adapter/merge.go:228`); 225-227: it "loses its expectation entirely".
- For an operation only adapters know the last adapter wins (`adapter/merge.go:180`),
  which 13-16 rule out.
- A third contradicting fact of one document is kept (`adapter/validate.go:138`, against
  134-137), and a contradiction counts one dropped fact for two (139, against 34-37).

Scan and store:
- `PutEvidence` marks a digest as seen before it writes (`store/store.go:190`): after a
  failed write a later store of the same exchange returns a reference without a file.
  The loss is among the tool failures, which is what `EvidenceIsSound` states.
- Nothing asks for signals, so an interrupt ends the process with no report
  (`cli/scan.go:82`), and an unreachable target with a specification on disk ends in
  "nothing executed" (`cli/persist.go:36`); `cli/exit.go:21`: both abort.
- Discovery's requests precede the resolution of identities (`cli/scan.go:198`, 254);
  291: identities are resolved "before any request is possible". The requests that come
  early carry no credential, which is what `ScanIsConsistent` states.
- When every executed row is withdrawn the exit code is "nothing executed" over a report
  with suspected findings (`cli/persist.go:36`, against `engine/engine.go:210-213`).
- "unassessed" is accepted as a threshold and disables the gate (`config/config.go:546`).
- "every request to the target was refused by the scope policy" is said when one was
  and the others found nothing (`cli/scan.go:444`).

Discovery:
- Of a root page 64 script references are taken, those of other hosts and repeated ones
  counted, and the rest is left without a mark (`discovery/html.go:6`, 26, against
  `discovery/discovery.go:158-161`). Behind 64 foreign ones the pass says that "every script
  the root document referenced is on another origin" (`discovery/scripts.go:69`).
- JSON scans, Link headers past 64 members and truncated bodies other than scripts' are
  cut short without `Incomplete` (`discovery/scripts.go:238`, against
  `discovery/discovery.go:158-161`).
- A disabled Link source is read when scripts are enabled (`discovery/fetch.go:84`,
  against `config/config.go:350-352`).
- `Found` counts the growth of the shared set (`discovery/scripts.go:105`);
  `discovery.go:144`: "candidates it contributed before deduplication".
- An undocumented path that equals a specification-relative template counts as
  documented (`discovery/merge.go:65`, against 51-58).

Client and scope:
- `OutOfScopeHosts` lists "hosts that were seen and not contacted" (`scope/scope.go:253`);
  a host refused for one port or path and contacted on another is listed as well
  (`scope.go:187`).
- `PathPrefix` "confines the grant to a path subtree" (`scope.go:45`); it is compared as text
  (`scope.go:182`), so `/api` grants `/apix`.
- Of a body cut at a limit of 4096 or less no tail is dropped (`httpx/httpx.go:450`), and
  the boundary the comment at 430-434 closes stays open; no default is that small.

## 7. Not modelled

- `config`, `openapi`, `resource`: the parsing and validation of files. The other modules
  take what they accept as their inputs; there is no behaviour beyond a verdict per file.
- The grammar of each engine's output and command lines, the adapters' extractors (PHP
  among them), the tokenising of HTML and JavaScript, and the text of reports, logs, SARIF
  and redaction: formats, in which a model would repeat the code.
- How a credential is read from the environment or a file.
- TLS, HTTP framing, the Go runtime, the file system below `rename` and `fsync`: external,
  modelled by what they promise.

## 8. Plan

1. An abstract verdict for the checks (a conclusion follows from what the target did) that
   `CrossOwnerRead` and `AuthRequired` implement. Their properties say it of each of them.
2. Units in `Reporting` as a bag, to take in a configuration that names one non-owner twice.
3. The hazards that no property covers: the order of findings that tie
   (`engine/engine.go:617`), a helper that leaves its process group (`proc/proc.go:177`) and
   "nothing executed" over suspected findings (`cli/persist.go:36`). In each the code allows
   what a property would exclude.
4. A write the application answers before it stores it, in `CrossOwnerWrite`.
