------------------------------- MODULE Engine -------------------------------
(***************************************************************************)
(* The execution half of internal/engine: engine.Run from the end of       *)
(* planning to the assembled result.                                       *)
(*                                                                         *)
(* One goroutine (the caller of Run) walks the planned operation checks    *)
(* and then the planned cross-owner units. For each it takes a slot of a   *)
(* channel used as a semaphore and starts a worker goroutine. A worker     *)
(* runs its check, records which authenticated controls it relied on,      *)
(* stores its evidence, appends one row to the coverage ledger, reports    *)
(* failures and a finding, and leaves through its deferred calls. The      *)
(* context may be cancelled at any moment. When every worker has left, the *)
(* identities are probed once more and the work that rested on a           *)
(* credential found dead is withdrawn.                                     *)
(*                                                                         *)
(* Abstracted: what a check does (module CrossOwnerRead has it) is an      *)
(* element of Results; a clock reading of a control against a window of    *)
(* uncertainty is a choice of the controls that are stale.                 *)
(***************************************************************************)
EXTENDS Naturals, Sequences, FiniteSets

CONSTANTS
  NJobs,        \* len(jobs): planned operation checks
  NOwnership,   \* len(ownership): planned cross-owner units
  Concurrency,  \* opts.Concurrency, after it was raised to at least 1
  Fixtures,     \* fixture ids
  FixtureOf,    \* the fixture of each cross-owner unit
  KeyOf,        \* (subject, checkID, resourceID) of each unit: what re-scoring goes by
  Results,      \* what a check may return, a subset of AllResults
  Unstorable    \* the units whose evidence the sink fails to persist

NUnits == NJobs + NOwnership
Units == 1 .. NUnits
Jobs == 1 .. NJobs
Ownership == (NJobs + 1) .. NUnits

\* No unit: the zero value of a holder.
Nobody == 0

Dispositions == {"executed", "blocked"}
Causes == {"none", "transport_error", "other", "cancelled", "authentication_failed"}
FindingStates == {"none", "suspected", "confirmed"}

\* check.Result, cut down to what the engine does with it: `relied` says whether
\* ControlsUsed is non-empty, `failed` whether ToolFailure is set.
AllResults ==
  [disp : Dispositions, cause : Causes, finding : FindingStates,
   relied : BOOLEAN, failed : BOOLEAN]

\* A check raises a finding with an executed disposition only, and none blames
\* cancellation: a request cut short by it is a transport error.
ASSUME EngineAssumption ==
  /\ NJobs \in Nat
  /\ NOwnership \in Nat
  /\ Concurrency \in Nat \ {0}
  /\ FixtureOf \in [Ownership -> Fixtures]
  /\ DOMAIN KeyOf = Units
  /\ Unstorable \subseteq Units
  /\ Results \subseteq AllResults
  /\ \A r \in Results : r.finding # "none" => r.disp = "executed"
  /\ \A r \in Results : r.cause # "cancelled"

Row == [disp : Dispositions, cause : Causes]
CancelledRow == [disp |-> "blocked", cause |-> "cancelled"]
WithdrawnRow == [disp |-> "blocked", cause |-> "authentication_failed"]

VARIABLES
  cancelled,  \* ctx.Err() # nil
  main,       \* where the caller of Run is
  next,       \* the unit the dispatch loops have reached
  pending,    \* the WaitGroup: units added and not yet done
  slots,      \* the semaphore: units whose token is in the channel
  holder,     \* the fixture locks
  worker,     \* where each unit's goroutine is
  out,        \* what each unit's check returned
  controls,   \* the control log: units with a recorded use
  failures,   \* the tool failures
  ledger,     \* the rows appended for each unit (their order is sorted away)
  findings,   \* the state of each unit's finding
  stale       \* the units whose control lies in a window of uncertainty

vars == <<cancelled, main, next, pending, slots, holder, worker, out, controls,
          failures, ledger, findings, stale>>

MainStates == {"dispatch", "acquire", "wait", "probe", "rescore", "done"}

\* A worker's life. A cross-owner unit goes through "locking" and "unlocking".
WorkerStates ==
  {"idle", "locking", "running", "recording", "storing", "posting", "reporting",
   "unlocking", "releasing", "leaving", "finished"}

NoResult == [disp |-> "blocked", cause |-> "none", finding |-> "none",
             relied |-> FALSE, failed |-> FALSE]

Init ==
  /\ cancelled = FALSE
  /\ main = "dispatch"
  /\ next = 1
  /\ pending = {}
  /\ slots = {}
  /\ holder = [f \in Fixtures |-> Nobody]
  /\ worker = [u \in Units |-> "idle"]
  /\ out = [u \in Units |-> NoResult]
  /\ controls = {}
  /\ failures = {}
  /\ ledger = [u \in Units |-> <<>>]
  /\ findings = [u \in Units |-> "none"]
  /\ stale = {}

\* Whoever owns ctx cancels it, once, at any moment before Run returns.
Cancel ==
  /\ ~cancelled
  /\ main # "done"
  /\ cancelled' = TRUE
  /\ UNCHANGED <<main, next, pending, slots, holder, worker, out, controls,
                 failures, ledger, findings, stale>>

-----------------------------------------------------------------------------
(* The caller of Run.                                                      *)

\* There is room in the channel of capacity opts.Concurrency.
\* (RoomForOneMore: the fault of a bound that is off by one.)
RoomForOneMore == Cardinality(slots) <= Concurrency
HasRoom == Cardinality(slots) < Concurrency

\* The last unit of the loop that unit i is dispatched by. (LoopEndPast: the fault
\* of a half-open range closed.)
LoopEndPast(i) == IF i <= NJobs THEN NJobs ELSE NUnits + 1
LoopEnd(i) == IF i <= NJobs THEN NJobs ELSE NUnits

\* jobs[i:], or ownership[i:]: what a cancelled loop accounts for and gives up.
\* (UnreachedAfterThis: the fault of ranging over jobs[i+1:]; UnreachedOrNot: that
\* of ranging over all of jobs.)
UnreachedOrNot == 1 .. LoopEnd(next)
UnreachedAfterThis == (next + 1) .. LoopEnd(next)
Unreached == next .. LoopEnd(next)

\* ctx.Err() == nil: wg.Add(1), then block on the semaphore.
Dispatch ==
  /\ main = "dispatch"
  /\ next <= NUnits
  /\ ~cancelled
  /\ main' = "acquire"
  /\ pending' = pending \cup {next}
  /\ UNCHANGED <<cancelled, next, slots, holder, worker, out, controls,
                 failures, ledger, findings, stale>>

\* sem <- struct{}{} goes through, and the unit's goroutine starts. ctx is not
\* read again: a unit that waited here while ctx was cancelled still starts.
Acquire ==
  /\ main = "acquire"
  /\ HasRoom
  /\ slots' = slots \cup {next}
  /\ worker' = [worker EXCEPT ![next] = IF next \in Ownership THEN "locking" ELSE "running"]
  /\ next' = next + 1
  /\ main' = "dispatch"
  /\ UNCHANGED <<cancelled, pending, holder, out, controls, failures, ledger,
                 findings, stale>>

\* ctx.Err() != nil: a row for every unit this loop has not reached, and break.
GiveUp ==
  /\ main = "dispatch"
  /\ next <= NUnits
  /\ cancelled
  /\ ledger' = [u \in Units |-> IF u \in Unreached THEN Append(ledger[u], CancelledRow)
                                                   ELSE ledger[u]]
  /\ next' = LoopEnd(next) + 1
  /\ UNCHANGED <<cancelled, main, pending, slots, holder, worker, out, controls,
                 failures, findings, stale>>

LoopsOver ==
  /\ main = "dispatch"
  /\ next > NUnits
  /\ main' = "wait"
  /\ UNCHANGED <<cancelled, next, pending, slots, holder, worker, out, controls,
                 failures, ledger, findings, stale>>

\* wg.Wait() (NoWait: the fault of a wg.Add the new goroutine makes too late.)
NoWait == TRUE
WaitOver == pending = {}

Wait ==
  /\ main = "wait"
  /\ WaitOver
  /\ main' = "probe"
  /\ UNCHANGED <<cancelled, next, pending, slots, holder, worker, out, controls,
                 failures, ledger, findings, stale>>

\* probeIdentities, then Statuses: what the last canaries say decides which of
\* the recorded controls ran inside a window of uncertainty. (A cancelled
\* context skips the probes, but an earlier canary may have opened a window.)
ProbeAgain ==
  /\ main = "probe"
  /\ stale' \in SUBSET controls
  /\ main' = "rescore"
  /\ UNCHANGED <<cancelled, next, pending, slots, holder, worker, out, controls,
                 failures, ledger, findings>>

\* The affected map of invalidateExpiredControls. Its key names neither the
\* non-owner nor the identity, so units may share one.
Affected(u) == \E v \in stale : KeyOf[v] = KeyOf[u]

RescoredRows(u) == [i \in DOMAIN ledger[u] |-> IF Affected(u) THEN WithdrawnRow ELSE ledger[u][i]]

\* A confirmed finding is demoted, never dropped. (FindingKept: the fault of
\* withdrawing the row and forgetting the finding.)
FindingKept(u) == findings[u]
RescoredFinding(u) ==
  IF Affected(u) /\ findings[u] = "confirmed" THEN "suspected" ELSE findings[u]

\* invalidateExpiredControls and the assembly of the result.
Rescore ==
  /\ main = "rescore"
  /\ ledger' = [u \in Units |-> RescoredRows(u)]
  /\ findings' = [u \in Units |-> RescoredFinding(u)]
  /\ main' = "done"
  /\ UNCHANGED <<cancelled, next, pending, slots, holder, worker, out, controls,
                 failures, stale>>

-----------------------------------------------------------------------------
(* A unit's goroutine.                                                     *)

Goes(u, from, to) ==
  /\ worker[u] = from
  /\ worker' = [worker EXCEPT ![u] = to]

\* lock.Lock() on the mutex of the unit's fixture. (NoLock: the fault of not
\* taking it.)
NoLock(u) == TRUE
FixtureFree(u) == holder[FixtureOf[u]] = Nobody

LockFixture(u) ==
  /\ Goes(u, "locking", "running")
  /\ FixtureFree(u)
  /\ holder' = [holder EXCEPT ![FixtureOf[u]] = u]
  /\ UNCHANGED <<cancelled, main, next, pending, slots, out, controls, failures,
                 ledger, findings, stale>>

\* Check.Run or ResourceCheck.RunResource returns. Every request it makes is
\* bounded by the HTTP client's timeout, so it does return.
RunCheck(u) ==
  /\ Goes(u, "running", "recording")
  /\ \E r \in Results : out' = [out EXCEPT ![u] = r]
  /\ UNCHANGED <<cancelled, main, next, pending, slots, holder, controls, failures,
                 ledger, findings, stale>>

\* controls.record for each of out.ControlsUsed
RecordControls(u) ==
  /\ Goes(u, "recording", "storing")
  /\ controls' = IF out[u].relied THEN controls \cup {u} ELSE controls
  /\ UNCHANGED <<cancelled, main, next, pending, slots, holder, out, failures,
                 ledger, findings, stale>>

\* storeExchanges: a sink that fails is a tool failure, and the row has no reference.
StoreEvidence(u) ==
  /\ Goes(u, "storing", "posting")
  /\ failures' = failures \cup ({"evidence"} \X ({u} \cap Unstorable))
  /\ UNCHANGED <<cancelled, main, next, pending, slots, holder, out, controls,
                 ledger, findings, stale>>

PostRow(u) ==
  /\ Goes(u, "posting", "reporting")
  /\ ledger' = [ledger EXCEPT ![u] = Append(@, [disp |-> out[u].disp, cause |-> out[u].cause])]
  /\ UNCHANGED <<cancelled, main, next, pending, slots, holder, out, controls,
                 failures, findings, stale>>

FailuresOf(u) ==
  (IF u \in Ownership /\ out[u].failed THEN {<<"tool", u>>} ELSE {})
  \cup (IF out[u].disp = "blocked" /\ out[u].cause = "transport_error"
        THEN {<<"transport", u>>} ELSE {})

\* The failures and the finding follow the row.
ReportOutcome(u) ==
  /\ Goes(u, "reporting", IF u \in Ownership THEN "unlocking" ELSE "releasing")
  /\ failures' = failures \cup FailuresOf(u)
  /\ findings' = [findings EXCEPT ![u] = out[u].finding]
  /\ UNCHANGED <<cancelled, main, next, pending, slots, holder, out, controls,
                 ledger, stale>>

\* The deferred calls, last deferred first: the fixture's lock, the slot, wg.Done.
UnlockFixture(u) ==
  /\ Goes(u, "unlocking", "releasing")
  /\ holder' = [holder EXCEPT ![FixtureOf[u]] = Nobody]
  /\ UNCHANGED <<cancelled, main, next, pending, slots, out, controls, failures,
                 ledger, findings, stale>>

\* (TokenKept: the fault of a forgotten <-sem.)
TokenKept(u) == slots
TokenReturned(u) == slots \ {u}

ReleaseSlot(u) ==
  /\ Goes(u, "releasing", "leaving")
  /\ slots' = TokenReturned(u)
  /\ UNCHANGED <<cancelled, main, next, pending, holder, out, controls, failures,
                 ledger, findings, stale>>

Leave(u) ==
  /\ Goes(u, "leaving", "finished")
  /\ pending' = pending \ {u}
  /\ UNCHANGED <<cancelled, main, next, slots, holder, out, controls, failures,
                 ledger, findings, stale>>

-----------------------------------------------------------------------------
MainStep == Dispatch \/ Acquire \/ GiveUp \/ LoopsOver \/ Wait \/ ProbeAgain \/ Rescore

WorkerStep(u) ==
  \/ LockFixture(u) \/ RunCheck(u) \/ RecordControls(u) \/ StoreEvidence(u)
  \/ PostRow(u) \/ ReportOutcome(u) \/ UnlockFixture(u) \/ ReleaseSlot(u) \/ Leave(u)

\* Run has returned.
Returned ==
  /\ main = "done"
  /\ UNCHANGED vars

Next ==
  \/ Cancel
  \/ MainStep
  \/ \E u \in Units : WorkerStep(u)
  \/ Returned

\* The Go scheduler runs every goroutine that can run, a send on the semaphore
\* goes through once there is room (only one goroutine sends), and a unit waiting
\* for a fixture gets it: finitely many units ever want it. Cancellation is owed
\* to nobody.
Fairness ==
  /\ WF_vars(MainStep)
  /\ \A u \in Units : WF_vars(WorkerStep(u))

Spec == Init /\ [][Next]_vars /\ Fairness

-----------------------------------------------------------------------------
TypeOK ==
  /\ cancelled \in BOOLEAN
  /\ main \in MainStates
  /\ next \in 1 .. (NUnits + 1)
  /\ pending \in SUBSET Units
  /\ slots \in SUBSET Units
  /\ holder \in [Fixtures -> Units \cup {Nobody}]
  /\ worker \in [Units -> WorkerStates]
  /\ out \in [Units -> Results \cup {NoResult}]
  /\ controls \in SUBSET Units
  /\ failures \in SUBSET ({"evidence", "tool", "transport"} \X Units)
  /\ ledger \in [Units -> Seq(Row)]
  /\ findings \in [Units -> FindingStates]
  /\ stale \in SUBSET Units

\* "Every planned job must appear in the ledger": in whatever order workers
\* finish and whenever the context is cancelled, no unit ever has two rows, and
\* once the loops and the workers are over each has one.
OneRowEach ==
  /\ \A u \in Units : Len(ledger[u]) <= 1
  /\ main \in {"probe", "rescore", "done"} => \A u \in Units : Len(ledger[u]) = 1

\* Two units that observe one fixture never run together, however many slots
\* there are: fixtureLocks is what makes a unit's observations its own.
Observing(u) == worker[u] \in {"running", "recording", "storing", "posting", "reporting"}

FixtureExclusion ==
  \A u, v \in Ownership :
    Observing(u) /\ Observing(v) /\ FixtureOf[u] = FixtureOf[v] => u = v

\* At most opts.Concurrency checks are under way.
BoundedConcurrency == Cardinality({u \in Units : Observing(u)}) <= Concurrency

\* The closing canaries are sent, and the control log and the ledger are read
\* without their locks, only when no goroutine is left that could still issue a
\* request, record a control or append a row.
SettledBeforeClosing ==
  main \in {"probe", "rescore", "done"} => \A u \in Units : worker[u] \in {"idle", "finished"}

\* A report never shows a confirmed finding next to a row that says the work
\* established nothing: the row and the finding are re-scored by one key.
FindingsAgreeWithLedger ==
  main = "done" =>
    \A u \in Units : findings[u] = "confirmed" => ledger[u][1].disp = "executed"

\* A row that says the run was cancelled before the unit was reached is true:
\* the unit's goroutine never started.
CancelledMeansNeverStarted ==
  \A u \in Units : ledger[u] = <<CancelledRow>> => worker[u] = "idle"

\* The engine keeps the promise of module Accounting: each unit accounted for
\* once and for good, and the report published after all of them, eventually.
Promise == INSTANCE Accounting WITH
  accounted <- {u \in Units : ledger[u] # <<>>},
  published <- (main = "done")

ImplementsAccounting == Promise!Spec
=============================================================================
