---------------------------- MODULE EngineProofs ----------------------------
(***************************************************************************)
(* Theorems about Engine, for every number of jobs, cross-owner units,     *)
(* slots and fixtures.                                                     *)
(*                                                                         *)
(* TypeOK is inductive together with MainInRange. The other properties     *)
(* follow from IInv, which ties what is shared (the WaitGroup, the         *)
(* semaphore, the fixture locks, the ledger, the findings) to where each   *)
(* unit's goroutine is.                                                    *)
(***************************************************************************)
EXTENDS Engine, FiniteSetTheorems, TLAPS

USE EngineAssumption

-----------------------------------------------------------------------------
(* Facts about the constants.                                              *)

LEMMA UnitsAreNumbers ==
  /\ NUnits \in Nat
  /\ \A u : u \in Units <=> (u \in Nat /\ 1 <= u /\ u <= NUnits)
  /\ \A u : u \in Ownership <=> (u \in Nat /\ NJobs < u /\ u <= NUnits)
  /\ Ownership \subseteq Units
  /\ Nobody \notin Units
BY DEF NUnits, Units, Ownership, Nobody

LEMMA ResultsAreTyped ==
  \A r \in Results \cup {NoResult} :
    /\ r.disp \in Dispositions
    /\ r.cause \in Causes
    /\ r.finding \in FindingStates
    /\ [disp |-> r.disp, cause |-> r.cause] \in Row
BY DEF AllResults, NoResult, Dispositions, Causes, FindingStates, Row

\* Every unit's next row lies in the loop that dispatches it.
LEMMA LoopEndBounds ==
  ASSUME NEW i \in Units
  PROVE  /\ LoopEnd(i) \in Units
         /\ i <= LoopEnd(i)
BY UnitsAreNumbers DEF LoopEnd, NUnits

-----------------------------------------------------------------------------
(* Type correctness.                                                       *)

\* The caller of Run takes a slot for a unit that exists, and leaves the loops
\* when there is none left.
MainInRange ==
  /\ main = "acquire" => next <= NUnits
  /\ main \in {"wait", "probe", "rescore", "done"} => next = NUnits + 1

LEMMA TypeInit == Init => TypeOK /\ MainInRange
<1> SUFFICES ASSUME Init PROVE TypeOK /\ MainInRange
  OBVIOUS
<1>1. next \in 1 .. (NUnits + 1)
  BY UnitsAreNumbers DEF Init
<1>2. ledger \in [Units -> Seq(Row)]
  BY DEF Init
<1>3. out \in [Units -> Results \cup {NoResult}]
  BY DEF Init
<1> QED
  BY <1>1, <1>2, <1>3 DEF Init, TypeOK, MainInRange, MainStates, WorkerStates, FindingStates

\* A worker's move keeps the type of worker.
LEMMA GoesType ==
  ASSUME TypeOK, NEW u \in Units, NEW from, NEW to \in WorkerStates, Goes(u, from, to)
  PROVE  worker' \in [Units -> WorkerStates]
BY DEF TypeOK, Goes

LEMMA TypeStep == TypeOK /\ MainInRange /\ [Next]_vars => TypeOK'
<1> SUFFICES ASSUME TypeOK, MainInRange, [Next]_vars PROVE TypeOK'
  OBVIOUS
<1>1. CASE Cancel
  BY <1>1 DEF Cancel, TypeOK
<1>2. CASE Dispatch
  <2>1. next \in Units
    BY <1>2, UnitsAreNumbers DEF Dispatch, TypeOK, Units
  <2> QED BY <1>2, <2>1 DEF Dispatch, TypeOK, MainStates
<1>3. CASE Acquire
  <2>1. next' \in 1 .. (NUnits + 1) /\ next \in Units
    BY <1>3, UnitsAreNumbers DEF Acquire, TypeOK, MainInRange, Units
  <2>2. worker' \in [Units -> WorkerStates]
    BY <1>3 DEF Acquire, TypeOK, WorkerStates
  <2> QED BY <1>3, <2>1, <2>2 DEF Acquire, TypeOK, MainStates
<1>4. CASE GiveUp
  <2>1. next \in Units
    BY <1>4, UnitsAreNumbers DEF GiveUp, TypeOK, Units
  <2>2. next' \in 1 .. (NUnits + 1)
    BY <1>4, <2>1, UnitsAreNumbers, LoopEndBounds DEF GiveUp
  <2>3. CancelledRow \in Row
    BY DEF CancelledRow, Row, Dispositions, Causes
  <2>4. ledger' \in [Units -> Seq(Row)]
    BY <1>4, <2>3 DEF GiveUp, TypeOK
  <2> QED BY <1>4, <2>2, <2>4 DEF GiveUp, TypeOK
<1>5. CASE LoopsOver
  BY <1>5 DEF LoopsOver, TypeOK, MainStates
<1>6. CASE Wait
  BY <1>6 DEF Wait, TypeOK, MainStates
<1>7. CASE ProbeAgain
  <2>1. stale' \in SUBSET Units
    BY <1>7 DEF ProbeAgain, TypeOK
  <2> QED BY <1>7, <2>1 DEF ProbeAgain, TypeOK, MainStates
<1>8. CASE Rescore
  <2>1. WithdrawnRow \in Row
    BY DEF WithdrawnRow, Row, Dispositions, Causes
  <2>2. ASSUME NEW u \in Units PROVE RescoredRows(u) \in Seq(Row)
    <3>1. ledger[u] \in Seq(Row)
      BY DEF TypeOK
    <3>2. DOMAIN ledger[u] = 1 .. Len(ledger[u]) /\ Len(ledger[u]) \in Nat
      BY <3>1
    <3>3. \A i \in 1 .. Len(ledger[u]) : ledger[u][i] \in Row
      BY <3>1
    <3>4. RescoredRows(u) \in [1 .. Len(ledger[u]) -> Row]
      BY <2>1, <3>2, <3>3 DEF RescoredRows
    <3> QED BY <3>2, <3>4
  <2>3. \A u \in Units : RescoredFinding(u) \in FindingStates
    BY DEF RescoredFinding, FindingStates, TypeOK
  <2> QED BY <1>8, <2>2, <2>3 DEF Rescore, TypeOK, MainStates
<1>9. ASSUME NEW u \in Units, WorkerStep(u) PROVE TypeOK'
  <2>1. CASE LockFixture(u)
    <3>1. worker' \in [Units -> WorkerStates]
      BY <2>1, GoesType DEF LockFixture, WorkerStates
    <3>2. holder' \in [Fixtures -> Units \cup {Nobody}]
      BY <2>1 DEF LockFixture, TypeOK
    <3> QED BY <2>1, <3>1, <3>2 DEF LockFixture, TypeOK
  <2>2. CASE RunCheck(u)
    <3>1. worker' \in [Units -> WorkerStates]
      BY <2>2, GoesType DEF RunCheck, WorkerStates
    <3>2. out' \in [Units -> Results \cup {NoResult}]
      BY <2>2 DEF RunCheck, TypeOK
    <3> QED BY <2>2, <3>1, <3>2 DEF RunCheck, TypeOK
  <2>3. CASE RecordControls(u)
    <3>1. worker' \in [Units -> WorkerStates]
      BY <2>3, GoesType DEF RecordControls, WorkerStates
    <3> QED BY <2>3, <3>1 DEF RecordControls, TypeOK
  <2>4. CASE StoreEvidence(u)
    <3>1. worker' \in [Units -> WorkerStates]
      BY <2>4, GoesType DEF StoreEvidence, WorkerStates
    <3>2. {"evidence"} \X ({u} \cap Unstorable) \subseteq {"evidence", "tool", "transport"} \X Units
      OBVIOUS
    <3> QED BY <2>4, <3>1, <3>2 DEF StoreEvidence, TypeOK
  <2>5. CASE PostRow(u)
    <3>1. worker' \in [Units -> WorkerStates]
      BY <2>5, GoesType DEF PostRow, WorkerStates
    <3>2. [disp |-> out[u].disp, cause |-> out[u].cause] \in Row
      BY ResultsAreTyped DEF TypeOK
    <3>3. ledger' \in [Units -> Seq(Row)]
      BY <2>5, <3>2 DEF PostRow, TypeOK
    <3> QED BY <2>5, <3>1, <3>3 DEF PostRow, TypeOK
  <2>6. CASE ReportOutcome(u)
    <3>1. worker' \in [Units -> WorkerStates]
      BY <2>6, GoesType DEF ReportOutcome, WorkerStates
    <3>2. FailuresOf(u) \subseteq {"evidence", "tool", "transport"} \X Units
      BY DEF FailuresOf
    <3>3. findings' \in [Units -> FindingStates]
      BY <2>6, ResultsAreTyped DEF ReportOutcome, TypeOK
    <3> QED BY <2>6, <3>1, <3>2, <3>3 DEF ReportOutcome, TypeOK
  <2>7. CASE UnlockFixture(u)
    <3>1. worker' \in [Units -> WorkerStates]
      BY <2>7, GoesType DEF UnlockFixture, WorkerStates
    <3>2. holder' \in [Fixtures -> Units \cup {Nobody}]
      BY <2>7 DEF UnlockFixture, TypeOK
    <3> QED BY <2>7, <3>1, <3>2 DEF UnlockFixture, TypeOK
  <2>8. CASE ReleaseSlot(u)
    <3>1. worker' \in [Units -> WorkerStates]
      BY <2>8, GoesType DEF ReleaseSlot, WorkerStates
    <3> QED BY <2>8, <3>1 DEF ReleaseSlot, TokenReturned, TypeOK
  <2>9. CASE Leave(u)
    <3>1. worker' \in [Units -> WorkerStates]
      BY <2>9, GoesType DEF Leave, WorkerStates
    <3> QED BY <2>9, <3>1 DEF Leave, TypeOK
  <2> QED BY <1>9, <2>1, <2>2, <2>3, <2>4, <2>5, <2>6, <2>7, <2>8, <2>9 DEF WorkerStep
<1>10. CASE Returned \/ UNCHANGED vars
  BY <1>10 DEF Returned, vars, TypeOK
<1> QED
  BY <1>1, <1>2, <1>3, <1>4, <1>5, <1>6, <1>7, <1>8, <1>9, <1>10 DEF Next, MainStep

LEMMA MainStaysInRange == TypeOK /\ MainInRange /\ [Next]_vars => MainInRange'
<1> SUFFICES ASSUME TypeOK, MainInRange, [Next]_vars PROVE MainInRange'
  OBVIOUS
<1>1. CASE Dispatch \/ Acquire \/ Wait \/ ProbeAgain \/ Rescore
  BY <1>1 DEF Dispatch, Acquire, Wait, ProbeAgain, Rescore, MainInRange
<1>2. CASE GiveUp
  BY <1>2 DEF GiveUp, MainInRange
<1>3. CASE LoopsOver
  BY <1>3, UnitsAreNumbers DEF LoopsOver, MainInRange, TypeOK
<1>4. CASE Cancel \/ (\E u \in Units : WorkerStep(u)) \/ Returned \/ UNCHANGED vars
  BY <1>4 DEF MainInRange, Cancel, Returned, vars, WorkerStep, LockFixture, RunCheck,
              RecordControls, StoreEvidence, PostRow, ReportOutcome, UnlockFixture,
              ReleaseSlot, Leave
<1> QED
  BY <1>1, <1>2, <1>3, <1>4 DEF Next, MainStep

\* Every variable of the engine keeps its type, for all values of the constants.
THEOREM TypeCorrect == Spec => []TypeOK
<1>1. Init => TypeOK /\ MainInRange
  BY TypeInit
<1>2. (TypeOK /\ MainInRange) /\ [Next]_vars => (TypeOK /\ MainInRange)'
  BY TypeStep, MainStaysInRange
<1> QED BY <1>1, <1>2, PTL DEF Spec

-----------------------------------------------------------------------------
(* The inductive invariant.                                                *)

\* A worker that holds its slot; that holds or wants its fixture's lock; that has
\* yet to append its row; that has reported.
Holding == {"locking", "running", "recording", "storing", "posting", "reporting",
            "unlocking", "releasing"}
Locked == {"running", "recording", "storing", "posting", "reporting", "unlocking"}
RowPending == {"locking", "running", "recording", "storing", "posting"}
Reported == {"unlocking", "releasing", "leaving", "finished"}

\* No goroutine runs for a unit the loops have not reached.
NotReached == \A u \in Units : u >= next => worker[u] = "idle"

\* The WaitGroup counts the goroutines, and the unit that waits for its slot.
PendingMatches ==
  pending = {u \in Units : worker[u] \notin {"idle", "finished"}}
            \cup (IF main = "acquire" THEN {next} ELSE {})

\* The semaphore holds one token for each goroutine that has not returned it.
SlotsMatch == slots = {u \in Units : worker[u] \in Holding}

SlotsBounded == IsFiniteSet(slots) /\ Cardinality(slots) <= Concurrency

\* Only cross-owner units lock, and one that is inside has its fixture's lock.
LocksMatch ==
  \A u \in Units :
    /\ worker[u] \in {"locking", "unlocking"} => u \in Ownership
    /\ u \in Ownership /\ worker[u] \in Locked => holder[FixtureOf[u]] = u

\* The caller is past wg.Wait only when nothing is pending.
NothingPending == main \in {"probe", "rescore", "done"} => pending = {}

\* The rows of a unit before re-scoring, as a function of where it is.
OutcomeRow(u) == [disp |-> out[u].disp, cause |-> out[u].cause]
ExpectedRows(u) ==
  IF u >= next \/ worker[u] \in RowPending THEN <<>>
  ELSE IF worker[u] = "idle" THEN <<CancelledRow>> ELSE <<OutcomeRow(u)>>

RowsMatch == main # "done" => \A u \in Units : ledger[u] = ExpectedRows(u)

FindingsMatch ==
  main # "done" =>
    \A u \in Units : findings[u] = IF worker[u] \in Reported THEN out[u].finding ELSE "none"

\* Re-scoring replaces a row and withdraws the confirmation with it.
RescoredMatch ==
  main = "done" =>
    \A u \in Units :
      \/ ledger[u] = ExpectedRows(u)
         /\ findings[u] = IF worker[u] \in Reported THEN out[u].finding ELSE "none"
      \/ ledger[u] = <<WithdrawnRow>> /\ findings[u] # "confirmed"

IInv ==
  /\ TypeOK /\ MainInRange
  /\ NotReached /\ PendingMatches /\ SlotsMatch /\ SlotsBounded /\ LocksMatch
  /\ NothingPending /\ RowsMatch /\ FindingsMatch /\ RescoredMatch

LEMMA InvInit == Init => IInv
<1> SUFFICES ASSUME Init PROVE IInv
  OBVIOUS
<1>1. TypeOK /\ MainInRange
  BY TypeInit
<1>2. NotReached /\ LocksMatch /\ NothingPending /\ FindingsMatch /\ RescoredMatch
  BY DEF Init, NotReached, LocksMatch, NothingPending, FindingsMatch, RescoredMatch, Locked,
         Reported
<1>3. PendingMatches /\ SlotsMatch
  BY DEF Init, PendingMatches, SlotsMatch, Holding
<1>4. SlotsBounded
  BY FS_EmptySet DEF Init, SlotsBounded
<1>5. RowsMatch
  BY UnitsAreNumbers DEF Init, RowsMatch, ExpectedRows, Units
<1> QED BY <1>1, <1>2, <1>3, <1>4, <1>5 DEF IInv

\* What every step of a worker has in common.
LEMMA WorkerMoves ==
  ASSUME TypeOK, NEW u \in Units, WorkerStep(u)
  PROVE  /\ UNCHANGED <<cancelled, main, next, stale>>
         /\ worker[u] \notin {"idle", "finished"}
         /\ worker'[u] # "idle"
         /\ \A v \in Units : v # u => worker'[v] = worker[v]
<1> USE DEF TypeOK, Goes
<1>1. CASE LockFixture(u)
  BY <1>1 DEF LockFixture
<1>2. CASE RunCheck(u)
  BY <1>2 DEF RunCheck
<1>3. CASE RecordControls(u)
  BY <1>3 DEF RecordControls
<1>4. CASE StoreEvidence(u)
  BY <1>4 DEF StoreEvidence
<1>5. CASE PostRow(u)
  BY <1>5 DEF PostRow
<1>6. CASE ReportOutcome(u)
  BY <1>6 DEF ReportOutcome
<1>7. CASE UnlockFixture(u)
  BY <1>7 DEF UnlockFixture
<1>8. CASE ReleaseSlot(u)
  BY <1>8 DEF ReleaseSlot
<1>9. CASE Leave(u)
  BY <1>9 DEF Leave
<1> QED BY <1>1, <1>2, <1>3, <1>4, <1>5, <1>6, <1>7, <1>8, <1>9 DEF WorkerStep

\* A unit that moves has been reached, and the caller has not passed wg.Wait.
LEMMA MoverIsPending ==
  ASSUME IInv, NEW u \in Units, WorkerStep(u)
  PROVE  u < next /\ u \in pending /\ main \notin {"probe", "rescore", "done"}
<1>1. worker[u] \notin {"idle", "finished"}
  BY WorkerMoves DEF IInv
<1>2. u \in pending
  BY <1>1 DEF IInv, PendingMatches
<1>3. main \notin {"probe", "rescore", "done"}
  BY <1>2 DEF IInv, NothingPending
<1>4. u \in Nat /\ next \in Nat
  BY UnitsAreNumbers DEF IInv, TypeOK, Units
<1>5. ~(u >= next)
  BY <1>1 DEF IInv, NotReached
<1> QED BY <1>2, <1>3, <1>4, <1>5

LEMMA NotReachedStep == IInv /\ [Next]_vars => NotReached'
<1> SUFFICES ASSUME IInv, [Next]_vars PROVE NotReached'
  OBVIOUS
<1> USE DEF IInv, NotReached
<1>1. CASE Acquire
  <2> SUFFICES ASSUME NEW u \in Units, u >= next' PROVE worker'[u] = "idle"
    OBVIOUS
  <2>1. u \in Nat /\ next \in Nat /\ next' = next + 1
    BY <1>1, UnitsAreNumbers DEF Acquire, TypeOK, Units
  <2>2. u # next /\ u >= next
    BY <2>1
  <2> QED BY <1>1, <2>2 DEF Acquire, TypeOK
<1>2. CASE GiveUp
  <2>1. next \in Units
    BY <1>2, UnitsAreNumbers DEF GiveUp, TypeOK, Units
  <2>2. LoopEnd(next) \in Nat /\ next \in Nat /\ next' = LoopEnd(next) + 1 /\ next <= LoopEnd(next)
    BY <1>2, <2>1, LoopEndBounds, UnitsAreNumbers DEF GiveUp, Units
  <2>3. \A u \in Units : u >= next' => u >= next
    BY <2>2 DEF Units
  <2> QED BY <1>2, <2>3 DEF GiveUp
<1>3. ASSUME NEW v \in Units, WorkerStep(v) PROVE NotReached'
  <2>1. next' = next /\ \A u \in Units : u # v => worker'[u] = worker[u]
    BY <1>3, WorkerMoves
  <2>2. v < next /\ v \in Nat /\ next \in Nat
    BY <1>3, MoverIsPending, UnitsAreNumbers DEF TypeOK, Units
  <2> QED BY <2>1, <2>2
<1>4. CASE Cancel \/ Dispatch \/ LoopsOver \/ Wait \/ ProbeAgain \/ Rescore \/ Returned \/ UNCHANGED vars
  BY <1>4 DEF Cancel, Dispatch, LoopsOver, Wait, ProbeAgain, Rescore, Returned, vars
<1> QED BY <1>1, <1>2, <1>3, <1>4 DEF Next, MainStep

LEMMA PendingStep == IInv /\ [Next]_vars => PendingMatches' /\ NothingPending'
<1> SUFFICES ASSUME IInv, [Next]_vars PROVE PendingMatches' /\ NothingPending'
  OBVIOUS
<1> USE DEF IInv, PendingMatches, NothingPending
<1>1. CASE Dispatch
  BY <1>1 DEF Dispatch
<1>2. CASE Acquire
  <2>1. next \in Units
    BY <1>2, UnitsAreNumbers DEF Acquire, TypeOK, MainInRange, Units
  <2>2. \A u \in Units : worker'[u] \notin {"idle", "finished"}
                        <=> worker[u] \notin {"idle", "finished"} \/ u = next
    BY <1>2, <2>1 DEF Acquire, TypeOK
  <2>3. main = "acquire" /\ main' = "dispatch" /\ pending' = pending
    BY <1>2 DEF Acquire
  <2> QED BY <2>1, <2>2, <2>3
<1>3. CASE Wait
  BY <1>3 DEF Wait, WaitOver
<1>4. ASSUME NEW v \in Units, WorkerStep(v) PROVE PendingMatches' /\ NothingPending'
  <2>1. main' = main /\ next' = next /\ \A u \in Units : u # v => worker'[u] = worker[u]
    BY <1>4, WorkerMoves
  <2>2. main \notin {"probe", "rescore", "done"} /\ worker[v] \notin {"idle", "finished"}
    BY <1>4, WorkerMoves, MoverIsPending
  <2>3. CASE Leave(v)
    <3>1. worker'[v] = "finished" /\ pending' = pending \ {v}
      BY <2>3 DEF Leave, Goes, TypeOK
    <3>2. main = "acquire" => v # next
      BY <1>4, MoverIsPending, UnitsAreNumbers DEF TypeOK, Units
    <3> QED BY <2>1, <2>2, <3>1, <3>2
  <2>4. CASE ~Leave(v)
    <3>1. worker'[v] \notin {"idle", "finished"} /\ pending' = pending
      BY <1>4, <2>4 DEF WorkerStep, LockFixture, RunCheck, RecordControls, StoreEvidence, PostRow,
                        ReportOutcome, UnlockFixture, ReleaseSlot, Goes, TypeOK
    <3> QED BY <2>1, <2>2, <3>1
  <2> QED BY <2>3, <2>4
<1>5. CASE Cancel \/ GiveUp \/ LoopsOver \/ ProbeAgain \/ Rescore \/ Returned \/ UNCHANGED vars
  BY <1>5 DEF Cancel, GiveUp, LoopsOver, ProbeAgain, Rescore, Returned, vars
<1> QED BY <1>1, <1>2, <1>3, <1>4, <1>5 DEF Next, MainStep

LEMMA SlotsStep == IInv /\ [Next]_vars => SlotsMatch' /\ SlotsBounded'
<1> SUFFICES ASSUME IInv, [Next]_vars PROVE SlotsMatch' /\ SlotsBounded'
  OBVIOUS
<1> USE DEF IInv, SlotsMatch
<1>1. CASE Acquire
  <2>1. next \in Units
    BY <1>1, UnitsAreNumbers DEF Acquire, TypeOK, MainInRange, Units
  <2>2. worker[next] = "idle" /\ next \notin slots
    BY <2>1 DEF NotReached, TypeOK, Units, Holding
  <2>3. worker'[next] \in Holding /\ \A u \in Units : u # next => worker'[u] = worker[u]
    BY <1>1, <2>1 DEF Acquire, TypeOK, Holding
  <2>4. slots' = slots \cup {next}
    BY <1>1 DEF Acquire
  <2>5. SlotsMatch'
    BY <2>1, <2>3, <2>4
  <2>6. IsFiniteSet(slots') /\ Cardinality(slots') = Cardinality(slots) + 1
    BY <2>2, <2>4, FS_AddElement DEF SlotsBounded
  <2>7. Cardinality(slots) < Concurrency /\ Cardinality(slots) \in Nat
    BY <1>1, FS_CardinalityType DEF Acquire, HasRoom, SlotsBounded
  <2>8. SlotsBounded'
    BY <2>6, <2>7 DEF SlotsBounded
  <2> QED BY <2>5, <2>8
<1>2. ASSUME NEW v \in Units, WorkerStep(v) PROVE SlotsMatch' /\ SlotsBounded'
  <2>1. \A u \in Units : u # v => worker'[u] = worker[u]
    BY <1>2, WorkerMoves
  <2>2. CASE ReleaseSlot(v)
    <3>1. worker'[v] \notin Holding /\ slots' = slots \ {v}
      BY <2>2 DEF ReleaseSlot, Goes, TypeOK, Holding, TokenReturned
    <3>2. IsFiniteSet(slots') /\ Cardinality(slots') <= Cardinality(slots)
      <4>1. slots' \subseteq slots
        BY <3>1
      <4> QED BY <4>1, FS_Subset DEF SlotsBounded
    <3>3. Cardinality(slots') \in Nat /\ Cardinality(slots) \in Nat
      BY <3>2, FS_CardinalityType DEF SlotsBounded
    <3> QED BY <2>1, <3>1, <3>2, <3>3 DEF SlotsBounded
  <2>3. CASE ~ReleaseSlot(v)
    <3>1. slots' = slots /\ (worker'[v] \in Holding <=> worker[v] \in Holding)
      BY <1>2, <2>3 DEF WorkerStep, LockFixture, RunCheck, RecordControls, StoreEvidence, PostRow,
                        ReportOutcome, UnlockFixture, Leave, Goes, TypeOK, Holding
    <3> QED BY <2>1, <3>1 DEF SlotsBounded
  <2> QED BY <2>2, <2>3
<1>3. CASE Cancel \/ Dispatch \/ GiveUp \/ LoopsOver \/ Wait \/ ProbeAgain \/ Rescore \/ Returned
           \/ UNCHANGED vars
  BY <1>3 DEF Cancel, Dispatch, GiveUp, LoopsOver, Wait, ProbeAgain, Rescore, Returned, vars,
              SlotsBounded
<1> QED BY <1>1, <1>2, <1>3 DEF Next, MainStep

LEMMA LocksStep == IInv /\ [Next]_vars => LocksMatch'
<1> SUFFICES ASSUME IInv, [Next]_vars PROVE LocksMatch'
  OBVIOUS
<1> USE DEF IInv, LocksMatch
<1>1. CASE Acquire
  <2>1. next \in Units
    BY <1>1, UnitsAreNumbers DEF Acquire, TypeOK, MainInRange, Units
  <2>2. worker'[next] = IF next \in Ownership THEN "locking" ELSE "running"
    BY <1>1, <2>1 DEF Acquire, TypeOK
  <2>3. \A u \in Units : u # next => worker'[u] = worker[u]
    BY <1>1 DEF Acquire, TypeOK
  <2>4. holder' = holder
    BY <1>1 DEF Acquire
  <2> QED BY <2>2, <2>3, <2>4 DEF Locked
<1>2. ASSUME NEW v \in Units, WorkerStep(v) PROVE LocksMatch'
  <2>1. \A u \in Units : u # v => worker'[u] = worker[u]
    BY <1>2, WorkerMoves
  <2>2. CASE LockFixture(v)
    <3>1. v \in Ownership /\ FixtureOf[v] \in Fixtures /\ holder[FixtureOf[v]] = Nobody
      BY <2>2 DEF LockFixture, Goes, FixtureFree
    <3>2. holder' = [holder EXCEPT ![FixtureOf[v]] = v] /\ worker'[v] = "running"
      BY <2>2 DEF LockFixture, Goes, TypeOK
    <3>3. ASSUME NEW u \in Units, u # v, u \in Ownership, worker[u] \in Locked
          PROVE  FixtureOf[u] # FixtureOf[v]
      BY <3>1, <3>3, UnitsAreNumbers
    <3> QED BY <2>1, <3>1, <3>2, <3>3 DEF TypeOK
  <2>3. CASE UnlockFixture(v)
    <3>1. v \in Ownership /\ FixtureOf[v] \in Fixtures /\ holder[FixtureOf[v]] = v
      BY <2>3 DEF UnlockFixture, Goes, Locked
    <3>2. holder' = [holder EXCEPT ![FixtureOf[v]] = Nobody] /\ worker'[v] = "releasing"
      BY <2>3 DEF UnlockFixture, Goes, TypeOK
    <3>3. ASSUME NEW u \in Units, u # v, u \in Ownership, worker[u] \in Locked
          PROVE  FixtureOf[u] # FixtureOf[v]
      BY <3>1, <3>3
    <3> QED BY <2>1, <3>1, <3>2, <3>3 DEF TypeOK, Locked
  <2>4. CASE ReportOutcome(v)
    <3>1. worker'[v] = (IF v \in Ownership THEN "unlocking" ELSE "releasing") /\ holder' = holder
      BY <2>4 DEF ReportOutcome, Goes, TypeOK
    <3>2. worker[v] \in Locked
      BY <2>4 DEF ReportOutcome, Goes, Locked
    <3> QED BY <2>1, <3>1, <3>2 DEF Locked
  <2>5. CASE ~(LockFixture(v) \/ UnlockFixture(v) \/ ReportOutcome(v))
    <3>1. /\ holder' = holder
          /\ worker'[v] \notin {"locking", "unlocking"}
          /\ worker'[v] \in Locked => worker[v] \in Locked
      BY <1>2, <2>5 DEF WorkerStep, RunCheck, RecordControls, StoreEvidence, PostRow, ReleaseSlot,
                        Leave, Goes, TypeOK, Locked
    <3> QED BY <2>1, <3>1
  <2> QED BY <2>2, <2>3, <2>4, <2>5
<1>3. CASE Cancel \/ Dispatch \/ GiveUp \/ LoopsOver \/ Wait \/ ProbeAgain \/ Rescore \/ Returned
           \/ UNCHANGED vars
  BY <1>3 DEF Cancel, Dispatch, GiveUp, LoopsOver, Wait, ProbeAgain, Rescore, Returned, vars
<1> QED BY <1>1, <1>2, <1>3 DEF Next, MainStep

LEMMA RowsStep == IInv /\ [Next]_vars => RowsMatch'
<1> SUFFICES ASSUME IInv, [Next]_vars, main' # "done", NEW u \in Units
             PROVE  ledger'[u] = ExpectedRows(u)'
  BY DEF RowsMatch
<1> USE DEF IInv
<1>u. u \in Nat /\ next \in Nat
  BY UnitsAreNumbers DEF TypeOK, Units
<1>1. CASE Acquire
  <2>1. next \in Units
    BY <1>1, UnitsAreNumbers DEF Acquire, TypeOK, MainInRange, Units
  <2>2. worker[next] = "idle" /\ worker'[next] \in RowPending
    BY <1>1, <2>1 DEF Acquire, NotReached, TypeOK, Units, RowPending
  <2>3. ledger' = ledger /\ out' = out /\ next' = next + 1 /\ main # "done"
    BY <1>1 DEF Acquire
  <2>4. ledger[u] = ExpectedRows(u)
    BY <2>3 DEF RowsMatch
  <2>5. CASE u = next
    BY <1>u, <2>2, <2>3, <2>4, <2>5 DEF ExpectedRows
  <2>6. CASE u # next
    <3>1. worker'[u] = worker[u]
      BY <1>1, <2>6 DEF Acquire, TypeOK
    <3> QED BY <1>u, <2>3, <2>4, <2>6, <3>1 DEF ExpectedRows, OutcomeRow
  <2> QED BY <2>5, <2>6
<1>2. CASE GiveUp
  <2>1. next \in Units /\ LoopEnd(next) \in Nat
    BY <1>2, UnitsAreNumbers, LoopEndBounds DEF GiveUp, TypeOK, Units
  <2>2. worker' = worker /\ out' = out /\ next' = LoopEnd(next) + 1 /\ main # "done"
    BY <1>2 DEF GiveUp
  <2>3. ledger[u] = ExpectedRows(u)
    BY <2>2 DEF RowsMatch
  <2>4. u \in Unreached <=> next <= u /\ u <= LoopEnd(next)
    BY <1>u, <2>1 DEF Unreached
  <2>5. CASE u \in Unreached
    <3>1. worker[u] = "idle" /\ ledger[u] = <<>>
      BY <1>u, <2>3, <2>4, <2>5 DEF NotReached, ExpectedRows
    <3>2. ledger'[u] = <<CancelledRow>>
      <4>1. ledger'[u] = Append(ledger[u], CancelledRow)
        BY <1>2, <2>5 DEF GiveUp
      <4>2. CancelledRow \in Row
        BY DEF CancelledRow, Row, Dispositions, Causes
      <4>3. Append(<<>>, CancelledRow) = <<CancelledRow>>
        BY <4>2
      <4> QED BY <3>1, <4>1, <4>3
    <3>3. ~(u >= next')
      BY <1>u, <2>1, <2>2, <2>4, <2>5
    <3>4. worker'[u] = "idle"
      BY <2>2, <3>1
    <3> QED BY <3>2, <3>3, <3>4 DEF ExpectedRows, RowPending
  <2>6. CASE u \notin Unreached
    <3>1. ledger'[u] = ledger[u]
      BY <1>2, <2>6 DEF GiveUp
    <3>2. u >= next' <=> u >= next
      BY <1>u, <2>1, <2>2, <2>4, <2>6, LoopEndBounds
    <3> QED BY <2>2, <2>3, <3>1, <3>2 DEF ExpectedRows, OutcomeRow
  <2> QED BY <2>5, <2>6
<1>3. ASSUME NEW v \in Units, WorkerStep(v) PROVE ledger'[u] = ExpectedRows(u)'
  <2>1. next' = next /\ main' = main /\ (u # v => worker'[u] = worker[u]) /\ worker'[v] # "idle"
    BY <1>3, WorkerMoves
  <2>2. v < next /\ worker[v] # "idle"
    BY <1>3, MoverIsPending, WorkerMoves
  <2>3. ledger[u] = ExpectedRows(u)
    BY <2>1 DEF RowsMatch
  <2>4. CASE u # v
    <3>1. ledger'[u] = ledger[u] /\ out'[u] = out[u]
      BY <1>3, <2>4 DEF WorkerStep, LockFixture, RunCheck, RecordControls, StoreEvidence, PostRow,
                        ReportOutcome, UnlockFixture, ReleaseSlot, Leave, TypeOK
    <3> QED BY <2>1, <2>3, <2>4, <3>1 DEF ExpectedRows, OutcomeRow
  <2>5. CASE u = v /\ PostRow(v)
    <3>1. worker[u] = "posting" /\ worker'[u] = "reporting" /\ out' = out
      BY <2>5 DEF PostRow, Goes, TypeOK
    <3>2. ledger[u] = <<>> /\ ledger'[u] = Append(ledger[u], OutcomeRow(u))
      BY <2>3, <2>5, <3>1 DEF PostRow, TypeOK, ExpectedRows, RowPending, OutcomeRow
    <3>3. ExpectedRows(u)' = <<OutcomeRow(u)>>
      BY <1>u, <2>1, <2>2, <2>5, <3>1 DEF ExpectedRows, RowPending, OutcomeRow
    <3> QED BY <3>2, <3>3
  <2>6. CASE u = v /\ RunCheck(v)
    <3>1. ledger' = ledger /\ worker[u] \in RowPending /\ worker'[u] \in RowPending
      BY <2>6 DEF RunCheck, Goes, TypeOK, RowPending
    <3> QED BY <2>3, <3>1 DEF ExpectedRows
  <2>7. CASE u = v /\ ~PostRow(v) /\ ~RunCheck(v)
    <3>1. /\ ledger' = ledger /\ out' = out
          /\ worker'[u] \in RowPending <=> worker[u] \in RowPending
      BY <1>3, <2>7 DEF WorkerStep, LockFixture, RecordControls, StoreEvidence, ReportOutcome,
                        UnlockFixture, ReleaseSlot, Leave, Goes, TypeOK, RowPending
    <3> QED BY <2>1, <2>2, <2>3, <2>7, <3>1 DEF ExpectedRows, OutcomeRow
  <2> QED BY <2>4, <2>5, <2>6, <2>7
<1>4. CASE Cancel \/ Dispatch \/ LoopsOver \/ Wait \/ ProbeAgain \/ Returned \/ UNCHANGED vars
  BY <1>4 DEF Cancel, Dispatch, LoopsOver, Wait, ProbeAgain, Returned, vars, RowsMatch,
              ExpectedRows, OutcomeRow
<1>5. CASE Rescore
  BY <1>5 DEF Rescore
<1> QED BY <1>1, <1>2, <1>3, <1>4, <1>5 DEF Next, MainStep

LEMMA FindingsStep == IInv /\ [Next]_vars => FindingsMatch'
<1> SUFFICES ASSUME IInv, [Next]_vars, main' # "done", NEW u \in Units
             PROVE  findings'[u] = IF worker'[u] \in Reported THEN out'[u].finding ELSE "none"
  BY DEF FindingsMatch
<1> USE DEF IInv
<1>1. CASE Acquire
  <2>1. next \in Units
    BY <1>1, UnitsAreNumbers DEF Acquire, TypeOK, MainInRange, Units
  <2>2. worker[next] = "idle" /\ worker'[next] \notin Reported
    BY <1>1, <2>1 DEF Acquire, NotReached, TypeOK, Units, Reported
  <2>3. findings' = findings /\ out' = out /\ main # "done" /\ (u # next => worker'[u] = worker[u])
    BY <1>1 DEF Acquire, TypeOK
  <2> QED BY <2>2, <2>3 DEF FindingsMatch, Reported
<1>2. ASSUME NEW v \in Units, WorkerStep(v)
      PROVE  findings'[u] = IF worker'[u] \in Reported THEN out'[u].finding ELSE "none"
  <2>1. main' = main /\ (u # v => worker'[u] = worker[u])
    BY <1>2, WorkerMoves
  <2>2. findings[u] = IF worker[u] \in Reported THEN out[u].finding ELSE "none"
    BY <2>1 DEF FindingsMatch
  <2>3. CASE u # v
    <3>1. findings'[u] = findings[u] /\ out'[u] = out[u]
      BY <1>2, <2>3 DEF WorkerStep, LockFixture, RunCheck, RecordControls, StoreEvidence, PostRow,
                        ReportOutcome, UnlockFixture, ReleaseSlot, Leave, TypeOK
    <3> QED BY <2>1, <2>2, <2>3, <3>1
  <2>4. CASE u = v /\ ReportOutcome(v)
    <3>1. findings'[u] = out[u].finding /\ out' = out /\ worker'[u] \in Reported
      BY <2>4 DEF ReportOutcome, Goes, TypeOK, Reported
    <3> QED BY <3>1
  <2>5. CASE u = v /\ RunCheck(v)
    <3>1. findings' = findings /\ worker[u] \notin Reported /\ worker'[u] \notin Reported
      BY <2>5 DEF RunCheck, Goes, TypeOK, Reported
    <3> QED BY <2>2, <3>1
  <2>6. CASE u = v /\ ~ReportOutcome(v) /\ ~RunCheck(v)
    <3>1. /\ findings' = findings /\ out' = out
          /\ worker'[u] \in Reported <=> worker[u] \in Reported
      BY <1>2, <2>6 DEF WorkerStep, LockFixture, RecordControls, StoreEvidence, PostRow,
                        UnlockFixture, ReleaseSlot, Leave, Goes, TypeOK, Reported
    <3> QED BY <2>2, <3>1
  <2> QED BY <2>3, <2>4, <2>5, <2>6
<1>3. CASE Cancel \/ Dispatch \/ GiveUp \/ LoopsOver \/ Wait \/ ProbeAgain \/ Returned \/ UNCHANGED vars
  BY <1>3 DEF Cancel, Dispatch, GiveUp, LoopsOver, Wait, ProbeAgain, Returned, vars, FindingsMatch
<1>4. CASE Rescore
  BY <1>4 DEF Rescore
<1> QED BY <1>1, <1>2, <1>3, <1>4 DEF Next, MainStep

\* Once the workers are gone each unit has been reached and has one row.
LEMMA OneExpectedRow ==
  ASSUME IInv, main \in {"probe", "rescore", "done"}, NEW u \in Units
  PROVE  /\ worker[u] \in {"idle", "finished"}
         /\ ExpectedRows(u) = IF worker[u] = "idle" THEN <<CancelledRow>> ELSE <<OutcomeRow(u)>>
<1>1. worker[u] \in {"idle", "finished"}
  BY DEF IInv, NothingPending, PendingMatches
<1>2. u \in Nat /\ next = NUnits + 1 /\ u <= NUnits /\ NUnits \in Nat
  BY UnitsAreNumbers DEF IInv, MainInRange
<1>3. ~(u >= next)
  BY <1>2
<1> QED BY <1>1, <1>3 DEF ExpectedRows, RowPending

LEMMA RescoredStep == IInv /\ [Next]_vars => RescoredMatch'
<1> SUFFICES ASSUME IInv, [Next]_vars, main' = "done", NEW u \in Units
             PROVE  \/ /\ ledger'[u] = ExpectedRows(u)'
                       /\ findings'[u] = IF worker'[u] \in Reported THEN out'[u].finding ELSE "none"
                    \/ ledger'[u] = <<WithdrawnRow>> /\ findings'[u] # "confirmed"
  BY DEF RescoredMatch
<1>1. CASE Rescore
  <2>1. main = "rescore" /\ worker' = worker /\ out' = out /\ next' = next
    BY <1>1 DEF Rescore
  <2>2. ledger[u] = ExpectedRows(u) /\ ExpectedRows(u)' = ExpectedRows(u)
    BY <2>1 DEF IInv, RowsMatch, ExpectedRows, OutcomeRow
  <2>3. findings[u] = IF worker[u] \in Reported THEN out[u].finding ELSE "none"
    BY <2>1 DEF IInv, FindingsMatch
  <2>4. ledger'[u] = RescoredRows(u) /\ findings'[u] = RescoredFinding(u)
    BY <1>1 DEF Rescore
  <2>5. \E r : ledger[u] = <<r>>
    BY <2>1, <2>2, OneExpectedRow
  <2>6. CASE Affected(u)
    <3>1. ledger'[u] = <<WithdrawnRow>>
      BY <2>4, <2>5, <2>6 DEF RescoredRows
    <3>2. findings'[u] # "confirmed"
      BY <2>4, <2>6 DEF RescoredFinding
    <3> QED BY <3>1, <3>2
  <2>7. CASE ~Affected(u)
    <3>1. ledger'[u] = ledger[u]
      BY <2>4, <2>5, <2>7 DEF RescoredRows
    <3>2. findings'[u] = findings[u]
      BY <2>4, <2>7 DEF RescoredFinding
    <3> QED BY <2>1, <2>2, <2>3, <3>1, <3>2
  <2> QED BY <2>6, <2>7
<1>2. CASE Cancel \/ Returned \/ UNCHANGED vars
  BY <1>2 DEF Cancel, Returned, vars, IInv, RescoredMatch, ExpectedRows, OutcomeRow
<1>3. ASSUME NEW v \in Units, WorkerStep(v) PROVE FALSE
  <2>1. main = "done"
    BY <1>3, WorkerMoves DEF IInv
  <2> QED BY <1>3, <2>1, MoverIsPending
<1>4. CASE Dispatch \/ Acquire \/ GiveUp \/ LoopsOver \/ Wait \/ ProbeAgain
  BY <1>4 DEF Dispatch, Acquire, GiveUp, LoopsOver, Wait, ProbeAgain
<1> QED BY <1>1, <1>2, <1>3, <1>4 DEF Next, MainStep

\* The strengthening is inductive: the WaitGroup, the semaphore, the fixture locks,
\* the ledger and the findings always say what the goroutines' positions imply.
THEOREM Invariance == Spec => []IInv
<1>1. Init => IInv
  BY InvInit
<1>2. IInv /\ [Next]_vars => IInv'
  <2> SUFFICES ASSUME IInv, [Next]_vars PROVE IInv'
    OBVIOUS
  <2>1. TypeOK' /\ MainInRange'
    BY TypeStep, MainStaysInRange DEF IInv
  <2>2. NotReached' /\ PendingMatches' /\ SlotsMatch' /\ SlotsBounded' /\ LocksMatch' /\ NothingPending'
    BY NotReachedStep, PendingStep, SlotsStep, LocksStep
  <2>3. RowsMatch' /\ FindingsMatch' /\ RescoredMatch'
    BY RowsStep, FindingsStep, RescoredStep
  <2> QED BY <2>1, <2>2, <2>3 DEF IInv
<1> QED BY <1>1, <1>2, PTL DEF Spec

-----------------------------------------------------------------------------
(* What IInv implies.                                                      *)

LEMMA RowsOnce == IInv => OneRowEach
<1> SUFFICES ASSUME IInv PROVE OneRowEach
  OBVIOUS
<1>1. ASSUME NEW u \in Units PROVE Len(ledger[u]) <= 1
  <2>1. ledger[u] = ExpectedRows(u) \/ ledger[u] = <<WithdrawnRow>>
    BY DEF IInv, RowsMatch, RescoredMatch
  <2>2. \/ ledger[u] = <<>>
        \/ \E r : ledger[u] = <<r>>
    BY <2>1 DEF ExpectedRows
  <2>3. CASE ledger[u] = <<>>
    BY <2>3
  <2>4. ASSUME NEW r, ledger[u] = <<r>> PROVE Len(ledger[u]) <= 1
    <3>1. Len(ledger[u]) = 1
      BY <2>4
    <3> QED BY <3>1
  <2> QED BY <2>2, <2>3, <2>4
<1>2. ASSUME main \in {"probe", "rescore", "done"}, NEW u \in Units PROVE Len(ledger[u]) = 1
  <2>1. ledger[u] = ExpectedRows(u) \/ ledger[u] = <<WithdrawnRow>>
    BY DEF IInv, RowsMatch, RescoredMatch
  <2>2. \E r : ExpectedRows(u) = <<r>>
    BY <1>2, OneExpectedRow
  <2>3. \E r : ledger[u] = <<r>>
    BY <2>1, <2>2
  <2> QED BY <2>3
<1> QED BY <1>1, <1>2 DEF OneRowEach

\* For every number of units and slots, every schedule and every moment of
\* cancellation: no unit of work ever has two ledger rows, and each has one by the
\* time the engine re-scores the ledger (engine.Run).
THEOREM RowsAreUnique == Spec => []OneRowEach
BY Invariance, RowsOnce, PTL

\* fixtureLocks: two cross-owner units of one fixture never observe it together.
THEOREM FixturesAreExclusive == Spec => []FixtureExclusion
<1>1. IInv => FixtureExclusion
  <2> SUFFICES ASSUME IInv, NEW u \in Ownership, NEW v \in Ownership,
                      Observing(u), Observing(v), FixtureOf[u] = FixtureOf[v]
               PROVE  u = v
    BY DEF FixtureExclusion
  <2>1. u \in Units /\ v \in Units
    BY UnitsAreNumbers
  <2>2. worker[u] \in Locked /\ worker[v] \in Locked
    BY DEF Observing, Locked
  <2>3. holder[FixtureOf[u]] = u /\ holder[FixtureOf[v]] = v
    BY <2>1, <2>2 DEF IInv, LocksMatch
  <2> QED BY <2>3
<1> QED BY <1>1, Invariance, PTL

\* The semaphore: never more than opts.Concurrency checks are under way.
THEOREM ConcurrencyIsBounded == Spec => []BoundedConcurrency
<1>1. IInv => BoundedConcurrency
  <2> SUFFICES ASSUME IInv PROVE BoundedConcurrency
    OBVIOUS
  <2> DEFINE Busy == {u \in Units : Observing(u)}
  <2>1. Busy \subseteq slots
    BY DEF IInv, SlotsMatch, Observing, Holding
  <2>2. IsFiniteSet(slots) /\ Cardinality(slots) <= Concurrency
    BY DEF IInv, SlotsBounded
  <2>3. IsFiniteSet(Busy) /\ Cardinality(Busy) <= Cardinality(slots)
    BY <2>1, <2>2, FS_Subset
  <2>4. Cardinality(Busy) \in Nat /\ Cardinality(slots) \in Nat
    BY <2>2, <2>3, FS_CardinalityType
  <2>5. Cardinality(Busy) <= Concurrency
    BY <2>2, <2>3, <2>4
  <2> QED BY <2>5 DEF BoundedConcurrency
<1> QED BY <1>1, Invariance, PTL

\* wg.Wait: the closing canaries are sent, and what the workers wrote is read, when
\* no worker is left.
THEOREM ClosingIsSettled == Spec => []SettledBeforeClosing
<1>1. IInv => SettledBeforeClosing
  BY OneExpectedRow DEF SettledBeforeClosing
<1> QED BY <1>1, Invariance, PTL

\* What a posted row says is what the check returned, and none blames cancellation.
LEMMA OutcomesNeverBlameCancellation ==
  ASSUME IInv, NEW u \in Units
  PROVE  OutcomeRow(u) # CancelledRow
<1>1. out[u] \in Results \cup {NoResult}
  BY DEF IInv, TypeOK
<1>2. out[u].cause # "cancelled"
  BY <1>1 DEF NoResult
<1>3. OutcomeRow(u).cause = out[u].cause /\ CancelledRow.cause = "cancelled"
  BY DEF OutcomeRow, CancelledRow
<1> QED BY <1>2, <1>3

\* A row that reads "cancelled before this ran" is never beside a check that ran.
THEOREM CancelledRowsAreTrue == Spec => []CancelledMeansNeverStarted
<1>1. IInv => CancelledMeansNeverStarted
  <2> SUFFICES ASSUME IInv, NEW u \in Units, ledger[u] = <<CancelledRow>>
               PROVE  worker[u] = "idle"
    BY DEF CancelledMeansNeverStarted
  <2>1. CancelledRow # WithdrawnRow
    BY DEF CancelledRow, WithdrawnRow
  <2>2. <<CancelledRow>> # <<WithdrawnRow>> /\ <<CancelledRow>> # <<OutcomeRow(u)>>
    BY <2>1, OutcomesNeverBlameCancellation
  <2>3. ledger[u] = ExpectedRows(u)
    BY <2>2 DEF IInv, RowsMatch, RescoredMatch
  <2> QED BY <2>2, <2>3 DEF ExpectedRows
<1> QED BY <1>1, Invariance, PTL

\* invalidateExpiredControls: no confirmed finding outlives the withdrawal of its row.
THEOREM FindingsAgree == Spec => []FindingsAgreeWithLedger
<1>1. IInv => FindingsAgreeWithLedger
  <2> SUFFICES ASSUME IInv, main = "done", NEW u \in Units, findings[u] = "confirmed"
               PROVE  ledger[u][1].disp = "executed"
    BY DEF FindingsAgreeWithLedger
  <2>1. /\ ledger[u] = ExpectedRows(u)
        /\ findings[u] = IF worker[u] \in Reported THEN out[u].finding ELSE "none"
    BY DEF IInv, RescoredMatch
  <2>2. worker[u] # "idle" /\ out[u].finding = "confirmed"
    BY <2>1 DEF Reported
  <2>3. ledger[u] = <<OutcomeRow(u)>>
    BY <2>1, <2>2, OneExpectedRow
  <2>4. out[u] \in Results \cup {NoResult}
    BY DEF IInv, TypeOK
  <2>5. out[u] \in Results
    BY <2>2, <2>4 DEF NoResult
  <2>6. out[u].disp = "executed"
    BY <2>2, <2>5
  <2> QED BY <2>3, <2>6 DEF OutcomeRow
<1> QED BY <1>1, Invariance, PTL

-----------------------------------------------------------------------------
(* The engine implements Accounting.                                       *)

LEMMA PromiseInit == Init => Promise!Init
<1> SUFFICES ASSUME Init PROVE Promise!Init
  OBVIOUS
<1>1. \A u \in Units : ledger[u] = <<>>
  BY DEF Init
<1>2. main # "done"
  BY DEF Init
<1> QED BY <1>1, <1>2 DEF Promise!Init

\* The units that have a row.
Accounted == {u \in Units : ledger[u] # <<>>}

\* Any set of units newly accounted for is a step of the promise.
LEMMA AccountIsNext ==
  ASSUME NEW S \in SUBSET Units, Promise!Account(S)
  PROVE  Promise!Next
BY DEF Promise!Next, Promise!Account

LEMMA PromiseStep == IInv /\ [Next]_vars => [Promise!Next]_(Promise!vars)
<1> SUFFICES ASSUME IInv, [Next]_vars PROVE [Promise!Next]_(Promise!vars)
  OBVIOUS
<1>1. ASSUME ledger' = ledger, (main' = "done") <=> (main = "done")
      PROVE  UNCHANGED Promise!vars
  BY <1>1 DEF Promise!vars
<1>2. CASE GiveUp
  <2>0. PICK S \in SUBSET Units : \A u \in Units : u \in S <=> u \in Unreached
    <3>1. {u \in Units : u \in Unreached} \in SUBSET Units
      OBVIOUS
    <3> QED BY <3>1
  <2>1. main = "dispatch" /\ main' = "dispatch"
    BY <1>2 DEF GiveUp
  <2>2. next \in Units
    BY <1>2, UnitsAreNumbers DEF GiveUp, IInv, TypeOK, Units
  <2>3. next \in Unreached
    BY <2>2, LoopEndBounds, UnitsAreNumbers DEF Unreached, Units
  <2>4. ASSUME NEW u \in S PROVE ledger[u] = <<>> /\ ledger'[u] # <<>>
    <3>1. u \in Nat /\ next \in Nat /\ u >= next
      BY <2>0, <2>2, <2>4, LoopEndBounds, UnitsAreNumbers DEF Unreached, Units
    <3>2. ledger[u] = <<>>
      BY <2>1, <2>4, <3>1 DEF IInv, RowsMatch, ExpectedRows
    <3>3. ledger'[u] = Append(<<>>, CancelledRow)
      BY <1>2, <2>0, <2>4, <3>2 DEF GiveUp
    <3>4. CancelledRow \in Row
      BY DEF CancelledRow, Row, Dispositions, Causes
    <3>5. Append(<<>>, CancelledRow) # <<>>
      BY <3>4
    <3> QED BY <3>2, <3>3, <3>5
  <2>5. \A u \in Units \ S : ledger'[u] = ledger[u]
    BY <1>2, <2>0 DEF GiveUp
  <2>6. Promise!Account(S)
    <3>1. S # {}
      BY <2>0, <2>2, <2>3
    <3>2. S \cap Accounted = {}
      BY <2>4 DEF Accounted
    <3>3. Accounted' = Accounted \cup S
      BY <2>4, <2>5 DEF Accounted
    <3> QED BY <2>1, <3>1, <3>2, <3>3 DEF Promise!Account, Accounted
  <2>7. Promise!Next
    BY <2>6, AccountIsNext
  <2> QED BY <2>7
<1>3. CASE Rescore
  <2>1. main = "rescore" /\ main' = "done"
    BY <1>3 DEF Rescore
  <2>2. ASSUME NEW u \in Units PROVE ledger[u] # <<>> /\ ledger'[u] # <<>>
    <3>1. \E r : ledger[u] = <<r>>
      BY <2>1, OneExpectedRow DEF IInv, RowsMatch
    <3>2. ledger'[u] = RescoredRows(u)
      BY <1>3 DEF Rescore
    <3>3. DOMAIN ledger[u] = {1} /\ DOMAIN ledger'[u] = DOMAIN ledger[u]
      BY <3>1, <3>2 DEF RescoredRows
    <3>4. DOMAIN <<>> = {}
      OBVIOUS
    <3> QED BY <3>3, <3>4
  <2>3. Accounted = Units /\ Accounted' = Units
    BY <2>2 DEF Accounted
  <2>4. Promise!Publish
    BY <2>1, <2>3 DEF Promise!Publish, Accounted
  <2> QED BY <2>4 DEF Promise!Next
<1>4. ASSUME NEW v \in Units, WorkerStep(v) PROVE [Promise!Next]_(Promise!vars)
  <2>1. main' = main /\ main # "done"
    BY <1>4, WorkerMoves, MoverIsPending DEF IInv
  <2>2. CASE PostRow(v)
    <3>1. worker[v] = "posting" /\ ledger[v] = <<>>
      BY <2>1, <2>2 DEF PostRow, Goes, IInv, RowsMatch, ExpectedRows, RowPending
    <3>2. ledger'[v] = Append(<<>>, OutcomeRow(v)) /\ \A u \in Units \ {v} : ledger'[u] = ledger[u]
      BY <2>2, <3>1 DEF PostRow, IInv, TypeOK, OutcomeRow
    <3>3. OutcomeRow(v) \in Row
      BY ResultsAreTyped DEF OutcomeRow, IInv, TypeOK
    <3>4. Append(<<>>, OutcomeRow(v)) # <<>>
      BY <3>3
    <3>5. {v} \cap Accounted = {} /\ Accounted' = Accounted \cup {v}
      BY <3>1, <3>2, <3>4 DEF Accounted
    <3>6. Promise!Account({v})
      BY <2>1, <3>5 DEF Promise!Account, Accounted
    <3>7. {v} \in SUBSET Units
      OBVIOUS
    <3>8. Promise!Next
      BY <3>6, <3>7, AccountIsNext
    <3> QED BY <3>8
  <2>3. CASE ~PostRow(v)
    <3>1. ledger' = ledger
      BY <1>4, <2>3 DEF WorkerStep, LockFixture, RunCheck, RecordControls, StoreEvidence,
                        ReportOutcome, UnlockFixture, ReleaseSlot, Leave
    <3> QED BY <1>1, <2>1, <3>1
  <2> QED BY <2>2, <2>3
<1>5. CASE Cancel \/ Dispatch \/ Acquire \/ LoopsOver \/ Wait \/ ProbeAgain \/ Returned \/ UNCHANGED vars
  BY <1>1, <1>5 DEF Cancel, Dispatch, Acquire, LoopsOver, Wait, ProbeAgain, Returned, vars
<1> QED BY <1>2, <1>3, <1>4, <1>5 DEF Next, MainStep

\* Safety half of ImplementsAccounting: a row, once there, is never taken away, no
\* unit is accounted for twice, and the report is assembled after the last row.
THEOREM EngineKeepsPromise == Spec => Promise!Safety
<1>1. Init => Promise!Init
  BY PromiseInit
<1>2. IInv /\ [Next]_vars => [Promise!Next]_(Promise!vars)
  BY PromiseStep
<1> QED BY <1>1, <1>2, Invariance, PTL DEF Spec, Promise!Safety
=============================================================================
