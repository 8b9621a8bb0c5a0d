--------------------------- MODULE EnginesProofs ---------------------------
(***************************************************************************)
(* Theorems about Engines: of Scanner for any registry order in which no   *)
(* engine comes twice, any limits and any configurations, and of Proc for  *)
(* any helpers, any pipe and any limits.                                   *)
(*                                                                         *)
(* The account is true because an outcome is final when it is recorded:    *)
(* only the engine in hand has a process that runs, its outcome is made    *)
(* when the process is over, and RunAll turns it into rows, imports and    *)
(* claims once. What remains to show is that no return of Run makes an     *)
(* outcome that says more than the process did (Founded).                  *)
(*                                                                         *)
(* The supervision is sound because every unit of output is somewhere: in  *)
(* the buffer, in the pipe or past the limit (CopiersAccount). A copier    *)
(* that is done has seen a pipe nobody holds, so nothing comes after it.   *)
(***************************************************************************)
EXTENDS Engines, TLAPS

USE ScannerAssumption

-----------------------------------------------------------------------------
(* The inductive invariant.                                                *)

InHand(e) == ~Done /\ e = engine

Untouched(e) ==
  world[e] = [end |-> "never", doc |-> [k \in Kinds |-> 0], closed |-> FALSE]

Unclaimed(e) ==
  /\ rows[e] = <<>> /\ imported[e] = 0
  /\ e \notin failures /\ Capabilities(e) \cap covered = {}

\* What an outcome may say of an engine whose process is over.
Founded(e, out) ==
  /\ out.status \in {"blocked", "skipped"} => out.observed = 0
  /\ out.status = "skipped" => e \notin input.enabled
  /\ (out.cause = "none") <=> (out.status \in {"completed", "skipped"})
  /\ world[e].end = "killed" =>
       out.status = "blocked" /\ out.cause \in {"budget_exceeded", "cancelled"}
  /\ out.covers =>
       /\ out.status = "completed"
       /\ out.observed = world[e].doc["result"]
       /\ ~Truncated(e)
       /\ world[e].doc["malformed"] = 0
       /\ e = "nuclei" => world[e].doc["anonymous"] = 0 /\ Executes > 0
       /\ e = "zap" => input.active
       /\ e = "sast" => world[e].doc["error"] = 0

\* Nothing is claimed for an engine before its account, and before its turn it has done
\* nothing at all.
NothingBeforeItsTurn ==
  \A e \in EngineIds \ Accounted :
    /\ Unclaimed(e)
    /\ ~InHand(e) => Untouched(e) /\ e \notin DOMAIN outcomes

\* Where Run is with the engine in hand, and what has become of its process by then.
ProcessMatchesPhase ==
  /\ Done => phase = "next"
  /\ ~Done =>
       /\ engine \in DOMAIN outcomes <=> phase = "account"
       /\ phase \in {"next", "detect", "gate", "prepare", "start"} => Untouched(engine)
       /\ phase = "running" =>
            /\ world[engine].end # "never"
            /\ world[engine].end = "killed" => expired \/ cancelled
       /\ phase = "result" => res # "none" /\ (res = "unstarted" => Untouched(engine))

\* The engine in hand has passed the questions before this phase.
QuestionsAsked ==
  ~Done =>
    /\ phase \in {"detect", "gate", "prepare", "start", "running", "result"} =>
         engine \in input.enabled
    /\ phase \in {"gate", "prepare", "start", "running", "result"} => engine \in input.present
    /\ phase \in {"prepare", "start", "running", "result"} => Permitted(engine)
    /\ phase \in {"start", "running", "result"} => CanInvoke(engine)

\* A process that was stopped is known to have been, and one that was not is known to have
\* kept to its limit.
StopIsSeen ==
  ~Done /\ phase = "result" =>
    /\ world[engine].end = "killed" => res \in {"timeout", "cancelled"}
    /\ res \in {"ok", "exit"} => ~Truncated(engine)

\* Every outcome is founded, and the account repeats it.
OutcomesFounded == \A e \in DOMAIN outcomes : Founded(e, outcomes[e])

AccountRepeatsOutcome ==
  \A e \in Accounted :
    /\ e \in DOMAIN outcomes
    /\ rows[e] = RowsOf(outcomes[e])
    /\ imported[e] = outcomes[e].observed
    /\ e \in failures <=> outcomes[e].status = "blocked"
    /\ Capabilities(e) \cap covered # {} => outcomes[e].covers

IInv ==
  /\ TypeOK /\ DOMAIN rows = EngineIds
  /\ NothingBeforeItsTurn
  /\ ProcessMatchesPhase
  /\ QuestionsAsked
  /\ StopIsSeen
  /\ OutcomesFounded
  /\ AccountRepeatsOutcome
  /\ ContainedInWorkspace
  /\ RunsOnlyAsPermitted

-----------------------------------------------------------------------------
(* The order of the engines, their capabilities and the first state.       *)

\* The engine at a place of the registry does not stand before that place.
LEMMA PlaceFacts ==
  ASSUME NEW n \in 1 .. Len(Order) + 1
  PROVE  /\ Len(Order) \in Nat
         /\ {Order[i] : i \in 1 .. n - 1} \subseteq EngineIds
         /\ n <= Len(Order) =>
              /\ Order[n] \in EngineIds \ {Order[i] : i \in 1 .. n - 1}
              /\ {Order[i] : i \in 1 .. n} = {Order[i] : i \in 1 .. n - 1} \cup {Order[n]}
<1> DEFINE last == Len(Order)
<1>1. last \in Nat /\ \A i \in 1 .. last : Order[i] \in EngineIds
  BY DEF ScannerAssumption
<1>2. \A i, j \in 1 .. last : Order[i] = Order[j] => i = j
  BY DEF ScannerAssumption
<1>3. n \in 1 .. last + 1
  OBVIOUS
<1> HIDE DEF last
<1>4. {Order[i] : i \in 1 .. n - 1} \subseteq EngineIds
  BY <1>1, <1>3
<1>5. n <= last => Order[n] \in EngineIds \ {Order[i] : i \in 1 .. n - 1}
  BY <1>1, <1>2, <1>3
<1>6. n <= last => {Order[i] : i \in 1 .. n} = {Order[i] : i \in 1 .. n - 1} \cup {Order[n]}
  BY <1>1, <1>3
<1> QED BY <1>1, <1>4, <1>5, <1>6 DEF last

\* The engine in hand is one of the registry's and has not been taken before.
LEMMA OrderFacts ==
  ASSUME at \in 1 .. Len(Order) + 1
  PROVE  /\ Accounted \subseteq EngineIds
         /\ ~Done => engine \in EngineIds \ Accounted
         /\ ~Done => {Order[i] : i \in 1 .. at} = Accounted \cup {engine}
<1> DEFINE last == Len(Order)
<1>1. last \in Nat
  BY PlaceFacts
<1> HIDE DEF last
<1>2. at \in 1 .. last + 1 /\ (Done <=> at > last)
  BY DEF last, Done
<1>3. ~Done => at <= Len(Order)
  BY <1>1, <1>2 DEF last
<1> QED
  BY <1>3, PlaceFacts DEF Accounted, engine

LEMMA CapabilitiesDiffer ==
  \A e, f \in EngineIds : e # f => Capabilities(e) \cap Capabilities(f) = {}
BY DEF EngineIds, Capabilities

LEMMA BoundsAreNaturals == MaxItems \in Nat /\ MaxStdout \in Nat /\ MaxObservations \in Nat
BY DEF ScannerAssumption

LEMMA Initially == Init => IInv
<1> SUFFICES ASSUME Init PROVE IInv
  OBVIOUS
<1>1. at = 1 /\ Len(Order) \in Nat /\ at \in 1 .. Len(Order) + 1 /\ Accounted = {}
  BY DEF Init, Accounted, ScannerAssumption
<1>2. DOMAIN outcomes = {} /\ outcomes = <<>> /\ Range(outcomes) = {}
  BY DEF Init, Range
<1>3. \A e \in EngineIds : rows[e] = <<>> /\ Range(rows[e]) = {}
  BY DEF Init, Range
<1>4. TypeOK /\ DOMAIN rows = EngineIds
  <2>1. world \in [EngineIds -> [end : Ends, doc : [Kinds -> 0 .. MaxItems], closed : BOOLEAN]]
    BY BoundsAreNaturals DEF Init, Ends
  <2>2. imported \in [EngineIds -> 0 .. MaxObservations] /\ DOMAIN rows = EngineIds
    BY BoundsAreNaturals DEF Init
  <2>3. /\ phase \in Phases /\ {cancelled, expired} \subseteq BOOLEAN /\ res \in Results
        /\ input \in Inputs /\ workspace = {} /\ failures = {} /\ covered = {}
    BY DEF Init, Phases, Results
  <2> QED
    BY <2>1, <2>2, <2>3, <1>1, <1>2, <1>3 DEF TypeOK
<1>5. \A e \in EngineIds : Untouched(e) /\ Unclaimed(e)
  BY <1>3 DEF Init, Untouched, Unclaimed
<1>6. \A e \in EngineIds : world[e].end = "never" /\ ~Running(e)
  BY <1>5 DEF Untouched, Running
<1>7. ~Done => engine \in EngineIds
  BY <1>1, OrderFacts
<1> QED
  BY <1>1, <1>2, <1>4, <1>5, <1>6, <1>7
  DEF Init, IInv, NothingBeforeItsTurn, ProcessMatchesPhase, QuestionsAsked, StopIsSeen,
      OutcomesFounded, AccountRepeatsOutcome, ContainedInWorkspace, RunsOnlyAsPermitted

-----------------------------------------------------------------------------
(* Every return of Run records an outcome, and a founded one keeps the     *)
(* invariant.                                                              *)

LEMMA FinishKeeps ==
  ASSUME IInv, NEW out \in Outcome, ~Done, phase # "account", ~Running(engine),
         Finish(out), Founded(engine, out),
         UNCHANGED <<input, at, cancelled, expired, world, res, account>>
  PROVE  IInv'
<1> USE DEF account
<1>1. /\ engine' = engine /\ ~Done' /\ Accounted' = Accounted
      /\ engine \in EngineIds \ Accounted
  BY OrderFacts DEF IInv, TypeOK, engine, Done, Accounted
<1>2. phase' = "account" /\ outcomes' = Recorded(out) /\ workspace' = workspace \ {engine}
  BY DEF Finish
<1>3. /\ DOMAIN outcomes' = DOMAIN outcomes \cup {engine}
      /\ outcomes'[engine] = out
      /\ \A e \in DOMAIN outcomes : e # engine => outcomes'[e] = outcomes[e]
  BY <1>2 DEF Recorded
<1>4. \A e, o : Founded(e, o)' <=> Founded(e, o)
  BY DEF Founded, Truncated, Executes
<1>5. TypeOK' /\ DOMAIN rows' = EngineIds
  <2>1. Range(outcomes') \subseteq Outcome
    BY <1>3 DEF Range, IInv, TypeOK
  <2> QED
    BY <2>1, <1>1, <1>2, <1>3 DEF IInv, TypeOK, Phases
<1>6. NothingBeforeItsTurn'
  <2> SUFFICES ASSUME NEW e \in EngineIds \ Accounted
               PROVE  Unclaimed(e)' /\ (~InHand(e)' => Untouched(e)' /\ e \notin DOMAIN outcomes')
    BY <1>1 DEF NothingBeforeItsTurn
  <2> QED
    BY <1>1, <1>3 DEF IInv, NothingBeforeItsTurn, Unclaimed, Untouched, InHand
<1>7. ProcessMatchesPhase' /\ QuestionsAsked' /\ StopIsSeen'
  BY <1>1, <1>2, <1>3 DEF ProcessMatchesPhase, QuestionsAsked, StopIsSeen
<1>8. OutcomesFounded'
  <2> SUFFICES ASSUME NEW e \in DOMAIN outcomes' PROVE Founded(e, outcomes'[e])
    BY <1>4 DEF OutcomesFounded
  <2> QED
    BY <1>3 DEF IInv, OutcomesFounded
<1>9. AccountRepeatsOutcome'
  <2> SUFFICES ASSUME NEW e \in Accounted
               PROVE  /\ e \in DOMAIN outcomes'
                      /\ rows[e] = RowsOf(outcomes'[e])
                      /\ imported[e] = outcomes'[e].observed
                      /\ e \in failures <=> outcomes'[e].status = "blocked"
                      /\ Capabilities(e) \cap covered # {} => outcomes'[e].covers
    BY <1>1 DEF AccountRepeatsOutcome, RowsOf, Row
  <2>1. e # engine /\ e \in DOMAIN outcomes
    BY <1>1 DEF IInv, AccountRepeatsOutcome
  <2> QED
    BY <2>1, <1>3 DEF IInv, AccountRepeatsOutcome
<1>10. ContainedInWorkspace'
  <2>1. \A e \in EngineIds : ~Running(e)'
    BY DEF IInv, ContainedInWorkspace, Running
  <2>2. workspace' = {}
    BY <1>2 DEF IInv, ContainedInWorkspace
  <2> QED
    BY <2>1, <2>2, <1>2 DEF ContainedInWorkspace
<1>11. RunsOnlyAsPermitted'
  BY DEF IInv, RunsOnlyAsPermitted
<1> QED
  BY <1>5, <1>6, <1>7, <1>8, <1>9, <1>10, <1>11 DEF IInv

\* An outcome that blocks an engine is founded, unless it hides that a process was stopped.
LEMMA BlockKeeps ==
  ASSUME IInv, NEW cause \in Causes \ {"none"}, ~Done, phase # "account", ~Running(engine),
         Block(cause), world[engine].end = "killed" => cause \in {"budget_exceeded", "cancelled"},
         UNCHANGED <<input, at, cancelled, expired, world, res, account>>
  PROVE  IInv'
<1> DEFINE out == [status |-> "blocked", cause |-> cause, observed |-> 0, covers |-> FALSE]
<1>1. out \in Outcome
  BY BoundsAreNaturals DEF Outcome, Statuses
<1>2. Founded(engine, out)
  BY DEF Founded
<1>3. Finish(out)
  BY DEF Block
<1> HIDE DEF out
<1> QED
  BY <1>1, <1>2, <1>3, FinishKeeps

-----------------------------------------------------------------------------
(* The steps that make no outcome.                                         *)

LEMMA InHandFacts ==
  ASSUME IInv, ~Done
  PROVE  /\ engine \in EngineIds \ Accounted
         /\ Unclaimed(engine)
         /\ Running(engine) => phase = "running"
         /\ phase \notin {"prepare", "start", "running", "result"} => workspace = {}
         /\ phase \in {"start", "running", "result"} => engine \in workspace
         /\ \A e \in EngineIds : e # engine => ~Running(e)
BY OrderFacts DEF IInv, TypeOK, NothingBeforeItsTurn, ContainedInWorkspace

\* While the engine in hand has no outcome, only its process changes anything.
LEMMA OthersKeep ==
  ASSUME IInv, UNCHANGED <<input, at, outcomes, account>>,
         \A e \in EngineIds : ~InHand(e) \/ phase = "account" => world'[e] = world[e]
  PROVE  /\ Done' = Done /\ engine' = engine /\ Accounted' = Accounted
         /\ NothingBeforeItsTurn' /\ OutcomesFounded' /\ AccountRepeatsOutcome'
<1> USE DEF account
<1>1. Done' = Done /\ engine' = engine /\ Accounted' = Accounted
  BY DEF Done, engine, Accounted
<1>2. \A e \in EngineIds : e \in DOMAIN outcomes => world'[e] = world[e]
  <2> SUFFICES ASSUME NEW e \in EngineIds, e \in DOMAIN outcomes, InHand(e)
               PROVE  phase = "account"
    OBVIOUS
  <2> QED
    BY DEF IInv, ProcessMatchesPhase, InHand
<1>3. NothingBeforeItsTurn'
  <2> SUFFICES ASSUME NEW e \in EngineIds \ Accounted
               PROVE  Unclaimed(e)' /\ (~InHand(e)' => Untouched(e)' /\ e \notin DOMAIN outcomes')
    BY <1>1 DEF NothingBeforeItsTurn
  <2> QED
    BY <1>1 DEF IInv, NothingBeforeItsTurn, Unclaimed, Untouched, InHand
<1>4. OutcomesFounded'
  <2> SUFFICES ASSUME NEW e \in DOMAIN outcomes PROVE Founded(e, outcomes[e])'
    BY DEF OutcomesFounded
  <2>1. e \in EngineIds /\ world'[e] = world[e]
    BY <1>2 DEF IInv, TypeOK
  <2> QED
    BY <2>1 DEF IInv, OutcomesFounded, Founded, Truncated, Executes
<1>5. AccountRepeatsOutcome'
  BY <1>1 DEF IInv, AccountRepeatsOutcome, RowsOf, Row
<1> QED
  BY <1>1, <1>3, <1>4, <1>5

\* Run goes on to its next question.
LEMMA AdvanceKeeps ==
  ASSUME IInv, ~Done, phase \in {"next", "detect", "gate", "prepare"},
         phase' \in {"detect", "gate", "prepare", "start"},
         workspace' \in {workspace, workspace \cup {engine}},
         workspace' # workspace => phase' = "prepare",
         phase' = "start" => engine \in workspace /\ CanInvoke(engine),
         workspace # {} => phase' \in {"prepare", "start"},
         engine \in input.enabled,
         phase' \in {"gate", "prepare", "start"} => engine \in input.present,
         phase' \in {"prepare", "start"} => Permitted(engine),
         UNCHANGED <<input, at, cancelled, expired, world, res, outcomes, account>>
  PROVE  IInv'
<1>1. /\ Done' = Done /\ engine' = engine /\ Accounted' = Accounted
      /\ NothingBeforeItsTurn' /\ OutcomesFounded' /\ AccountRepeatsOutcome'
  BY OthersKeep DEF account
<1>2. TypeOK' /\ DOMAIN rows' = EngineIds
  BY InHandFacts DEF IInv, TypeOK, Phases, account
<1>3. ProcessMatchesPhase' /\ StopIsSeen'
  BY <1>1 DEF IInv, ProcessMatchesPhase, StopIsSeen, Untouched
<1>4. QuestionsAsked'
  BY <1>1 DEF QuestionsAsked, Permitted, RequiredProfile, CanInvoke, NucleiInvocation, Executes,
              SASTInvocation
<1>5. ContainedInWorkspace'
  <2>1. \A e \in EngineIds : ~Running(e)'
    BY InHandFacts DEF Running
  <2>2. \A e \in workspace : e = engine
    BY DEF IInv, ContainedInWorkspace
  <2> QED
    BY <1>1, <2>1, <2>2 DEF ContainedInWorkspace
<1>6. RunsOnlyAsPermitted'
  BY DEF IInv, RunsOnlyAsPermitted
<1> QED
  BY <1>1, <1>2, <1>3, <1>4, <1>5, <1>6 DEF IInv, account

LEMMA NotRunKeeps == IInv /\ NotRun => IInv'
<1> SUFFICES ASSUME IInv, NotRun PROVE IInv'
  OBVIOUS
<1> QED
  BY BlockKeeps, InHandFacts DEF NotRun, Causes

LEMMA BeginKeeps == IInv /\ Begin => IInv'
<1> SUFFICES ASSUME IInv, Begin PROVE IInv'
  OBVIOUS
<1>1. ~Done /\ phase = "next" /\ workspace = {} /\ ~Running(engine)
  BY InHandFacts DEF Begin
<1>2. CASE engine \in input.enabled
  BY <1>1, <1>2, AdvanceKeeps DEF Begin
<1>3. CASE engine \notin input.enabled
  <2>1. Unknown \in Outcome
    BY BoundsAreNaturals DEF Unknown, Outcome, Statuses, Causes
  <2>2. world[engine].end = "never"
    BY <1>1 DEF IInv, ProcessMatchesPhase, Untouched
  <2>3. Founded(engine, Unknown)
    BY <1>3, <2>2 DEF Founded, Unknown
  <2> QED
    BY <1>1, <1>3, <2>1, <2>3, FinishKeeps DEF Begin
<1> QED
  BY <1>2, <1>3

LEMMA BeforeProcess ==
  ASSUME IInv, phase \in {"detect", "gate", "prepare"}
  PROVE  /\ ~Done /\ ~Running(engine) /\ world[engine].end = "never"
         /\ engine \in input.enabled
         /\ phase \in {"gate", "prepare"} => engine \in input.present
         /\ phase = "prepare" => Permitted(engine)
         /\ phase \in {"detect", "gate"} => workspace = {}
BY InHandFacts DEF IInv, ProcessMatchesPhase, QuestionsAsked, Untouched

LEMMA DetectKeeps == IInv /\ Detect => IInv'
<1> SUFFICES ASSUME IInv, Detect PROVE IInv'
  OBVIOUS
<1>1. CASE engine \in input.present /\ ~cancelled
  BY <1>1, BeforeProcess, AdvanceKeeps DEF Detect
<1>2. CASE ~(engine \in input.present /\ ~cancelled)
  BY <1>2, BeforeProcess, BlockKeeps DEF Detect, Causes
<1> QED
  BY <1>1, <1>2

LEMMA GateKeeps == IInv /\ Gate => IInv'
<1> SUFFICES ASSUME IInv, Gate PROVE IInv'
  OBVIOUS
<1>1. CASE Permitted(engine)
  BY <1>1, BeforeProcess, AdvanceKeeps DEF Gate
<1>2. CASE ~Permitted(engine)
  BY <1>2, BeforeProcess, BlockKeeps DEF Gate, Causes
<1> QED
  BY <1>1, <1>2

LEMMA PrepareKeeps == IInv /\ (NoWorkspace \/ NewWorkspace \/ Invoke) => IInv'
<1> SUFFICES ASSUME IInv, NoWorkspace \/ NewWorkspace \/ Invoke PROVE IInv'
  OBVIOUS
<1>1. CASE NoWorkspace
  BY <1>1, BeforeProcess, BlockKeeps DEF NoWorkspace, Causes
<1>2. CASE NewWorkspace
  BY <1>2, BeforeProcess, AdvanceKeeps DEF NewWorkspace
<1>3. CASE Invoke /\ CanInvoke(engine)
  BY <1>3, BeforeProcess, AdvanceKeeps DEF Invoke
<1>4. CASE Invoke /\ ~CanInvoke(engine)
  BY <1>4, BeforeProcess, BlockKeeps DEF Invoke, Causes
<1> QED
  BY <1>1, <1>2, <1>3, <1>4

-----------------------------------------------------------------------------
(* The process.                                                            *)

\* What the process of the engine in hand may do: write one item more, end, or be killed
\* once it is stopped.
LEMMA ProcessKeeps ==
  ASSUME IInv, NEW e \in EngineIds, Running(e),
         NEW w \in [end : Ends \ {"never"}, doc : [Kinds -> 0 .. MaxItems], closed : BOOLEAN],
         world' = [world EXCEPT ![e] = w], w.end = "killed" => expired \/ cancelled,
         UNCHANGED <<input, at, phase, cancelled, expired, res, workspace, outcomes, account>>
  PROVE  IInv'
<1>1. ~Done /\ e = engine /\ phase = "running"
  BY DEF IInv, ContainedInWorkspace
<1>2. /\ world'[engine] = w
      /\ \A f \in EngineIds : f # engine => world'[f] = world[f]
      /\ world' \in [EngineIds -> [end : Ends, doc : [Kinds -> 0 .. MaxItems],
                                   closed : BOOLEAN]]
  BY <1>1 DEF IInv, TypeOK
<1>3. /\ Done' = Done /\ engine' = engine /\ Accounted' = Accounted
      /\ NothingBeforeItsTurn' /\ OutcomesFounded' /\ AccountRepeatsOutcome'
  BY <1>1, <1>2, OthersKeep DEF InHand
<1>4. TypeOK' /\ DOMAIN rows' = EngineIds
  BY <1>2 DEF IInv, TypeOK, account
<1>5. ProcessMatchesPhase' /\ QuestionsAsked' /\ StopIsSeen'
  BY <1>1, <1>2, <1>3
  DEF IInv, ProcessMatchesPhase, StopIsSeen, QuestionsAsked, Permitted, RequiredProfile,
      CanInvoke, NucleiInvocation, Executes, SASTInvocation
<1>6. ContainedInWorkspace' /\ RunsOnlyAsPermitted'
  <2>1. \A f \in EngineIds : Running(f)' => f = engine
    BY <1>2, InHandFacts, <1>1 DEF Running
  <2>2. \A f \in EngineIds : world'[f].end # "never" => world[f].end # "never"
    BY <1>1, <1>2 DEF Running
  <2> QED
    BY <1>1, <1>3, <2>1, <2>2 DEF IInv, ContainedInWorkspace, RunsOnlyAsPermitted
<1> QED
  BY <1>3, <1>4, <1>5, <1>6 DEF IInv, account

LEMMA RunningTyped ==
  ASSUME IInv, NEW e \in EngineIds
  PROVE  /\ world[e] \in [end : Ends, doc : [Kinds -> 0 .. MaxItems], closed : BOOLEAN]
         /\ DOMAIN world = EngineIds
         /\ \A k \in Kinds : world[e].doc[k] \in 0 .. MaxItems
BY DEF IInv, TypeOK

LEMMA WriteKeeps == ASSUME NEW e \in EngineIds PROVE IInv /\ Write(e) => IInv'
<1> SUFFICES ASSUME IInv, Write(e) PROVE IInv'
  OBVIOUS
<1>1. PICK k \in Kinds : world' = [world EXCEPT ![e].doc[k] = @ + 1]
  BY DEF Write, Writes
<1> DEFINE w == [world[e] EXCEPT !.doc[k] = @ + 1]
<1>2. world[e].doc[k] < MaxItems
  <2>1. Written < MaxItems
    BY DEF Write
  <2>2. world[e].doc[k] <= Size(world[e].doc)
    BY RunningTyped, BoundsAreNaturals DEF Size, Kinds
  <2>3. \A f \in EngineIds : Size(world[f].doc) \in Nat
    BY RunningTyped, BoundsAreNaturals DEF Size, Kinds
  <2>4. Size(world[e].doc) <= Written
    <3> HIDE DEF Size
    <3> QED BY <2>3 DEF Written, EngineIds
  <2> QED
    BY <2>1, <2>2, <2>3, <2>4, RunningTyped, BoundsAreNaturals DEF Written, EngineIds
<1>3. world' = [world EXCEPT ![e] = w]
  BY <1>1, RunningTyped
<1>4. /\ w \in [end : Ends \ {"never"}, doc : [Kinds -> 0 .. MaxItems], closed : BOOLEAN]
      /\ w.end = "running"
  <2>1. world[e].doc[k] + 1 \in 0 .. MaxItems
    BY <1>2, RunningTyped, BoundsAreNaturals
  <2>2. [world[e].doc EXCEPT ![k] = @ + 1] \in [Kinds -> 0 .. MaxItems]
    BY <2>1, RunningTyped
  <2>3. w = [world[e] EXCEPT !.doc = [world[e].doc EXCEPT ![k] = @ + 1]]
    BY RunningTyped
  <2>4. world[e].end = "running"
    BY DEF Write, Running
  <2> QED
    BY <2>2, <2>3, <2>4, RunningTyped DEF Ends
<1> HIDE DEF w
<1> QED
  BY <1>3, <1>4, ProcessKeeps DEF Write

LEMMA ExitKeeps == ASSUME NEW e \in EngineIds PROVE IInv /\ Exit(e) => IInv'
<1> SUFFICES ASSUME IInv, Exit(e) PROVE IInv'
  OBVIOUS
<1>1. PICK end \in {"ok", "findings", "crashed"}, closed \in BOOLEAN :
        world' = [world EXCEPT ![e].end = end, ![e].closed = closed]
  BY DEF Exit
<1> DEFINE w == [world[e] EXCEPT !.end = end, !.closed = closed]
<1>2. world' = [world EXCEPT ![e] = w]
  BY <1>1, RunningTyped
<1>3. /\ w \in [end : Ends \ {"never"}, doc : [Kinds -> 0 .. MaxItems], closed : BOOLEAN]
      /\ w.end # "killed"
  BY RunningTyped DEF Ends
<1> HIDE DEF w
<1> QED
  BY <1>2, <1>3, ProcessKeeps DEF Exit

LEMMA KillKeeps == ASSUME NEW e \in EngineIds PROVE IInv /\ Kill(e) => IInv'
<1> SUFFICES ASSUME IInv, Kill(e) PROVE IInv'
  OBVIOUS
<1> DEFINE w == [world[e] EXCEPT !.end = "killed"]
<1>1. world' = [world EXCEPT ![e] = w]
  BY RunningTyped DEF Kill
<1>2. w \in [end : Ends \ {"never"}, doc : [Kinds -> 0 .. MaxItems], closed : BOOLEAN]
  BY RunningTyped DEF Ends
<1> HIDE DEF w
<1> QED
  BY <1>1, <1>2, ProcessKeeps DEF Kill

\* The budget runs out, or the operator cancels: nothing else changes yet.
LEMMA StopKeeps == IInv /\ (Cancel \/ Expire) => IInv'
<1> SUFFICES ASSUME IInv, Cancel \/ Expire PROVE IInv'
  OBVIOUS
<1>1. /\ cancelled' \in {cancelled, TRUE} /\ expired' \in {expired, TRUE}
      /\ UNCHANGED <<input, at, phase, world, res, workspace, outcomes, account>>
  BY DEF Cancel, Expire
<1>2. /\ Done' = Done /\ engine' = engine /\ Accounted' = Accounted
      /\ NothingBeforeItsTurn' /\ OutcomesFounded' /\ AccountRepeatsOutcome'
  BY <1>1, OthersKeep
<1>3. TypeOK' /\ DOMAIN rows' = EngineIds
  BY <1>1 DEF IInv, TypeOK, account
<1>4. expired \/ cancelled => expired' \/ cancelled'
  BY <1>1 DEF IInv, TypeOK
<1>5. ProcessMatchesPhase'
  BY <1>1, <1>2, <1>4 DEF IInv, ProcessMatchesPhase, Untouched
<1>6. StopIsSeen' /\ QuestionsAsked'
  BY <1>1, <1>2
  DEF IInv, StopIsSeen, Truncated, QuestionsAsked, Permitted, RequiredProfile, CanInvoke,
      NucleiInvocation, Executes, SASTInvocation
<1>7. ContainedInWorkspace' /\ RunsOnlyAsPermitted'
  BY <1>1, <1>2 DEF IInv, ContainedInWorkspace, RunsOnlyAsPermitted, Running
<1> QED
  BY <1>2, <1>3, <1>5, <1>6, <1>7 DEF IInv

LEMMA StartKeeps == IInv /\ (Start \/ Unstarted) => IInv'
<1> SUFFICES ASSUME IInv, Start \/ Unstarted PROVE IInv'
  OBVIOUS
<1>1. ~Done /\ phase = "start" /\ engine \in EngineIds /\ engine \in workspace
  BY InHandFacts DEF IInv, ProcessMatchesPhase, Start, Unstarted
<1>2. /\ UNCHANGED <<input, at, cancelled, workspace, outcomes, account>>
      /\ \A e \in EngineIds : e # engine => world'[e] = world[e]
  BY DEF Start, Unstarted, IInv, TypeOK
<1>3. /\ Done' = Done /\ engine' = engine /\ Accounted' = Accounted
      /\ NothingBeforeItsTurn' /\ OutcomesFounded' /\ AccountRepeatsOutcome'
  BY <1>1, <1>2, OthersKeep DEF InHand
<1>4. Untouched(engine) /\ engine \notin DOMAIN outcomes
  BY <1>1 DEF IInv, ProcessMatchesPhase
<1>5. QuestionsAsked'
  BY <1>1, <1>2, <1>3
  DEF IInv, QuestionsAsked, Permitted, RequiredProfile, CanInvoke, NucleiInvocation, Executes,
      SASTInvocation
<1>6. CASE Start
  <2>1. /\ phase' = "running" /\ expired' = FALSE /\ res' = res
        /\ world' = [world EXCEPT ![engine].end = "running"]
    BY <1>6 DEF Start
  <2>2. /\ world'[engine].end = "running"
        /\ world' \in [EngineIds -> [end : Ends, doc : [Kinds -> 0 .. MaxItems],
                                     closed : BOOLEAN]]
    BY <2>1, <1>1 DEF IInv, TypeOK, Ends
  <2>3. TypeOK' /\ DOMAIN rows' = EngineIds
    BY <2>1, <2>2, <1>2 DEF IInv, TypeOK, account, Phases
  <2>4. ProcessMatchesPhase' /\ StopIsSeen'
    BY <2>1, <2>2, <1>1, <1>2, <1>3, <1>4 DEF ProcessMatchesPhase, StopIsSeen
  <2>5. ContainedInWorkspace'
    BY <2>1, <1>1, <1>2, <1>3 DEF IInv, ContainedInWorkspace, Running
  <2>6. Permitted(engine) /\ engine \in input.enabled \cap input.present
    BY <1>1 DEF IInv, QuestionsAsked
  <2>7. input.profile \in DOMAIN Rank
    BY DEF IInv, TypeOK, ScannerAssumption, AllInputs
  <2>8. /\ engine = "zap" /\ input.active => input.profile = "intrusive"
        /\ engine \in {"nuclei", "zap"} => input.profile # "discovery"
    BY <2>6, <2>7 DEF Permitted, RequiredProfile, Rank
  <2>9. RunsOnlyAsPermitted'
    BY <2>6, <2>8, <1>1, <1>2 DEF IInv, RunsOnlyAsPermitted
  <2> QED
    BY <1>3, <1>5, <2>3, <2>4, <2>5, <2>9 DEF IInv
<1>7. CASE Unstarted
  <2>1. phase' = "result" /\ res' = "unstarted" /\ UNCHANGED <<expired, world>>
    BY <1>7 DEF Unstarted
  <2>2. TypeOK' /\ DOMAIN rows' = EngineIds
    BY <2>1, <1>2 DEF IInv, TypeOK, account, Phases, Results
  <2>3. world[engine].end = "never"
    BY <1>4 DEF Untouched
  <2>4. ProcessMatchesPhase' /\ StopIsSeen'
    BY <2>1, <2>3, <1>1, <1>2, <1>3, <1>4 DEF ProcessMatchesPhase, StopIsSeen, Untouched
  <2>5. ContainedInWorkspace' /\ RunsOnlyAsPermitted'
    BY <2>1, <1>1, <1>2, <1>3, <2>3
    DEF IInv, ContainedInWorkspace, RunsOnlyAsPermitted, Running
  <2> QED
    BY <1>3, <1>5, <2>2, <2>4, <2>5 DEF IInv
<1> QED
  BY <1>6, <1>7

LEMMA CollectKeeps == IInv /\ Collect => IInv'
<1> SUFFICES ASSUME IInv, Collect PROVE IInv'
  OBVIOUS
<1>1. ~Done /\ phase = "running" /\ engine \in EngineIds /\ ~Running(engine)
  BY InHandFacts DEF IInv, ProcessMatchesPhase, Collect
<1>2. /\ phase' = "result" /\ res' = Result(engine)
      /\ UNCHANGED <<input, at, cancelled, expired, world, workspace, outcomes, account>>
  BY DEF Collect
<1>3. /\ Done' = Done /\ engine' = engine /\ Accounted' = Accounted
      /\ NothingBeforeItsTurn' /\ OutcomesFounded' /\ AccountRepeatsOutcome'
  BY <1>2, OthersKeep
<1>4. /\ Result(engine) \in Results \ {"none", "unstarted"}
      /\ world[engine].end = "killed" => Result(engine) \in {"timeout", "cancelled"}
      /\ Result(engine) \in {"ok", "exit"} => ~Truncated(engine)
  BY <1>1 DEF IInv, ProcessMatchesPhase, Result, Results
<1>5. TypeOK' /\ DOMAIN rows' = EngineIds
  BY <1>2, <1>4 DEF IInv, TypeOK, account, Phases
<1>6. ProcessMatchesPhase' /\ StopIsSeen'
  BY <1>1, <1>2, <1>3, <1>4 DEF IInv, ProcessMatchesPhase, StopIsSeen, Truncated
<1>7. QuestionsAsked'
  BY <1>1, <1>2, <1>3
  DEF IInv, QuestionsAsked, Permitted, RequiredProfile, CanInvoke, NucleiInvocation, Executes,
      SASTInvocation
<1>8. ContainedInWorkspace' /\ RunsOnlyAsPermitted'
  BY <1>1, <1>2, <1>3 DEF IInv, ContainedInWorkspace, RunsOnlyAsPermitted, Running
<1> QED
  BY <1>3, <1>5, <1>6, <1>7, <1>8 DEF IInv

-----------------------------------------------------------------------------
(* What Run makes of the process's output, and RunAll of the outcome.      *)

\* In the phase that reads the output the process is over.
LEMMA OutputFacts ==
  ASSUME IInv, phase = "result"
  PROVE  /\ ~Done /\ engine \in EngineIds /\ ~Running(engine)
         /\ res \in Results \ {"none"}
         /\ CanInvoke(engine)
         /\ world[engine].end = "killed" => res \in {"timeout", "cancelled"}
         /\ ~Stopped => ~Truncated(engine)
         /\ \A k \in Kinds : world[engine].doc[k] \in Nat
<1>1. ~Done /\ engine \in EngineIds /\ ~Running(engine) /\ res \in Results \ {"none"}
  BY InHandFacts DEF IInv, ProcessMatchesPhase, TypeOK
<1>2. CanInvoke(engine) /\ (world[engine].end = "killed" => res \in {"timeout", "cancelled"})
  BY <1>1 DEF IInv, QuestionsAsked, StopIsSeen
<1>3. \A k \in Kinds : world[engine].doc[k] \in Nat
  BY <1>1, RunningTyped, BoundsAreNaturals
<1>4. ~Stopped => ~Truncated(engine)
  <2>1. CASE res = "unstarted"
    <3>1. \A k \in Kinds : world[engine].doc[k] = 0
      BY <1>1, <2>1 DEF IInv, ProcessMatchesPhase, Untouched
    <3> QED
      BY <3>1, BoundsAreNaturals DEF Truncated, Size, Kinds
  <2>2. CASE res # "unstarted"
    BY <1>1, <2>2 DEF Stopped, Results, IInv, StopIsSeen
  <2> QED
    BY <2>1, <2>2
<1> QED
  BY <1>1, <1>2, <1>3, <1>4

LEMMA RefuseKeeps == IInv /\ (Refuse \/ Reject) => IInv'
<1> SUFFICES ASSUME IInv, Refuse \/ Reject PROVE IInv'
  OBVIOUS
<1>1. CASE Refuse
  BY <1>1, OutputFacts, BlockKeeps DEF Refuse, Causes
<1>2. CASE Reject
  BY <1>2, OutputFacts, BlockKeeps DEF Reject, Causes, Stopped
<1> QED
  BY <1>1, <1>2

\* Whatever is kept of the results is within the limit, and all that name their rule are
\* unless the list was cut.
LEMMA KeptFacts ==
  ASSUME IInv, phase = "result", NEW named \in Kept(engine)
  PROVE  /\ named \in 0 .. MaxObservations
         /\ ~Incomplete(engine) => named = world[engine].doc["result"]
<1>1. /\ world[engine].doc["result"] \in Nat /\ world[engine].doc["blank"] \in Nat
      /\ MaxObservations \in Nat
  BY OutputFacts, BoundsAreNaturals DEF Kinds
<1>2. PICK dropped \in 0 .. world[engine].doc["blank"] :
        named \in 0 .. world[engine].doc["result"] /\ named + dropped = Taken(engine)
  BY DEF Kept
<1>3. named \in 0 .. MaxObservations
  BY <1>1, <1>2 DEF Taken, Observations
<1>4. ~Incomplete(engine) => named = world[engine].doc["result"]
  BY <1>1, <1>2 DEF Taken, Observations, Incomplete
<1> QED BY <1>3, <1>4

LEMMA NormalizedFields ==
  ASSUME NEW a, NEW b, NEW c, NEW n, n = [readable |-> a, partial |-> b, covers |-> c]
  PROVE  n.readable = a /\ n.partial = b /\ n.covers = c
OBVIOUS

\* A document that is accepted and not cut covers its engine's classes only if all that was
\* written could be read.
LEMMA CoverageIsEarned ==
  ASSUME IInv, phase = "result", ~Unusable(engine), ~Incomplete(engine),
         Normalize(engine).covers
  PROVE  /\ world[engine].doc["malformed"] = 0
         /\ engine = "nuclei" => world[engine].doc["anonymous"] = 0 /\ Executes > 0
         /\ engine = "zap" => input.active
         /\ engine = "sast" => world[engine].doc["error"] = 0
<1>1. engine \in {"nuclei", "zap", "sast"}
  BY OutputFacts DEF EngineIds
<1>2. CASE engine = "nuclei"
  <2> DEFINE partial == world[engine].doc["malformed"] + world[engine].doc["anonymous"] > 0
             whole == ~partial
  <2>1. Normalize(engine) = [readable |-> TRUE, partial |-> partial, covers |-> whole]
    BY <1>2 DEF Normalize, NormalizeNuclei
  <2>2. ~partial
    <3>1. whole
      <4> HIDE DEF partial, whole
      <4> QED BY <2>1, NormalizedFields
    <3> QED
      BY <3>1
  <2>3. world[engine].doc["malformed"] \in Nat /\ world[engine].doc["anonymous"] \in Nat
    BY OutputFacts DEF Kinds
  <2>4. world[engine].doc["malformed"] = 0 /\ world[engine].doc["anonymous"] = 0
    BY <2>2, <2>3
  <2> QED
    BY <1>2, <2>4, OutputFacts DEF CanInvoke, NucleiInvocation
<1>3. CASE engine = "zap"
  BY <1>3 DEF Normalize, NormalizeZAP, Unusable
<1>4. CASE engine = "sast"
  <2> DEFINE readable == world[engine].closed /\ world[engine].doc["malformed"] = 0
             partial == world[engine].doc["error"] > 0
             whole == ~partial
  <2>1. Normalize(engine) = [readable |-> readable, partial |-> partial, covers |-> whole]
    BY <1>4 DEF Normalize, NormalizeSAST
  <2>2. readable /\ ~partial
    <3>1. Normalize(engine).readable
      BY DEF Unusable
    <3>2. readable /\ whole
      <4> HIDE DEF readable, partial, whole
      <4> QED BY <2>1, <3>1, NormalizedFields
    <3> QED
      BY <3>2
  <2>3. world[engine].doc["error"] \in Nat
    BY OutputFacts DEF Kinds
  <2> QED
    BY <1>4, <2>2, <2>3
<1> QED
  BY <1>1, <1>2, <1>3, <1>4

LEMMA AcceptKeeps == IInv /\ Accept => IInv'
<1> SUFFICES ASSUME IInv, Accept PROVE IInv'
  OBVIOUS
<1>1. /\ phase = "result" /\ ~Stopped /\ ~Unusable(engine)
      /\ UNCHANGED <<input, at, cancelled, expired, world, res, account>>
  BY DEF Accept
<1>2. world[engine].end # "killed"
  BY <1>1, OutputFacts DEF Stopped
<1> PICK named \in Kept(engine) :
      Finish(
        IF Incomplete(engine)
        THEN [status |-> "partial", cause |-> "budget_exceeded", observed |-> named,
              covers |-> FALSE]
        ELSE [status |-> "completed", cause |-> "none", observed |-> named,
              covers |-> Normalize(engine).covers])
  BY DEF Accept
<1>3. CASE Incomplete(engine)
  <2> DEFINE out == [status |-> "partial", cause |-> "budget_exceeded",
                     observed |-> named, covers |-> FALSE]
  <2>1. out \in Outcome
    BY <1>1, KeptFacts DEF Outcome, Statuses, Causes
  <2>2. Founded(engine, out)
    BY <1>2 DEF Founded
  <2>3. Finish(out)
    BY <1>3
  <2> HIDE DEF out
  <2> QED
    BY <1>1, <2>1, <2>2, <2>3, OutputFacts, FinishKeeps
<1>4. CASE ~Incomplete(engine)
  <2> DEFINE covers == Normalize(engine).covers
             out == [status |-> "completed", cause |-> "none", observed |-> named,
                     covers |-> covers]
  <2>1. out \in Outcome
    <3>1. covers \in BOOLEAN
      <4>1. input.active \in BOOLEAN
        BY DEF IInv, TypeOK, ScannerAssumption, AllInputs
      <4> QED
        BY <1>1, <4>1, OutputFacts
        DEF Normalize, NormalizeNuclei, NormalizeZAP, NormalizeSAST, EngineIds
    <3> HIDE DEF covers
    <3> QED
      BY <3>1, <1>1, KeptFacts DEF Outcome, Statuses, Causes
  <2>2. Founded(engine, out)
    <3>1. /\ out.status = "completed" /\ out.cause = "none" /\ out.covers = covers
          /\ out.observed = world[engine].doc["result"]
      BY <1>1, <1>4, KeptFacts
    <3>2. ~Truncated(engine)
      BY <1>1, OutputFacts
    <3>3. covers =>
            /\ world[engine].doc["malformed"] = 0
            /\ engine = "nuclei" => world[engine].doc["anonymous"] = 0 /\ Executes > 0
            /\ engine = "zap" => input.active
            /\ engine = "sast" => world[engine].doc["error"] = 0
      BY <1>1, <1>4, CoverageIsEarned
    <3> HIDE DEF out, covers
    <3> QED
      BY <3>1, <3>2, <3>3, <1>2 DEF Founded
  <2>3. Finish(out)
    BY <1>4
  <2> HIDE DEF out
  <2> QED
    BY <1>1, <2>1, <2>2, <2>3, OutputFacts, FinishKeeps
<1> QED
  BY <1>3, <1>4

\* The row of an outcome is well formed.
LEMMA RowsTyped ==
  ASSUME NEW out \in Outcome
  PROVE  Range(RowsOf(out)) \subseteq [disp : {"executed", "blocked"}, cause : Causes]
<1> DEFINE RowSet == [disp : {"executed", "blocked"}, cause : Causes]
<1>1. Row(out) \in RowSet
  BY DEF Row, Outcome
<1>2. RowsOf(out) \in {<<>>, <<Row(out)>>}
  BY DEF RowsOf
<1> HIDE DEF RowSet
<1>3. \A r \in RowSet : Range(<<r>>) \subseteq RowSet
  BY DEF Range
<1>4. Range(<<>>) \subseteq RowSet
  BY DEF Range
<1>5. Range(RowsOf(out)) \subseteq RowSet
  BY <1>1, <1>2, <1>3, <1>4
<1> QED
  BY <1>5 DEF RowSet

LEMMA AccountKeeps == IInv /\ Account => IInv'
<1> SUFFICES ASSUME IInv, Account PROVE IInv'
  OBVIOUS
<1> DEFINE out == outcomes[engine]
<1>1. /\ phase = "account" /\ phase' = "next" /\ at' = at + 1 /\ res' = "none"
      /\ rows' = [rows EXCEPT ![engine] = rows[engine] \o RowsOf(out)]
      /\ failures' = IF out.status = "blocked" THEN failures \cup {engine} ELSE failures
      /\ imported' = [imported EXCEPT ![engine] = imported[engine] + out.observed]
      /\ covered' = IF out.covers THEN covered \cup Capabilities(engine) ELSE covered
      /\ UNCHANGED <<input, cancelled, expired, world, workspace, outcomes>>
  BY DEF Account
<1>2. /\ ~Done /\ engine \in EngineIds \ Accounted /\ Unclaimed(engine) /\ workspace = {}
      /\ \A e \in EngineIds : ~Running(e)
      /\ engine \in DOMAIN outcomes /\ out \in Outcome /\ Founded(engine, out)
  <2>1. ~Done
    BY <1>1 DEF IInv, ProcessMatchesPhase
  <2>2. engine \in DOMAIN outcomes
    BY <1>1, <2>1 DEF IInv, ProcessMatchesPhase
  <2>3. out \in Outcome /\ Founded(engine, out)
    BY <2>2 DEF IInv, TypeOK, Range, OutcomesFounded
  <2> QED
    BY <1>1, <2>1, <2>2, <2>3, InHandFacts
<1>3. /\ at' \in 1 .. Len(Order) + 1
      /\ Accounted' = Accounted \cup {engine}
      /\ ~Done' => engine' \in EngineIds \ Accounted'
  <2>1. at \in 1 .. Len(Order) + 1 /\ Len(Order) \in Nat /\ ~(at > Len(Order))
    BY <1>2, PlaceFacts DEF Done, IInv, TypeOK
  <2>2. at' \in 1 .. Len(Order) + 1 /\ at' - 1 = at
    BY <1>1, <2>1
  <2>3. Accounted' = {Order[i] : i \in 1 .. at}
    BY <2>2 DEF Accounted
  <2>4. {Order[i] : i \in 1 .. at} = Accounted \cup {engine}
    BY <1>2, <2>1, OrderFacts
  <2>5. ~Done' => at' <= Len(Order)
    BY <2>1, <2>2 DEF Done
  <2>6. ~Done' => engine' \in EngineIds \ Accounted'
    BY <2>2, <2>5, PlaceFacts DEF engine, Accounted
  <2> QED
    BY <2>2, <2>3, <2>4, <2>6
<1>4. /\ rows'[engine] = RowsOf(out) /\ DOMAIN rows' = EngineIds
      /\ imported'[engine] = out.observed
      /\ engine \in failures' <=> out.status = "blocked"
      /\ Capabilities(engine) \cap covered' # {} => out.covers
  <2>1. rows[engine] = <<>> /\ imported[engine] = 0
    BY <1>2 DEF Unclaimed
  <2>2. <<>> \o RowsOf(out) = RowsOf(out)
    BY DEF RowsOf
  <2>3. out.observed \in Nat
    BY <1>2, BoundsAreNaturals DEF Outcome
  <2> QED
    BY <1>1, <1>2, <2>1, <2>2, <2>3 DEF IInv, TypeOK, Unclaimed
<1>5. \A e \in EngineIds : e # engine =>
        /\ rows'[e] = rows[e] /\ imported'[e] = imported[e]
        /\ e \in failures' <=> e \in failures
        /\ Capabilities(e) \cap covered' = Capabilities(e) \cap covered
  <2> SUFFICES ASSUME NEW e \in EngineIds, e # engine
               PROVE  /\ rows'[e] = rows[e] /\ imported'[e] = imported[e]
                      /\ e \in failures' <=> e \in failures
                      /\ Capabilities(e) \cap covered' = Capabilities(e) \cap covered
    OBVIOUS
  <2>1. Capabilities(e) \cap Capabilities(engine) = {}
    BY <1>2, CapabilitiesDiffer
  <2> QED
    BY <1>1, <1>2, <2>1 DEF IInv, TypeOK
<1>6. TypeOK' /\ DOMAIN rows' = EngineIds
  <2>1. imported' \in [EngineIds -> 0 .. MaxObservations]
    BY <1>1, <1>2, <1>4 DEF IInv, TypeOK, Outcome
  <2>2. \A e \in EngineIds : Range(rows'[e]) \subseteq [disp : {"executed", "blocked"},
                                                       cause : Causes]
    BY <1>2, <1>4, <1>5, RowsTyped DEF IInv, TypeOK
  <2>3. failures' \subseteq EngineIds
    BY <1>1, <1>2 DEF IInv, TypeOK
  <2>4. covered' \subseteq UNION {Capabilities(e) : e \in EngineIds}
    BY <1>1, <1>2 DEF IInv, TypeOK
  <2> QED
    BY <1>1, <1>3, <1>4, <2>1, <2>2, <2>3, <2>4 DEF IInv, TypeOK, Phases, Results
<1>7. NothingBeforeItsTurn'
  <2> SUFFICES ASSUME NEW e \in EngineIds \ Accounted, e # engine
               PROVE  Unclaimed(e)' /\ Untouched(e)' /\ e \notin DOMAIN outcomes'
    BY <1>3 DEF NothingBeforeItsTurn
  <2> QED
    BY <1>1, <1>5 DEF IInv, NothingBeforeItsTurn, Unclaimed, Untouched, InHand
<1>8. ProcessMatchesPhase'
  <2>1. \A e \in EngineIds : e \notin Accounted \cup {engine} =>
          Untouched(e)' /\ e \notin DOMAIN outcomes'
    BY <1>1 DEF IInv, NothingBeforeItsTurn, InHand, Untouched
  <2>2. \A e : Untouched(e)' /\ e = engine' => Untouched(engine)'
    BY DEF Untouched
  <2>3. ~Done' => Untouched(engine)' /\ engine' \notin DOMAIN outcomes'
    BY <1>3, <2>1, <2>2
  <2> QED
    BY <1>1, <2>3 DEF ProcessMatchesPhase
<1>9. QuestionsAsked' /\ StopIsSeen' /\ RunsOnlyAsPermitted'
  BY <1>1 DEF IInv, QuestionsAsked, StopIsSeen, RunsOnlyAsPermitted
<1>10. OutcomesFounded'
  <2> SUFFICES ASSUME NEW e \in DOMAIN outcomes PROVE Founded(e, outcomes[e])'
    BY <1>1 DEF OutcomesFounded
  <2> QED
    BY <1>1 DEF IInv, OutcomesFounded, Founded, Truncated, Executes
<1>11. AccountRepeatsOutcome'
  <2> SUFFICES ASSUME NEW e \in Accounted \cup {engine}
               PROVE  /\ e \in DOMAIN outcomes
                      /\ rows'[e] = RowsOf(outcomes[e])
                      /\ imported'[e] = outcomes[e].observed
                      /\ e \in failures' <=> outcomes[e].status = "blocked"
                      /\ Capabilities(e) \cap covered' # {} => outcomes[e].covers
    BY <1>1, <1>3 DEF AccountRepeatsOutcome, RowsOf, Row
  <2>1. CASE e = engine
    BY <1>2, <1>4, <2>1
  <2>2. CASE e # engine
    <3>1. e \in Accounted /\ e \in EngineIds
      BY <2>2, OrderFacts DEF IInv, TypeOK
    <3> QED
      BY <1>5, <2>2, <3>1 DEF IInv, AccountRepeatsOutcome
  <2> QED
    BY <2>1, <2>2
<1>12. ContainedInWorkspace'
  BY <1>1, <1>2 DEF ContainedInWorkspace, Running
<1> QED
  BY <1>6, <1>7, <1>8, <1>9, <1>10, <1>11, <1>12 DEF IInv

-----------------------------------------------------------------------------
(* The theorems.                                                           *)

LEMMA StepKeeps == IInv /\ [Next]_vars => IInv'
<1> SUFFICES ASSUME IInv, [Next]_vars PROVE IInv'
  OBVIOUS
<1>1. CASE Supervise
  BY <1>1, NotRunKeeps, BeginKeeps, DetectKeeps, GateKeeps, PrepareKeeps, StartKeeps,
     CollectKeeps, RefuseKeeps, AcceptKeeps, AccountKeeps DEF Supervise
<1>2. CASE Cancel \/ Expire
  BY <1>2, StopKeeps
<1>3. CASE \E e \in EngineIds : Write(e) \/ Exit(e) \/ Kill(e)
  BY <1>3, WriteKeeps, ExitKeeps, KillKeeps
<1>4. CASE UNCHANGED vars
  <2>1. /\ Done' = Done /\ engine' = engine /\ Accounted' = Accounted
        /\ NothingBeforeItsTurn' /\ OutcomesFounded' /\ AccountRepeatsOutcome'
    BY <1>4, OthersKeep DEF vars, account
  <2>2. TypeOK' /\ DOMAIN rows' = EngineIds /\ ProcessMatchesPhase'
    BY <1>4, <2>1 DEF vars, IInv, TypeOK, ProcessMatchesPhase, Untouched
  <2>3. StopIsSeen' /\ QuestionsAsked'
    BY <1>4, <2>1
    DEF vars, IInv, StopIsSeen, Truncated, QuestionsAsked, Permitted, RequiredProfile, CanInvoke,
        NucleiInvocation, Executes, SASTInvocation
  <2>4. ContainedInWorkspace' /\ RunsOnlyAsPermitted'
    BY <1>4, <2>1 DEF vars, IInv, ContainedInWorkspace, RunsOnlyAsPermitted, Running
  <2> QED
    BY <2>1, <2>2, <2>3, <2>4 DEF IInv
<1> QED
  BY <1>1, <1>2, <1>3, <1>4 DEF Next

\* The inductive invariant holds in every state of RunAll.
THEOREM Invariance == Spec => []IInv
<1> QED BY Initially, StepKeeps, PTL DEF Spec

\* A process runs only while Run waits for it, alone, in a workspace that does not outlive
\* the run, and never above the effective profile or for an engine nobody enabled.
THEOREM EnginesAreConfined == Spec => []RunsConfined
<1>1. IInv => RunsConfined
  BY DEF IInv, RunsConfined
<1> QED BY <1>1, Invariance, PTL

\* An engine that was taken has the one row its outcome asks for, and fails exactly when it
\* is blocked.
LEMMA AccountedFacts ==
  ASSUME IInv, NEW e \in Accounted
  PROVE  /\ e \in EngineIds /\ e \in DOMAIN outcomes /\ outcomes[e] \in Outcome
         /\ Founded(e, outcomes[e])
         /\ rows[e] = RowsOf(outcomes[e]) /\ imported[e] = outcomes[e].observed
         /\ e \in failures <=> outcomes[e].status = "blocked"
         /\ Capabilities(e) \cap covered # {} => outcomes[e].covers
BY OrderFacts DEF IInv, TypeOK, Range, OutcomesFounded, AccountRepeatsOutcome

\* An engine that was taken has no process.
LEMMA AccountedIsOver == ASSUME IInv, NEW e \in Accounted PROVE ~Running(e)
<1>1. at \in 1 .. Len(Order) + 1
  BY DEF IInv, TypeOK
<1>2. ~Done => engine \notin Accounted
  BY <1>1, PlaceFacts DEF Done, engine, Accounted
<1>3. e \in EngineIds
  BY AccountedFacts
<1> QED BY <1>2, <1>3 DEF IInv, ContainedInWorkspace

\* What RunAll reports of the engines is what they did: each one taken has its row, a class
\* is claimed only of an engine nobody stopped whose output was read to its end and whose
\* results were all imported, but for those that do not name their rule, and a process that
\* was stopped contributes nothing (run.go, the engines' Normalize).
THEOREM EnginesAreAccounted == Spec => []AccountIsTrue
<1>1. IInv => EveryEngineAccounted
  <2> SUFFICES ASSUME IInv, NEW e \in Accounted
               PROVE  /\ e \in DOMAIN outcomes
                      /\ rows[e] = <<>> => e \notin input.enabled
                      /\ rows[e] # <<>> =>
                           /\ Len(rows[e]) = 1
                           /\ (rows[e][1].disp = "executed") = (Status(e) = "completed")
                           /\ (rows[e][1].cause = "none") = (Status(e) = "completed")
                           /\ (e \in failures) = (Status(e) = "blocked")
                      /\ Status(e) \in {"blocked", "skipped"} => imported[e] = 0
    BY DEF EveryEngineAccounted
  <2> DEFINE out == outcomes[e]
  <2>1. e \in DOMAIN outcomes /\ out \in Outcome /\ Founded(e, out) /\ Status(e) = out.status
    BY AccountedFacts DEF Status
  <2>2. CASE out.status = "skipped"
    BY <2>1, <2>2, AccountedFacts DEF Founded, RowsOf
  <2>3. CASE out.status # "skipped"
    <3>1. rows[e] = <<Row(out)>>
      BY <2>3, AccountedFacts DEF RowsOf
    <3>2. rows[e] # <<>> /\ Len(rows[e]) = 1 /\ rows[e][1] = Row(out)
      <4> HIDE DEF out
      <4> QED BY <3>1
    <3>3. (Row(out).disp = "executed") = (out.status = "completed")
      BY DEF Row
    <3>4. (Row(out).cause = "none") = (out.status = "completed")
      BY <2>1, <2>3 DEF Row, Founded
    <3>5. (e \in failures) = (Status(e) = "blocked")
      BY <2>1, AccountedFacts
    <3>6. Status(e) \in {"blocked", "skipped"} => imported[e] = 0
      BY <2>1, AccountedFacts DEF Founded
    <3> QED
      BY <2>1, <3>2, <3>3, <3>4, <3>5, <3>6
  <2> QED
    BY <2>2, <2>3
<1>2. IInv => CoverageOnWholeOutput
  <2> SUFFICES ASSUME IInv, NEW e \in EngineIds, Capabilities(e) \cap covered # {}
               PROVE  /\ imported[e] = world[e].doc["result"]
                      /\ world[e].end \notin {"running", "killed"}
                      /\ ~Truncated(e)
                      /\ world[e].doc["malformed"] = 0
                      /\ e = "nuclei" => world[e].doc["anonymous"] = 0 /\ Executes > 0
                      /\ e = "zap" => input.active
                      /\ e = "sast" => world[e].doc["error"] = 0
    BY DEF CoverageOnWholeOutput
  <2>1. e \in Accounted
    BY DEF IInv, NothingBeforeItsTurn, Unclaimed
  <2>2. world[e].end # "running"
    BY <2>1, AccountedIsOver DEF Running
  <2> QED
    BY <2>1, <2>2, AccountedFacts DEF Founded
<1>3. IInv => StoppedContributesNothing
  <2> SUFFICES ASSUME IInv, NEW e \in Accounted, world[e].end = "killed"
               PROVE  /\ Status(e) = "blocked"
                      /\ rows[e][1].cause \in {"budget_exceeded", "cancelled"}
                      /\ imported[e] = 0
                      /\ Capabilities(e) \cap covered = {}
    BY DEF StoppedContributesNothing
  <2> DEFINE out == outcomes[e]
  <2>1. /\ out.status = "blocked" /\ out.cause \in {"budget_exceeded", "cancelled"}
        /\ out.observed = 0 /\ ~out.covers
    BY AccountedFacts DEF Founded
  <2>2. rows[e] = <<Row(out)>>
    BY <2>1, AccountedFacts DEF RowsOf
  <2>3. rows[e][1] = Row(out) /\ Row(out).cause = out.cause
    <3> HIDE DEF out
    <3> QED BY <2>2 DEF Row
  <2> QED
    BY <2>1, <2>3, AccountedFacts DEF Status
<1> QED
  BY <1>1, <1>2, <1>3, Invariance, PTL DEF AccountIsTrue

-----------------------------------------------------------------------------
(* The supervision of one process.                                         *)

NoChild == caller = "starting" \/ result = "unstarted"
Waited == caller = "waiting" \/ (caller = "returned" /\ result # "unstarted")

\* Before the child there is nothing.
NothingUnstarted ==
  /\ result = "none" <=> caller # "returned"
  /\ NoChild =>
       /\ watcher = "watching" /\ group = {}
       /\ \A p \in P!Processes : proc[p] = "none"
       /\ \A s \in P!Streams :
            copier[s] = "copying" /\ kept[s] = 0 /\ pipe[s] = 0 /\ wrote[s] = 0

\* Only what lives holds a pipe, and only what has lived is in the group.
HoldersLive ==
  /\ \A s \in P!Streams : \A p \in holds[s] : P!Alive(p)
  /\ \A p \in group : proc[p] # "none"

\* What was written is in the buffer, in the pipe, or past the limit.
CopiersAccount ==
  \A s \in P!Streams :
    /\ copier[s] = "copying" => wrote[s] = kept[s] + pipe[s]
    /\ copier[s] = "draining" => kept[s] = Limit[s] /\ wrote[s] > Limit[s]
    /\ copier[s] # "done" => truncated[s] = FALSE
    /\ copier[s] = "done" =>
         /\ pipe[s] = 0 /\ holds[s] = {}
         /\ truncated[s] = (wrote[s] > Limit[s])
         /\ kept[s] = (IF wrote[s] > Limit[s] THEN Limit[s] ELSE wrote[s])

\* Run waits for the child when both copiers are done.
CopiedBeforeWait == Waited => \A s \in P!Streams : copier[s] = "done"

\* Nobody is killed, and the watcher does not act, before the context is done.
KilledOnStop ==
  /\ watcher = "called" => ctx # "none"
  /\ proc[P!Child] = "killed" => ctx # "none"

SInv ==
  /\ P!TypeOK
  /\ NothingUnstarted
  /\ HoldersLive
  /\ CopiersAccount
  /\ CopiedBeforeWait
  /\ KilledOnStop
  /\ P!StopIsReported
  /\ P!GroupDiesTogether

HIDE ScannerAssumption
USE ProcConstants DEF P!ProcAssumption, P!Processes, P!Streams, P!Child

LEMMA SupervisionBegins == P!Init => SInv
  BY DEF P!Init, SInv, P!TypeOK, NothingUnstarted, NoChild, HoldersLive, CopiersAccount,
         CopiedBeforeWait, Waited, KilledOnStop, P!StopIsReported, P!GroupDiesTogether, P!Alive

\* The program's own steps.
LEMMA WriteKeepsIt ==
  ASSUME SInv, NEW p \in P!Processes, NEW s \in P!Streams, P!Write(p, s)
  PROVE  SInv'
<1> USE DEF SInv, P!Write, P!supervisor
<1>1. P!TypeOK' BY DEF P!TypeOK
<1>2. NothingUnstarted' BY DEF NothingUnstarted, NoChild, P!Alive
<1>3. HoldersLive' BY DEF HoldersLive, P!Alive
<1>4. CopiersAccount' BY DEF CopiersAccount, P!TypeOK
<1>5. CopiedBeforeWait' BY DEF CopiedBeforeWait, Waited
<1>6. KilledOnStop' BY DEF KilledOnStop
<1>7. P!StopIsReported' BY DEF P!StopIsReported, P!Alive
<1>8. P!GroupDiesTogether' BY DEF P!GroupDiesTogether, P!Alive
<1> QED BY <1>1, <1>2, <1>3, <1>4, <1>5, <1>6, <1>7, <1>8

LEMMA CloseKeepsIt ==
  ASSUME SInv, NEW p \in P!Processes, NEW s \in P!Streams, P!Close(p, s)
  PROVE  SInv'
<1> USE DEF SInv, P!Close, P!supervisor
<1>1. P!TypeOK' BY DEF P!TypeOK
<1>2. NothingUnstarted' BY DEF NothingUnstarted, NoChild
<1>3. HoldersLive' BY DEF HoldersLive, P!Alive
<1>4. CopiersAccount' BY DEF CopiersAccount
<1>5. CopiedBeforeWait' BY DEF CopiedBeforeWait, Waited
<1>6. KilledOnStop' BY DEF KilledOnStop
<1>7. P!StopIsReported' BY DEF P!StopIsReported, P!Alive
<1>8. P!GroupDiesTogether' BY DEF P!GroupDiesTogether, P!Alive
<1> QED BY <1>1, <1>2, <1>3, <1>4, <1>5, <1>6, <1>7, <1>8

\* Behind the watcher nobody in the group is left to fork, and a helper from outside it was
\* not there before.
LEMMA ForkKeepsIt ==
  ASSUME SInv, NEW p \in P!Processes, NEW h \in Helpers, P!Fork(p, h)
  PROVE  SInv'
<1> USE DEF SInv, P!Fork, P!supervisor
<1>1. P!TypeOK' BY DEF P!TypeOK
<1>2. NothingUnstarted' BY DEF NothingUnstarted, NoChild, P!Alive
<1>3. HoldersLive' BY DEF HoldersLive, P!TypeOK, P!Alive
<1>4. CopiersAccount' BY DEF CopiersAccount
<1>5. CopiedBeforeWait' BY DEF CopiedBeforeWait, Waited
<1>6. KilledOnStop' BY DEF KilledOnStop
<1>7. P!StopIsReported' BY DEF P!StopIsReported, P!Alive
<1>8. P!GroupDiesTogether' BY DEF P!GroupDiesTogether, HoldersLive, P!Alive
<1> QED BY <1>1, <1>2, <1>3, <1>4, <1>5, <1>6, <1>7, <1>8

LEMMA EscapeKeepsIt ==
  ASSUME SInv, NEW h \in Helpers, P!Escape(h)
  PROVE  SInv'
<1> USE DEF SInv, P!Escape, P!supervisor
<1>1. P!TypeOK' BY DEF P!TypeOK
<1>2. NothingUnstarted' BY DEF NothingUnstarted, NoChild
<1>3. HoldersLive' BY DEF HoldersLive, P!Alive
<1>4. CopiersAccount' BY DEF CopiersAccount
<1>5. CopiedBeforeWait' BY DEF CopiedBeforeWait, Waited
<1>6. KilledOnStop' BY DEF KilledOnStop
<1>7. P!StopIsReported' BY DEF P!StopIsReported, P!Alive
<1>8. P!GroupDiesTogether' BY DEF P!GroupDiesTogether
<1> QED BY <1>1, <1>2, <1>3, <1>4, <1>5, <1>6, <1>7, <1>8

LEMMA ExitKeepsIt ==
  ASSUME SInv, NEW p \in P!Processes, P!Exit(p)
  PROVE  SInv'
<1> USE DEF SInv, P!Exit, P!WithoutHolder, P!supervisor
<1>1. P!TypeOK' BY DEF P!TypeOK
<1>2. NothingUnstarted' BY DEF NothingUnstarted, NoChild, P!Alive
<1>3. HoldersLive' BY DEF HoldersLive, P!Alive
<1>4. CopiersAccount' BY DEF CopiersAccount
<1>5. CopiedBeforeWait' BY DEF CopiedBeforeWait, Waited
<1>6. KilledOnStop' BY DEF KilledOnStop
<1>7. P!StopIsReported' BY DEF P!StopIsReported, P!Alive
<1>8. P!GroupDiesTogether' BY DEF P!GroupDiesTogether, P!Alive
<1> QED BY <1>1, <1>2, <1>3, <1>4, <1>5, <1>6, <1>7, <1>8

\* The supervisor's steps.
LEMMA NoStartKeepsIt ==
  ASSUME SInv, P!CannotStart
  PROVE  SInv'
<1> USE DEF SInv, P!CannotStart, P!program
<1>1. P!TypeOK' BY DEF P!TypeOK
<1>2. NothingUnstarted' BY DEF NothingUnstarted, NoChild
<1>3. HoldersLive' BY DEF HoldersLive, P!Alive
<1>4. CopiersAccount' BY DEF CopiersAccount
<1>5. CopiedBeforeWait' BY DEF CopiedBeforeWait, Waited
<1>6. KilledOnStop' BY DEF KilledOnStop
<1>7. P!StopIsReported' BY DEF P!StopIsReported, NothingUnstarted, NoChild, P!Alive
<1>8. P!GroupDiesTogether' BY DEF P!GroupDiesTogether, P!Alive
<1> QED BY <1>1, <1>2, <1>3, <1>4, <1>5, <1>6, <1>7, <1>8

LEMMA StartKeepsIt ==
  ASSUME SInv, P!Start
  PROVE  SInv'
<1> USE DEF SInv, P!Start
<1>1. P!TypeOK' BY DEF P!TypeOK
<1>2. NothingUnstarted' BY DEF NothingUnstarted, NoChild
<1>3. HoldersLive' BY DEF HoldersLive, P!TypeOK, P!Alive
<1>4. CopiersAccount' BY DEF CopiersAccount, NothingUnstarted, NoChild
<1>5. CopiedBeforeWait' BY DEF CopiedBeforeWait, Waited
<1>6. KilledOnStop' BY DEF KilledOnStop
<1>7. P!StopIsReported' BY DEF P!StopIsReported
<1>8. P!GroupDiesTogether' BY DEF P!GroupDiesTogether, KilledOnStop
<1> QED BY <1>1, <1>2, <1>3, <1>4, <1>5, <1>6, <1>7, <1>8

LEMMA StopKeepsIt ==
  ASSUME SInv, P!Expire \/ P!Cancelled
  PROVE  SInv'
<1> USE DEF SInv, P!Cancelled, P!Expire, P!program
<1>1. P!TypeOK' BY DEF P!TypeOK
<1>2. NothingUnstarted' BY DEF NothingUnstarted, NoChild
<1>3. HoldersLive' BY DEF HoldersLive, P!Alive
<1>4. CopiersAccount' BY DEF CopiersAccount
<1>5. CopiedBeforeWait' BY DEF CopiedBeforeWait, Waited
<1>6. KilledOnStop' BY DEF KilledOnStop
<1>7. P!StopIsReported' BY DEF P!StopIsReported
<1>8. P!GroupDiesTogether' BY DEF P!GroupDiesTogether, P!Alive
<1> QED BY <1>1, <1>2, <1>3, <1>4, <1>5, <1>6, <1>7, <1>8

LEMMA KillKeepsIt ==
  ASSUME SInv, P!Kill
  PROVE  SInv'
<1> USE DEF SInv, P!Kill, P!Killed
<1>1. P!TypeOK' BY DEF P!TypeOK
<1>2. NothingUnstarted' BY DEF NothingUnstarted, NoChild
<1>3. HoldersLive' BY DEF HoldersLive, P!TypeOK, P!Alive
<1>4. CopiersAccount' BY DEF CopiersAccount
<1>5. CopiedBeforeWait' BY DEF CopiedBeforeWait, Waited
<1>6. KilledOnStop' BY DEF KilledOnStop
<1>7. P!StopIsReported' BY DEF P!StopIsReported
<1>8. P!GroupDiesTogether' BY DEF P!GroupDiesTogether, P!TypeOK, P!Alive
<1> QED BY <1>1, <1>2, <1>3, <1>4, <1>5, <1>6, <1>7, <1>8

\* A byte moves from the pipe to the buffer, or is the one that shows there is more.
LEMMA CopyKeepsIt ==
  ASSUME SInv, NEW s \in P!Streams, P!Copy(s)
  PROVE  SInv'
<1> USE DEF SInv, P!Copy, P!Buffered, P!Overflows, P!Reads
<1>1. P!TypeOK'
  <2>1. kept' \in [P!Streams -> Nat] /\ \A t \in P!Streams : kept'[t] <= Limit[t]
    BY DEF P!TypeOK
  <2>2. pipe' \in [P!Streams -> 0 .. Capacity]
    BY DEF P!TypeOK
  <2>3. copier' \in [P!Streams -> {"copying", "draining", "done"}]
    BY DEF P!TypeOK
  <2> QED BY <2>1, <2>2, <2>3 DEF P!TypeOK
<1>2. NothingUnstarted' BY DEF NothingUnstarted, NoChild
<1>3. HoldersLive' BY DEF HoldersLive, P!Alive
<1>4. CopiersAccount' BY DEF CopiersAccount, P!TypeOK
<1>5. CopiedBeforeWait' BY DEF CopiedBeforeWait, Waited
<1>6. KilledOnStop' BY DEF KilledOnStop
<1>7. P!StopIsReported' BY DEF P!StopIsReported, P!Alive
<1>8. P!GroupDiesTogether' BY DEF P!GroupDiesTogether, P!Alive
<1> QED BY <1>1, <1>2, <1>3, <1>4, <1>5, <1>6, <1>7, <1>8

\* At the end of a pipe all that was written has been read.
LEMMA CopyEndsKeepsIt ==
  ASSUME SInv, NEW s \in P!Streams, P!CopyEnds(s)
  PROVE  SInv'
<1> USE DEF SInv, P!CopyEnds, P!EndOfFile, P!Started, P!program
<1>1. P!TypeOK' BY DEF P!TypeOK
<1>2. NothingUnstarted' BY DEF NothingUnstarted, NoChild
<1>3. HoldersLive' BY DEF HoldersLive, P!Alive
<1>4. CopiersAccount' BY DEF CopiersAccount, P!TypeOK
<1>5. CopiedBeforeWait' BY DEF CopiedBeforeWait, Waited
<1>6. KilledOnStop' BY DEF KilledOnStop
<1>7. P!StopIsReported' BY DEF P!StopIsReported, P!Alive
<1>8. P!GroupDiesTogether' BY DEF P!GroupDiesTogether, P!Alive
<1> QED BY <1>1, <1>2, <1>3, <1>4, <1>5, <1>6, <1>7, <1>8

LEMMA BothKeepsIt ==
  ASSUME SInv, P!BothCopied
  PROVE  SInv'
<1> USE DEF SInv, P!BothCopied, P!program
<1>1. P!TypeOK' BY DEF P!TypeOK
<1>2. NothingUnstarted' BY DEF NothingUnstarted, NoChild
<1>3. HoldersLive' BY DEF HoldersLive, P!Alive
<1>4. CopiersAccount' BY DEF CopiersAccount
<1>5. CopiedBeforeWait' BY DEF CopiedBeforeWait
<1>6. KilledOnStop' BY DEF KilledOnStop
<1>7. P!StopIsReported' BY DEF P!StopIsReported
<1>8. P!GroupDiesTogether' BY DEF P!GroupDiesTogether, P!Alive
<1> QED BY <1>1, <1>2, <1>3, <1>4, <1>5, <1>6, <1>7, <1>8

LEMMA ReturnKeepsIt ==
  ASSUME SInv, P!Return
  PROVE  SInv'
<1> USE DEF SInv, P!Return, P!Verdict, P!program
<1>1. P!TypeOK' BY DEF P!TypeOK
<1>2. NothingUnstarted' BY DEF NothingUnstarted, NoChild
<1>3. HoldersLive' BY DEF HoldersLive, P!Alive
<1>4. CopiersAccount' BY DEF CopiersAccount
<1>5. CopiedBeforeWait' BY DEF CopiedBeforeWait, Waited
<1>6. KilledOnStop' BY DEF KilledOnStop
<1>7. P!StopIsReported' BY DEF P!StopIsReported, P!TypeOK, KilledOnStop, P!Alive
<1>8. P!GroupDiesTogether' BY DEF P!GroupDiesTogether, P!Alive
<1> QED BY <1>1, <1>2, <1>3, <1>4, <1>5, <1>6, <1>7, <1>8

LEMMA SupervisionKeeps == SInv /\ [P!Next]_(P!vars) => SInv'
<1> SUFFICES ASSUME SInv, [P!Next]_(P!vars) PROVE SInv'
  OBVIOUS
<1>1. CASE P!Run
  <2>1. ASSUME NEW p \in P!Processes, NEW s \in P!Streams, P!Write(p, s) \/ P!Close(p, s)
        PROVE  SInv'
    BY <2>1, WriteKeepsIt, CloseKeepsIt
  <2>2. ASSUME NEW p \in P!Processes, NEW h \in Helpers, P!Fork(p, h) PROVE SInv'
    BY <2>2, ForkKeepsIt
  <2>3. ASSUME NEW h \in Helpers, P!Escape(h) PROVE SInv'
    BY <2>3, EscapeKeepsIt
  <2>4. ASSUME NEW p \in P!Processes, P!Exit(p) PROVE SInv'
    BY <2>4, ExitKeepsIt
  <2> QED BY <1>1, <2>1, <2>2, <2>3, <2>4 DEF P!Run
<1>2. CASE P!Supervise
  <2>1. ASSUME NEW s \in P!Streams, P!Copy(s) \/ P!CopyEnds(s) PROVE SInv'
    BY <2>1, CopyKeepsIt, CopyEndsKeepsIt
  <2> QED BY <1>2, <2>1, NoStartKeepsIt, StartKeepsIt, BothKeepsIt, ReturnKeepsIt, KillKeepsIt
          DEF P!Supervise
<1>3. CASE P!Expire \/ P!Cancelled
  BY <1>3, StopKeepsIt
<1>4. CASE UNCHANGED P!vars
  BY <1>4 DEF P!vars, P!supervisor, P!program, SInv, P!TypeOK, NothingUnstarted, NoChild,
              HoldersLive, CopiersAccount, CopiedBeforeWait, Waited, KilledOnStop,
              P!StopIsReported, P!GroupDiesTogether, P!Alive
<1> QED BY <1>1, <1>2, <1>3, <1>4 DEF P!Next

\* Output is whole or marked, a stop is reported, and a group dies together, for any number
\* of helpers, those that leave the group included, any pipe and any limits.
THEOREM ResultsAreTrue == P!Spec => []ResultIsTrue
<1>1. SInv => ResultIsTrue
  BY DEF SInv, ResultIsTrue, P!ResultIsTrue, P!OutputWholeOrMarked, CopiersAccount,
         CopiedBeforeWait, Waited
<1> QED BY <1>1, SupervisionBegins, SupervisionKeeps, PTL DEF P!Spec
=============================================================================
