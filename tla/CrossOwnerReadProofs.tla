------------------------ MODULE CrossOwnerReadProofs ------------------------
(***************************************************************************)
(* Theorems about CrossOwnerRead, for any units, fixtures and identities,  *)
(* whatever expires, is deleted, lost, cached or cancelled meanwhile.      *)
(*                                                                         *)
(* A step of CrossOwnerRead that touches a credential is a step of         *)
(* Identity, so that the theorems of IdentityProofs are facts about the    *)
(* run (IdentityIsKept). What a conclusion rests on then follows from      *)
(* where the canaries can be (CanariesInPlace) and from what an answered   *)
(* closing canary says of the uses before it (ClosedIsCurrent).            *)
(***************************************************************************)
EXTENDS CrossOwnerRead, TLAPS

IdP == INSTANCE IdentityProofs

USE CrossOwnerAssumption

-----------------------------------------------------------------------------
(* The inductive invariant.                                                *)

\* Units run between the two rounds of canaries, and a unit has a row once it is back.
UnitsMatchPhase ==
  /\ phase = "opening" => \A u \in Units : step[u] = "waiting"
  /\ phase \in {"closing", "rescoring", "done"} => \A u \in Units : step[u] = "returned"
  /\ \A u \in Units : step[u] # "returned" => row[u] = "none" /\ finding[u] = "none"

\* A unit waits for a canary of the owner it suspects and for no other; the run waits for
\* those of its two rounds, and for each identity once in a round.
CanariesInPlace ==
  /\ \A u \in Units, i \in Identities : canary[i][u] # "none" => step[u] = "canary" /\ i = Owner(u)
  /\ \A i \in Identities : canary[i][Main] # "none" => phase \in {"opening", "closing"} /\ i \notin toProbe

\* The owner's resource, if it is there when the owner asks again, was there when the
\* non-owner asked.
PresentWhenAsked ==
  \A u \in Units : step[u] = "recheck" /\ FixtureOf[u] \in present => truth[u].present

\* An answered closing canary condemns the identity or backs every use made of it, and
\* nothing has been asked of the identity since.
ClosedIsCurrent ==
  /\ phase \in {"opening", "running"} => closed = {}
  /\ \A i \in closed :
       /\ i \notin toProbe
       /\ canary[i][Main] = "none"
       /\ liveness[i] = "bad" \/ \A use \in uses : use.as = i => use.backed

IInv ==
  /\ TypeOK
  /\ IdP!IInv
  /\ UnitsMatchPhase
  /\ CanariesInPlace
  /\ PresentWhenAsked
  /\ HeldMeansPresent
  /\ ClosedIsCurrent
  /\ ConclusionsRestOnLiveCredentials

-----------------------------------------------------------------------------
(* The credentials: every step is one of Identity's or leaves them alone.  *)

LEMMA CallersAreApart ==
  /\ Units \subseteq Callers /\ Main \in Callers
  /\ \A u \in Units : Owner(u) \in Identities /\ NonOwnerOf[u] \in Identities
  /\ \A u \in Units : u # Main
BY DEF Callers, Owner

\* What the steps of Identity do, by the name it has there.
LEMMA SameSteps ==
  ASSUME NEW i, NEW c
  PROVE  /\ Id!Use(c, i) <=> IdP!Use(c, i)
         /\ Id!Expire(i) <=> IdP!Expire(i)
         /\ Id!AnswerCanary(c, i) <=> IdP!AnswerCanary(c, i)
         /\ Id!FinishCanary(c, i) <=> IdP!FinishCanary(c, i)
         /\ Id!Probe(c, i) <=> IdP!Probe(c, i)
         /\ Id!NoteSuspicious(c, i) <=> IdP!NoteSuspicious(c, i)
BY DEF Id!Use, IdP!Use, Id!Expire, IdP!Expire, Id!AnswerCanary, IdP!AnswerCanary,
       Id!FinishCanary, IdP!FinishCanary, Id!Probe, IdP!Probe, Id!NoteSuspicious,
       IdP!NoteSuspicious, Id!SendCanary, IdP!SendCanary, Id!MayProbe, IdP!MayProbe,
       Id!MaySuspect, IdP!MaySuspect, Id!Idle, IdP!Idle, Id!Verdicts, IdP!Verdicts,
       Id!Learned, IdP!Learned, Id!Stamped, IdP!Stamped, Id!ProbingAfter, IdP!ProbingAfter

LEMMA StepOfIdentity ==
  ASSUME [Next]_vars
  PROVE  [IdP!Next]_(IdP!vars)
<1>1. \/ UNCHANGED credentials
      \/ \E i \in Identities :
           \/ IdP!Expire(i)
           \/ \E c \in Callers :
                \/ IdP!Use(c, i) \/ IdP!Probe(c, i) \/ IdP!NoteSuspicious(c, i)
                \/ IdP!AnswerCanary(c, i) \/ IdP!FinishCanary(c, i)
  <2>1. CASE UNCHANGED vars
    BY <2>1 DEF vars
  <2>2. CASE MainStep
    BY <2>2, CallersAreApart, SameSteps
    DEF MainStep, RoundOver, WorkOver, Rescore, SendProbe, FinishProbe, CanaryAnswered
  <2>3. ASSUME NEW u \in Units, UnitStep(u)
        PROVE  \/ UNCHANGED credentials
               \/ \E i \in Identities, c \in Callers :
                    \/ IdP!Use(c, i) \/ IdP!Probe(c, i) \/ IdP!NoteSuspicious(c, i)
                    \/ IdP!AnswerCanary(c, i) \/ IdP!FinishCanary(c, i)
    BY <2>3, CallersAreApart, SameSteps
    DEF UnitStep, Start, GiveUp, OwnerControl, Suspect, SuspicionOver, NonOwnerProbe,
        OwnerRecheck, CanaryAnswered
  <2>4. CASE \E i \in Identities : ExpireCredential(i)
    BY <2>4, SameSteps DEF ExpireCredential
  <2>5. CASE (\E f \in Fixtures : Delete(f)) \/ Cancel \/ Done
    BY <2>5 DEF Delete, Cancel, Done, vars
  <2> QED BY <2>1, <2>2, <2>3, <2>4, <2>5 DEF Next
<1> QED
  BY <1>1 DEF IdP!Next, IdP!vars, credentials

LEMMA IdentityStep ==
  ASSUME IdP!IInv, [Next]_vars
  PROVE  IdP!IInv'
BY StepOfIdentity, IdP!IInvStep DEF IdP!IdentityAssumption

\* What the proofs below use of it.
LEMMA CredentialTypes ==
  ASSUME IdP!IInv
  PROVE  /\ accepted \subseteq Identities
         /\ liveness \in [Identities -> {"unknown", "good", "bad"}]
         /\ canary \in [Identities -> [Callers -> {"none", "sent", "accepted", "rejected", "lost"}]]
         /\ \A use \in uses : /\ use.by \in Callers /\ use.as \in Identities
                              /\ use.live \in BOOLEAN /\ use.backed \in BOOLEAN
         /\ \A use \in uses : use.backed => use.live \/ use.as \in raced
BY DEF IdP!IInv, IdP!TypeOK, IdP!LivenessStates, IdP!CanaryStates, IdP!UseRecords,
       IdP!BackedUseWasLive

-----------------------------------------------------------------------------
(* The first state, and types.                                             *)

LEMMA Initially == Init => IInv
<1> SUFFICES ASSUME Init PROVE IInv
  OBVIOUS
<1>1. IdP!IInv
  BY IdP!IInvInit DEF Init, Id!Init, IdP!Init, IdP!IdentityAssumption
<1>2. Id!TypeOK
  BY <1>1 DEF IdP!IInv, IdP!TypeOK, Id!TypeOK, Id!LivenessStates, IdP!LivenessStates,
    Id!CanaryStates, IdP!CanaryStates, Id!UseRecords, IdP!UseRecords
<1>3. TypeOK
  BY <1>2 DEF Init, TypeOK, Steps, Answers
<1>4. UnitsMatchPhase /\ PresentWhenAsked /\ HeldMeansPresent /\ ClosedIsCurrent
      /\ ConclusionsRestOnLiveCredentials
  BY DEF Init, UnitsMatchPhase, PresentWhenAsked, HeldMeansPresent, ClosedIsCurrent,
    ConclusionsRestOnLiveCredentials
<1>5. CanariesInPlace
  BY CallersAreApart DEF Init, Id!Init, CanariesInPlace
<1> QED
  BY <1>1, <1>3, <1>4, <1>5 DEF IInv

LEMMA VerdictsAreTyped ==
  ASSUME NEW u \in Units
  PROVE  /\ Verdict(u) \in Executed \cup {"indeterminate"}
         /\ FindingOf(u) \in {"none", "suspected", "confirmed"}
         /\ GateCause(u) \in {"none", "missing_identity", "authentication_failed"}
         /\ TransportCause \in BlockedCauses
BY DEF Verdict, Executed, FindingOf, GateCause, TransportCause, BlockedCauses

LEMMA AnswersAreTyped ==
  ASSUME NEW i, NEW f, NEW a \in MayAnswer(i, f)
  PROVE  a \in Answers
BY DEF MayAnswer, ApplicationAnswers, Answers

\* A step of a unit: it was not back, and it moves on without a row or returns with one.
Rows == {"none", "cancelled"} \cup Executed \cup BlockedCauses
UnitMoves(u) ==
  /\ UNCHANGED <<present, cancelled, phase, toProbe, closed>>
  /\ step[u] # "returned"
  /\ \E to \in Steps : step' = [step EXCEPT ![u] = to]
  /\ \E a \in Answers : answer' = [answer EXCEPT ![u] = a]
  /\ \E r \in Rows : row' = [row EXCEPT ![u] = r]
  /\ \E f \in {"none", "suspected", "confirmed"} : finding' = [finding EXCEPT ![u] = f]
  /\ \E t \in [present : BOOLEAN, replayed : BOOLEAN] : truth' = [truth EXCEPT ![u] = t]
  /\ step'[u] # "returned" => UNCHANGED <<row, finding>>

LEMMA UnitRuns ==
  ASSUME IInv, NEW u \in Units, UnitStep(u)
  PROVE  phase = "running" /\ step[u] # "returned"
<1>1. step[u] # "returned"
  BY DEF UnitStep, Start, GiveUp, OwnerControl, Suspect, SuspicionOver, NonOwnerProbe, OwnerRecheck,
    CanaryAnswered, Return, Goto, Id!AnswerCanary, IInv, CanariesInPlace
<1>2. step[u] = "waiting" => phase = "running"
  BY DEF UnitStep, Start, GiveUp, OwnerControl, Suspect, SuspicionOver, NonOwnerProbe, OwnerRecheck,
    CanaryAnswered, Return, Goto, Id!AnswerCanary, IInv, CanariesInPlace
<1> QED
  BY <1>1, <1>2 DEF IInv, TypeOK, UnitsMatchPhase

\* Every unit step is one of these, or the target's handling of the unit's canary.
LEMMA UnitMovesOn ==
  ASSUME IInv, NEW u \in Units, UnitStep(u)
  PROVE  \/ UnitMoves(u)
         \/ UNCHANGED <<present, cancelled, engine, step, answer, verdicts, truth>>
<1> USE DEF Goto, Return, engine, verdicts
<1>1. /\ step \in [Units -> Steps] /\ answer \in [Units -> Answers] /\ row \in [Units -> Rows]
      /\ finding \in [Units -> {"none", "suspected", "confirmed"}]
      /\ truth \in [Units -> [present : BOOLEAN, replayed : BOOLEAN]]
  BY DEF IInv, TypeOK, Rows
<1>2. /\ answer = [answer EXCEPT ![u] = answer[u]] /\ row = [row EXCEPT ![u] = row[u]]
      /\ finding = [finding EXCEPT ![u] = finding[u]] /\ truth = [truth EXCEPT ![u] = truth[u]]
      /\ answer[u] \in Answers /\ row[u] \in Rows
      /\ finding[u] \in {"none", "suspected", "confirmed"}
      /\ truth[u] \in [present : BOOLEAN, replayed : BOOLEAN]
  BY <1>1
<1>3. /\ {"waiting", "ownerControl", "suspicion", "canary", "probe", "recheck", "returned"} = Steps
      /\ {"none", "cancelled", "missing_identity", "authentication_failed", "missing_resource",
          "indeterminate", "transport_error"} \subseteq Rows
      /\ Verdict(u) \in Rows /\ GateCause(u) \in Rows /\ TransportCause \in Rows
  BY VerdictsAreTyped DEF Steps, Rows, BlockedCauses
<1> DEFINE Plain == /\ step[u] # "returned"
                    /\ UNCHANGED <<present, cancelled, phase, toProbe, closed, answer, finding, truth>>
                    /\ \/ \E to \in Steps : step' = [step EXCEPT ![u] = to] /\ UNCHANGED row
                       \/ \E r \in Rows : /\ step' = [step EXCEPT ![u] = "returned"]
                                          /\ row' = [row EXCEPT ![u] = r]
<1>A. ASSUME Plain PROVE UnitMoves(u)
  <2>1. CASE \E to \in Steps : step' = [step EXCEPT ![u] = to] /\ UNCHANGED row
    BY <1>A, <1>2, <2>1 DEF UnitMoves
  <2>2. ASSUME NEW r \in Rows, step' = [step EXCEPT ![u] = "returned"], row' = [row EXCEPT ![u] = r]
        PROVE  UnitMoves(u)
    <3>1. "returned" \in Steps /\ step'[u] = "returned"
      BY <1>1, <1>3, <2>2
    <3> QED BY <1>A, <1>2, <2>2, <3>1 DEF UnitMoves
  <2> QED BY <1>A, <2>1, <2>2
<1>4. CASE Start(u) \/ GiveUp(u)
  <2>1. Plain
    BY <1>3, <1>4 DEF Start, GiveUp
  <2> QED BY <1>A, <2>1
<1>5. CASE OwnerControl(u)
  <2>1. Plain
    BY <1>3, <1>5 DEF OwnerControl
  <2> QED BY <1>A, <2>1
<1>6. CASE Suspect(u) \/ SuspicionOver(u)
  <2>1. Plain
    BY <1>3, <1>6 DEF Suspect, SuspicionOver
  <2> QED BY <1>A, <2>1
<1>7. CASE NonOwnerProbe(u)
  <2>1. PICK a \in MayAnswer(NonOwnerOf[u], FixtureOf[u]) :
       /\ answer' = [answer EXCEPT ![u] = a]
       /\ truth' = [truth EXCEPT ![u].present = FixtureOf[u] \in present]
       /\ IF a = "lost" THEN Return(u, "probe", TransportCause)
                        ELSE Goto(u, "probe", "recheck") /\ UNCHANGED row
    BY <1>7 DEF NonOwnerProbe
  <2>2. a \in Answers
    BY AnswersAreTyped
  <2>3. \E t \in [present : BOOLEAN, replayed : BOOLEAN] : truth' = [truth EXCEPT ![u] = t]
    <3> DEFINE there == FixtureOf[u] \in present
    <3>1. truth' = [truth EXCEPT ![u] = [truth[u] EXCEPT !.present = there]]
      BY <2>1
    <3>2. there \in BOOLEAN
      OBVIOUS
    <3> HIDE DEF there
    <3>3. [truth[u] EXCEPT !.present = there] \in [present : BOOLEAN, replayed : BOOLEAN]
      BY <1>2, <3>2
    <3> QED BY <3>1, <3>3
  <2>4. /\ UNCHANGED <<present, cancelled, phase, toProbe, closed, finding>> /\ step[u] = "probe"
        /\ \/ step' = [step EXCEPT ![u] = "recheck"] /\ row' = row
           \/ step' = [step EXCEPT ![u] = "returned"] /\ row' = [row EXCEPT ![u] = TransportCause]
    BY <1>7, <2>1 DEF NonOwnerProbe
  <2>5. "recheck" \in Steps /\ "returned" \in Steps
    BY <1>3
  <2>6. step'[u] # "returned" => UNCHANGED row
    BY <1>1, <2>4
  <2>7. \E r \in Rows : row' = [row EXCEPT ![u] = r]
    BY <1>2, <1>3, <2>4
  <2> QED BY <1>2, <2>1, <2>2, <2>3, <2>4, <2>5, <2>6, <2>7 DEF UnitMoves
<1>8. CASE OwnerRecheck(u)
  <2>1. PICK a \in MayAnswer(Owner(u), FixtureOf[u]) :
       /\ truth' = [truth EXCEPT ![u].replayed = (a = "cached")]
       /\ CASE a = "lost" -> Return(u, "recheck", TransportCause) /\ UNCHANGED finding
            [] a # "lost" /\ ~StillReadable(a) ->
                 Return(u, "recheck", "missing_resource") /\ UNCHANGED finding
            [] OTHER ->
                 /\ Return(u, "recheck", Verdict(u))
                 /\ finding' = [finding EXCEPT ![u] = FindingOf(u)]
    BY <1>8 DEF OwnerRecheck
  <2>2. \E t \in [present : BOOLEAN, replayed : BOOLEAN] : truth' = [truth EXCEPT ![u] = t]
    <3>1. truth' = [truth EXCEPT ![u] = [truth[u] EXCEPT !.replayed = (a = "cached")]]
      BY <2>1
    <3>2. [truth[u] EXCEPT !.replayed = (a = "cached")] \in [present : BOOLEAN, replayed : BOOLEAN]
      BY <1>2
    <3> QED BY <3>1, <3>2
  <2>3. /\ step[u] = "recheck" /\ step' = [step EXCEPT ![u] = "returned"]
        /\ \E r \in Rows : row' = [row EXCEPT ![u] = r]
        /\ \E f \in {"none", "suspected", "confirmed"} : finding' = [finding EXCEPT ![u] = f]
    BY <1>2, <1>3, <2>1, VerdictsAreTyped
  <2>4. UNCHANGED <<present, cancelled, phase, toProbe, closed, answer>> /\ "returned" \in Steps
    BY <1>3, <1>8 DEF OwnerRecheck
  <2>5. step'[u] = "returned"
    BY <1>1, <2>3
  <2> QED BY <1>2, <2>2, <2>3, <2>4, <2>5 DEF UnitMoves
<1> QED
  BY <1>4, <1>5, <1>6, <1>7, <1>8 DEF UnitStep, CanaryAnswered

LEMMA TypeStep == ASSUME IInv, [Next]_vars PROVE TypeOK'
<1>1. Id!TypeOK'
  BY IdentityStep DEF IInv, IdP!IInv, IdP!TypeOK, Id!TypeOK, Id!LivenessStates,
    IdP!LivenessStates, Id!CanaryStates, IdP!CanaryStates, Id!UseRecords, IdP!UseRecords
<1>2. CASE UNCHANGED <<present, cancelled, engine, step, answer, verdicts, truth>>
  BY <1>1, <1>2 DEF IInv, TypeOK, engine, verdicts
<1>3. ASSUME NEW u \in Units, UnitMoves(u) PROVE TypeOK'
  BY <1>1, <1>3 DEF UnitMoves, IInv, TypeOK, Rows
<1>4. CASE RoundOver \/ WorkOver
  BY <1>1, <1>4 DEF RoundOver, WorkOver, IInv, TypeOK, verdicts
<1>5. CASE Rescore
  BY <1>1, <1>5 DEF Rescore, IInv, TypeOK, BlockedCauses
<1>6. ASSUME NEW i \in Identities, SendProbe(i) \/ FinishProbe(i) \/ CanaryAnswered(Main, i)
      PROVE  TypeOK'
  BY <1>1, <1>6 DEF SendProbe, FinishProbe, CanaryAnswered, IInv, TypeOK, engine, verdicts
<1>7. CASE Cancel \/ \E f \in Fixtures : Delete(f)
  BY <1>1, <1>7 DEF Cancel, Delete, IInv, TypeOK, engine, verdicts
<1>8. CASE Done \/ UNCHANGED vars \/ \E i \in Identities : ExpireCredential(i)
  BY <1>2, <1>8 DEF Done, vars, ExpireCredential
<1> QED
  BY <1>2, <1>3, <1>4, <1>5, <1>6, <1>7, <1>8, UnitMovesOn DEF Next, MainStep

-----------------------------------------------------------------------------
(* Where the units and the canaries are.                                   *)

LEMMA PhaseStep == ASSUME IInv, [Next]_vars PROVE UnitsMatchPhase'
<1>1. CASE UNCHANGED <<phase, step, verdicts>>
  BY <1>1 DEF IInv, UnitsMatchPhase, verdicts
<1>2. ASSUME NEW u \in Units, UnitStep(u), UnitMoves(u) PROVE UnitsMatchPhase'
  <2>1. phase = "running" /\ phase' = "running"
    BY <1>2, UnitRuns DEF UnitMoves
  <2>2. \A v \in Units : step'[v] # "returned" =>
          step[v] # "returned" /\ row'[v] = row[v] /\ finding'[v] = finding[v]
    BY <1>2 DEF UnitMoves, IInv, TypeOK
  <2> QED BY <2>1, <2>2 DEF IInv, UnitsMatchPhase
<1>3. CASE RoundOver
  BY <1>3 DEF RoundOver, IInv, UnitsMatchPhase, verdicts
<1>4. CASE WorkOver
  BY <1>4 DEF WorkOver, IInv, UnitsMatchPhase, verdicts
<1>5. CASE Rescore
  BY <1>5 DEF Rescore, IInv, UnitsMatchPhase
<1>6. ASSUME NEW i \in Identities, SendProbe(i) \/ FinishProbe(i) \/ CanaryAnswered(Main, i)
      PROVE  UNCHANGED <<phase, step, verdicts>>
  BY <1>6 DEF SendProbe, FinishProbe, CanaryAnswered, engine
<1>7. ASSUME Cancel \/ (\E f \in Fixtures : Delete(f)) \/ Done \/ UNCHANGED vars
             \/ \E i \in Identities : ExpireCredential(i)
      PROVE  UNCHANGED <<phase, step, verdicts>>
  BY <1>7 DEF Cancel, Delete, Done, vars, ExpireCredential, engine
<1>8. ASSUME NEW u \in Units, UnitStep(u) PROVE UnitsMatchPhase'
  BY <1>1, <1>2, <1>8, UnitMovesOn DEF engine
<1> QED
  BY <1>1, <1>3, <1>4, <1>5, <1>6, <1>7, <1>8 DEF Next, MainStep

\* Sending, answering and finishing a canary, seen from the other callers.
LEMMA CanaryMoves ==
  ASSUME IdP!IInv, NEW i \in Identities, NEW c \in Callers,
         Id!Probe(c, i) \/ Id!NoteSuspicious(c, i) \/ Id!AnswerCanary(c, i) \/ Id!FinishCanary(c, i)
  PROVE  /\ \A j \in Identities, d \in Callers : j # i \/ d # c => canary'[j][d] = canary[j][d]
         /\ Id!AnswerCanary(c, i) => canary[i][c] = "sent"
         /\ Id!FinishCanary(c, i) => canary[i][c] # "none" /\ canary'[i][c] = "none"
<1>1. canary \in [Identities -> [Callers -> {"none", "sent", "accepted", "rejected", "lost"}]]
  BY CredentialTypes
<1>2. \E v : canary' = [canary EXCEPT ![i][c] = v]
  BY DEF Id!Probe, Id!NoteSuspicious, Id!SendCanary, Id!AnswerCanary, Id!FinishCanary
<1>3. PICK v : canary' = [canary EXCEPT ![i][c] = v]
  BY <1>2
<1>4. \A j \in Identities, d \in Callers : j # i \/ d # c => canary'[j][d] = canary[j][d]
  BY <1>1, <1>3
<1>5. Id!FinishCanary(c, i) => canary[i][c] # "none" /\ canary'[i][c] = "none"
  BY <1>1 DEF Id!FinishCanary
<1> QED
  BY <1>4, <1>5 DEF Id!AnswerCanary

LEMMA CanaryStep == ASSUME IInv, [Next]_vars PROVE CanariesInPlace'
<1> USE CallersAreApart DEF IInv
<1>1. CASE UNCHANGED <<canary, phase, toProbe, step>>
  BY <1>1 DEF CanariesInPlace
<1>2. ASSUME NEW u \in Units, Start(u) \/ GiveUp(u) \/ OwnerControl(u) \/ NonOwnerProbe(u) \/ OwnerRecheck(u)
      PROVE  CanariesInPlace'
  <2>1. UNCHANGED <<canary, phase, toProbe>>
    BY <1>2 DEF Start, GiveUp, OwnerControl, NonOwnerProbe, OwnerRecheck, credentials, engine,
      Id!Use
  <2>2. step[u] # "canary"
    BY <1>2 DEF Start, GiveUp, OwnerControl, NonOwnerProbe, OwnerRecheck, Return, Goto
  <2>3. \A v \in Units : v # u => step'[v] = step[v]
    BY <1>2 DEF Start, GiveUp, OwnerControl, NonOwnerProbe, OwnerRecheck, Return, Goto, TypeOK
  <2> QED BY <2>1, <2>2, <2>3 DEF CanariesInPlace
<1>3. ASSUME NEW u \in Units, Suspect(u) PROVE CanariesInPlace'
  <2>1. step[u] = "suspicion" /\ \A v \in Units : v # u => step'[v] = step[v]
    BY <1>3 DEF Suspect, Return, Goto, TypeOK
  <2>2. UNCHANGED <<phase, toProbe>>
    BY <1>3 DEF Suspect, engine
  <2>3. CASE Id!NoteSuspicious(u, Owner(u)) /\ Goto(u, "suspicion", "canary")
    <3>1. step'[u] = "canary"
      BY <2>3 DEF Goto, TypeOK
    <3>2. \A j \in Identities, d \in Callers :
            j # Owner(u) \/ d # u => canary'[j][d] = canary[j][d]
      BY <2>3, CanaryMoves
    <3> QED BY <2>1, <2>2, <3>1, <3>2 DEF CanariesInPlace
  <2>4. CASE UNCHANGED credentials
    BY <2>1, <2>2, <2>4 DEF CanariesInPlace, credentials
  <2> QED BY <1>3, <2>3, <2>4 DEF Suspect
<1>4. ASSUME NEW u \in Units, SuspicionOver(u) PROVE CanariesInPlace'
  <2>1. /\ \A v \in Units : v # u => step'[v] = step[v]
        /\ UNCHANGED <<phase, toProbe>>
    BY <1>4 DEF SuspicionOver, Return, Goto, TypeOK, engine
  <2>2. /\ \A j \in Identities, d \in Callers : d # u => canary'[j][d] = canary[j][d]
        /\ \A j \in Identities : canary'[j][u] = "none"
    <3>1. \A j \in Identities : canary[j][u] # "none" => j = Owner(u)
      BY DEF CanariesInPlace
    <3> QED BY <1>4, <3>1, CanaryMoves DEF SuspicionOver
  <2> QED BY <2>1, <2>2 DEF CanariesInPlace
<1>5. ASSUME NEW c \in Callers, NEW i \in Identities, CanaryAnswered(c, i) PROVE CanariesInPlace'
  <2>1. canary[i][c] # "none" /\ UNCHANGED <<phase, toProbe, step>>
    BY <1>5 DEF CanaryAnswered, Id!AnswerCanary, engine
  <2>2. \A j \in Identities, d \in Callers : canary'[j][d] # "none" => canary[j][d] # "none"
    BY <1>5, <2>1, CanaryMoves DEF CanaryAnswered
  <2> QED BY <2>1, <2>2 DEF CanariesInPlace
<1>6. ASSUME NEW i \in Identities, SendProbe(i) PROVE CanariesInPlace'
  <2>1. /\ \A j \in Identities, d \in Callers : j # i \/ d # Main => canary'[j][d] = canary[j][d]
        /\ phase \in {"opening", "closing"} /\ toProbe' = toProbe \ {i} /\ UNCHANGED <<phase, step>>
    BY <1>6, CanaryMoves DEF SendProbe
  <2> QED BY <2>1 DEF CanariesInPlace
<1>7. ASSUME NEW i \in Identities, FinishProbe(i) PROVE CanariesInPlace'
  <2>1. /\ \A j \in Identities, d \in Callers : canary'[j][d] # "none" => canary[j][d] # "none"
        /\ UNCHANGED <<phase, toProbe, step>>
    BY <1>7, CanaryMoves DEF FinishProbe
  <2>2. \A j \in Identities, d \in Callers :
          canary'[j][d] # "none" => canary[j][d] # "none"
    BY <2>1
  <2> QED BY <2>1, <2>2 DEF CanariesInPlace
<1>8. CASE RoundOver
  <2>1. \A i \in Identities : canary[i][Main] = "none"
    BY <1>8 DEF RoundOver, Id!Idle
  <2> QED BY <1>8, <2>1 DEF RoundOver, CanariesInPlace, credentials
<1>9. CASE WorkOver \/ Rescore
  <2>1. \A i \in Identities : canary[i][Main] = "none"
    BY <1>9 DEF WorkOver, Rescore, CanariesInPlace
  <2> QED BY <1>9, <2>1 DEF WorkOver, Rescore, CanariesInPlace, credentials
<1>10. CASE Cancel \/ Done \/ UNCHANGED vars \/ (\E f \in Fixtures : Delete(f))
            \/ \E i \in Identities : ExpireCredential(i)
  BY <1>1, <1>10 DEF Cancel, Done, vars, Delete, ExpireCredential, Id!Expire, credentials, engine
<1> QED
  BY <1>2, <1>3, <1>4, <1>5, <1>6, <1>7, <1>8, <1>9, <1>10 DEF Next, MainStep, UnitStep

-----------------------------------------------------------------------------
(* A boundary that held was there to hold.                                 *)

\* The owner's own resource is read only if it is there.
LEMMA OwnerReadsWhatIsThere ==
  ASSUME NEW f, NEW a \in MayAnswer(OwnerOf[f], f), StillReadable(a)
  PROVE  a = "cached" \/ f \in present
BY DEF MayAnswer, ApplicationAnswers, StillReadable, Allowed

LEMMA RecheckMeaning ==
  ASSUME IInv, NEW u \in Units, OwnerRecheck(u)
  PROVE  row'[u] = "held" => truth'[u].present \/ truth'[u].replayed
<1>1. PICK a \in MayAnswer(Owner(u), FixtureOf[u]) :
       /\ truth' = [truth EXCEPT ![u].replayed = (a = "cached")]
       /\ CASE a = "lost" -> Return(u, "recheck", TransportCause) /\ UNCHANGED finding
            [] a # "lost" /\ ~StillReadable(a) ->
                 Return(u, "recheck", "missing_resource") /\ UNCHANGED finding
            [] OTHER ->
                 /\ Return(u, "recheck", Verdict(u))
                 /\ finding' = [finding EXCEPT ![u] = FindingOf(u)]
  BY DEF OwnerRecheck
<1>2. /\ truth'[u].present = truth[u].present
      /\ truth'[u].replayed = (a = "cached")
      /\ step[u] = "recheck"
  BY <1>1 DEF IInv, TypeOK, Return, Goto
<1>3. row'[u] = "held" => StillReadable(a)
  BY <1>1 DEF IInv, TypeOK, Return, TransportCause
<1>4. StillReadable(a) /\ a # "cached" => truth[u].present
  BY <1>2, OwnerReadsWhatIsThere DEF IInv, PresentWhenAsked, Owner
<1> QED
  BY <1>2, <1>3, <1>4

LEMMA PresenceStep == ASSUME IInv, [Next]_vars PROVE PresentWhenAsked' /\ HeldMeansPresent'
<1> USE DEF IInv, TypeOK
<1>1. CASE UNCHANGED <<step, row, truth>> /\ present' \subseteq present
  BY <1>1 DEF PresentWhenAsked, HeldMeansPresent
<1>2. ASSUME NEW u \in Units, UnitStep(u), UnitMoves(u) PROVE PresentWhenAsked' /\ HeldMeansPresent'
  <2>1. \A v \in Units : v # u =>
          step'[v] = step[v] /\ row'[v] = row[v] /\ truth'[v] = truth[v]
    BY <1>2 DEF UnitMoves
  <2>2. UNCHANGED present
    BY <1>2 DEF UnitMoves
  <2>3. (step'[u] = "recheck" /\ FixtureOf[u] \in present' => truth'[u].present)
    <3>1. CASE NonOwnerProbe(u)
      <4> DEFINE there == FixtureOf[u] \in present
      <4>1. truth' = [truth EXCEPT ![u].present = there]
        BY <3>1 DEF NonOwnerProbe
      <4>2. FixtureOf[u] \in present' => there
        BY <2>2
      <4> HIDE DEF there
      <4>3. there => truth'[u].present
        BY <4>1
      <4> QED BY <4>2, <4>3
    <3>2. CASE ~ NonOwnerProbe(u)
      BY <1>2, <3>2 DEF UnitStep, Start, GiveUp, OwnerControl, Suspect, SuspicionOver, OwnerRecheck,
        CanaryAnswered, Return, Goto, PresentWhenAsked
    <3> QED BY <3>1, <3>2
  <2>4. (row'[u] = "held" => truth'[u].present \/ truth'[u].replayed)
    <3>1. CASE OwnerRecheck(u)
      BY <3>1, RecheckMeaning
    <3>2. CASE ~ OwnerRecheck(u)
      <4>1. row[u] = "none"
        BY <1>2 DEF UnitMoves, UnitsMatchPhase
      <4>2. row'[u] # "held"
        BY <1>2, <3>2, <4>1 DEF UnitStep, Start, GiveUp, OwnerControl, Suspect, SuspicionOver,
          NonOwnerProbe, CanaryAnswered, Return, verdicts, GateCause, TransportCause
      <4> QED BY <4>2
    <3> QED BY <3>1, <3>2
  <2> QED BY <2>1, <2>2, <2>3, <2>4 DEF PresentWhenAsked, HeldMeansPresent
<1>3. CASE Rescore
  BY <1>3 DEF Rescore, PresentWhenAsked, HeldMeansPresent
<1>4. CASE MainStep /\ ~ Rescore
  BY <1>1, <1>4 DEF MainStep, RoundOver, WorkOver, SendProbe, FinishProbe, CanaryAnswered, verdicts
<1>5. CASE Cancel \/ Done \/ UNCHANGED vars \/ (\E f \in Fixtures : Delete(f))
            \/ \E i \in Identities : ExpireCredential(i)
  BY <1>1, <1>5 DEF Cancel, Done, vars, Delete, ExpireCredential, verdicts
<1>6. ASSUME NEW u \in Units, UnitStep(u) PROVE PresentWhenAsked' /\ HeldMeansPresent'
  BY <1>1, <1>2, <1>6, UnitMovesOn DEF verdicts
<1> QED
  BY <1>3, <1>4, <1>5, <1>6 DEF Next

-----------------------------------------------------------------------------
(* What the closing canaries are worth.                                    *)

\* Finishing a canary stamps uses and makes none; an answered one condemns or backs.
LEMMA FinishMeaning ==
  ASSUME IdP!IInv, NEW i \in Identities, NEW c \in Callers, Id!FinishCanary(c, i)
  PROVE  /\ \A j \in Identities : j # i => liveness'[j] = liveness[j]
         /\ \A j : (\A use \in uses : use.as = j => use.backed)
                     => \A use \in uses' : use.as = j => use.backed
         /\ canary[i][c] # "lost" =>
              liveness'[i] = "bad" \/ \A use \in uses' : use.as = i => use.backed
<1> USE CredentialTypes
<1>1. canary[i][c] \in {"accepted", "rejected", "lost"}
  BY DEF Id!FinishCanary
<1>2. liveness' = [liveness EXCEPT ![i] = Id!Learned(canary[i][c], liveness[i])]
  BY DEF Id!FinishCanary
<1>3. ASSUME NEW now \in uses'
      PROVE  \E use \in uses :
               /\ now.as = use.as /\ use.backed => now.backed
               /\ canary[i][c] = "accepted" /\ now.as = i => now.backed
  <2>1. PICK use \in uses :
          now = IF canary[i][c] = "accepted" /\ use.as = i THEN [use EXCEPT !.backed = TRUE] ELSE use
    BY <1>3 DEF Id!FinishCanary, Id!Stamped
  <2>2. use \in [by : Callers, as : Identities, live : BOOLEAN, backed : BOOLEAN]
    BY DEF IdP!IInv, IdP!TypeOK, IdP!UseRecords
  <2> QED BY <2>1, <2>2
<1>4. ASSUME NEW now \in uses'
      PROVE  \E use \in uses : now.as = use.as /\ (use.backed => now.backed)
  <2>1. PICK use \in uses :
          now = IF canary[i][c] = "accepted" /\ use.as = i THEN [use EXCEPT !.backed = TRUE] ELSE use
    BY <1>4 DEF Id!FinishCanary, Id!Stamped
  <2>2. use \in [by : Callers, as : Identities, live : BOOLEAN, backed : BOOLEAN]
    BY DEF IdP!IInv, IdP!TypeOK, IdP!UseRecords
  <2> QED BY <2>1, <2>2
<1>5. canary[i][c] = "rejected" => liveness'[i] = "bad"
  BY <1>2 DEF Id!Learned
<1>6. \A j \in Identities : j # i => liveness'[j] = liveness[j]
  BY <1>2
<1> QED
  BY <1>1, <1>3, <1>4, <1>5, <1>6

LEMMA ClosedStep == ASSUME IInv, [Next]_vars PROVE ClosedIsCurrent'
<1> USE CallersAreApart DEF IInv, TypeOK
<1>1. CASE UNCHANGED <<phase, toProbe, closed, canary, liveness, uses>>
  BY <1>1 DEF ClosedIsCurrent
<1>2. ASSUME NEW u \in Units, UnitStep(u) PROVE ClosedIsCurrent'
  <2>1. UNCHANGED <<phase, closed>> /\ phase = "running"
    BY <1>2, UnitRuns, UnitMovesOn DEF UnitMoves, engine
  <2> QED BY <2>1 DEF ClosedIsCurrent
<1>3. CASE RoundOver \/ Rescore
  BY <1>3 DEF RoundOver, Rescore, ClosedIsCurrent, credentials
<1>4. CASE WorkOver
  BY <1>4 DEF WorkOver, ClosedIsCurrent
<1>5. ASSUME NEW i \in Identities, SendProbe(i) PROVE ClosedIsCurrent'
  <2>1. /\ i \in toProbe /\ toProbe' = toProbe \ {i} /\ UNCHANGED <<phase, closed, liveness, uses>>
        /\ \A j \in Identities : j # i => canary'[j][Main] = canary[j][Main]
    BY <1>5, CanaryMoves DEF SendProbe, Id!Probe, Id!SendCanary
  <2>2. i \notin closed
    BY <2>1 DEF ClosedIsCurrent
  <2> QED BY <2>1, <2>2 DEF ClosedIsCurrent
<1>6. ASSUME NEW i \in Identities, FinishProbe(i) PROVE ClosedIsCurrent'
  <2>1. /\ canary[i][Main] # "none" /\ canary'[i][Main] = "none"
        /\ \A j \in Identities : j # i => canary'[j][Main] = canary[j][Main]
        /\ UNCHANGED <<phase, toProbe>>
    BY <1>6, CanaryMoves DEF FinishProbe
  <2>2. i \notin toProbe /\ i \notin closed
    BY <2>1 DEF CanariesInPlace, ClosedIsCurrent
  <2>3. /\ closed' \subseteq closed \cup {i}
        /\ i \in closed' => phase = "closing" /\ canary[i][Main] # "lost"
    BY <1>6, <2>2 DEF FinishProbe
  <2>4. phase' \in {"opening", "running"} => closed' = {}
    BY <2>1, <2>3 DEF ClosedIsCurrent
  <2>5. ASSUME NEW j \in closed'
        PROVE  /\ j \notin toProbe' /\ canary'[j][Main] = "none"
               /\ liveness'[j] = "bad" \/ \A use \in uses' : use.as = j => use.backed
    <3>1. CASE j = i
      BY <1>6, <2>1, <2>2, <2>3, <2>5, <3>1, FinishMeaning DEF FinishProbe
    <3>2. CASE j # i
      <4>1. j \in closed /\ j \in Identities
        BY <2>3, <2>5, <3>2
      <4> QED BY <1>6, <2>1, <3>2, <4>1, FinishMeaning DEF FinishProbe, ClosedIsCurrent
    <3> QED BY <3>1, <3>2
  <2> QED BY <2>4, <2>5 DEF ClosedIsCurrent
<1>7. ASSUME NEW i \in Identities, CanaryAnswered(Main, i) PROVE ClosedIsCurrent'
  <2>1. /\ canary[i][Main] # "none" /\ UNCHANGED <<phase, toProbe, closed, liveness, uses>>
        /\ \A j \in Identities : j # i => canary'[j][Main] = canary[j][Main]
    BY <1>7, CanaryMoves DEF CanaryAnswered, Id!AnswerCanary, engine
  <2>2. i \notin closed
    BY <2>1 DEF ClosedIsCurrent
  <2> QED BY <2>1, <2>2 DEF ClosedIsCurrent
<1>8. CASE Cancel \/ Done \/ UNCHANGED vars \/ (\E f \in Fixtures : Delete(f))
            \/ \E i \in Identities : ExpireCredential(i)
  BY <1>1, <1>8 DEF Cancel, Done, vars, Delete, ExpireCredential, Id!Expire, credentials, engine
<1> QED
  BY <1>2, <1>3, <1>4, <1>5, <1>6, <1>7, <1>8 DEF Next, MainStep

\* Re-scoring withdraws whatever rests on a use that the closing canaries do not back.
LEMMA ConclusionStep == ASSUME IInv, [Next]_vars PROVE ConclusionsRestOnLiveCredentials'
<1> USE DEF IInv, TypeOK
<1>1. CASE phase' # "done"
  BY <1>1 DEF ConclusionsRestOnLiveCredentials
<1>2. CASE Rescore
  <2>1. ASSUME NEW u \in Units, Concluded(u)', NEW use \in uses, use.by = u
        PROVE  use.live \/ Unwatched(use.as)
    <3>1. ~ Withdrawn(u)
      BY <1>2, <2>1 DEF Rescore, Concluded, Executed
    <3>2. ~ Doubtful(use)
      BY <2>1, <3>1 DEF Withdrawn
    <3>3. use.as \in closed => use.backed
      BY <3>2 DEF Doubtful, ClosedIsCurrent
    <3> QED BY <3>3, CredentialTypes DEF Unwatched
  <2>2. UNCHANGED <<uses, closed, raced>>
    BY <1>2 DEF Rescore, credentials
  <2> QED BY <2>1, <2>2 DEF ConclusionsRestOnLiveCredentials, Unwatched
<1>3. CASE phase = "done"
  <2>1. \A i \in Identities, c \in Callers : canary[i][c] = "none"
    BY <1>3 DEF CanariesInPlace, UnitsMatchPhase, Callers
  <2>2. \A u \in Units : ~ UnitStep(u)
    BY <1>3, UnitRuns
  <2>3. \A i \in Identities : ~ Id!FinishCanary(Main, i) /\ ~ Id!AnswerCanary(Main, i)
    BY <2>1, CallersAreApart DEF Id!FinishCanary, Id!AnswerCanary
  <2>4. UNCHANGED <<uses, closed, raced, row, finding, phase>>
    <3>1. CASE UNCHANGED vars
      BY <3>1 DEF vars, credentials, engine, verdicts
    <3>2. CASE Next
      <4>1. ~ MainStep
        BY <1>3, <2>3 DEF MainStep, RoundOver, WorkOver, Rescore, SendProbe, FinishProbe, CanaryAnswered
      <4> QED BY <1>3, <2>2, <3>2, <4>1
              DEF Next, Cancel, Done, Delete, ExpireCredential, vars, credentials, engine, verdicts
    <3> QED BY <3>1, <3>2
  <2> QED BY <1>3, <2>4 DEF ConclusionsRestOnLiveCredentials, Concluded, Unwatched
<1>4. CASE phase # "done" /\ phase' = "done" /\ ~ Rescore
  <2>1. \A u \in Units : ~ UnitStep(u)
    BY <1>4, UnitRuns, UnitMovesOn DEF UnitMoves, engine
  <2> QED BY <1>4, <2>1 DEF Next, MainStep, RoundOver, WorkOver, SendProbe, FinishProbe,
            CanaryAnswered, Cancel, Done, Delete, ExpireCredential, vars, engine
<1> QED
  BY <1>1, <1>2, <1>3, <1>4

-----------------------------------------------------------------------------
(* The theorems.                                                           *)

LEMMA StepKeeps == IInv /\ [Next]_vars => IInv'
<1> SUFFICES ASSUME IInv, [Next]_vars PROVE IInv'
  OBVIOUS
<1>1. IdP!IInv'
  BY IdentityStep DEF IInv
<1> QED
  BY <1>1, TypeStep, PhaseStep, CanaryStep, PresenceStep, ClosedStep, ConclusionStep DEF IInv

\* The inductive invariant holds throughout.
THEOREM Invariance == Spec => []IInv
<1> QED BY Initially, StepKeeps, PTL DEF Spec

\* Every behaviour of the run is one of module Identity, stutters and fairness aside: a step
\* that touches a credential, a canary or the control log is one of that module's.
THEOREM IdentityIsRefined == Spec => IdP!Init /\ [][IdP!Next]_(IdP!vars)
<1>1. Init => IdP!Init
  BY DEF Init, Id!Init, IdP!Init
<1>2. [Next]_vars => [IdP!Next]_(IdP!vars)
  BY StepOfIdentity
<1> QED BY <1>1, <1>2, PTL DEF Spec

\* So what is proved of the identities there holds here: one canary at a time, and trusted
\* uses that were live.
THEOREM IdentityIsKept == Spec => [](Id!TypeOK /\ Id!OneCanaryAtATime /\ Id!BackedUseWasLive)
<1>1. IInv => Id!TypeOK /\ Id!OneCanaryAtATime /\ Id!BackedUseWasLive
  BY DEF IInv, TypeOK, IdP!IInv, IdP!OneCanaryAtATime, Id!OneCanaryAtATime, IdP!InFlight,
    Id!InFlight, IdP!BackedUseWasLive, Id!BackedUseWasLive
<1> QED BY <1>1, Invariance, PTL

\* Every variable of the read check keeps its type.
THEOREM TypeCorrect == Spec => []TypeOK
<1>1. IInv => TypeOK
  BY DEF IInv
<1> QED BY <1>1, Invariance, PTL

\* A boundary is said to have held only of a resource that was there to be refused, but for
\* a re-check that a cache answered.
THEOREM HeldOfWhatIsThere == Spec => []HeldMeansPresent
<1>1. IInv => HeldMeansPresent
  BY DEF IInv
<1> QED BY <1>1, Invariance, PTL

\* At the end each request a conclusion or a confirmed finding rests on was made with a
\* credential the target accepted, unless its death could not be seen.
THEOREM ConclusionsAreFounded == Spec => []ConclusionsRestOnLiveCredentials
<1>1. IInv => ConclusionsRestOnLiveCredentials
  BY DEF IInv
<1> QED BY <1>1, Invariance, PTL
=============================================================================
