--------------------------- MODULE CrossOwnerRead ---------------------------
(***************************************************************************)
(* internal/check/crossowner.go in the run that carries it: the cross-owner*)
(* read (owner control, non-owner probe, owner re-check) run by concurrent *)
(* units, the canaries engine.Run sends before and after them, and the     *)
(* withdrawal of what rested on a credential found dead.                   *)
(*                                                                         *)
(* Meanwhile credentials expire, other actors delete resources, requests   *)
(* are lost, caches replay the owner's answer and the context is cancelled.*)
(* The identities are those of module Identity: a step of this module that *)
(* touches one is a step of that module.                                   *)
(*                                                                         *)
(* A response is abstracted to what outcome.Classify and the comparisons   *)
(* make of it. The order of dispatch, slots and ledger belong to Engine.   *)
(***************************************************************************)
CONSTANTS
  Units,        \* cross-owner read units
  Fixtures,
  FixtureOf,    \* the fixture of each unit; also the ledger key it is re-scored by
  OwnerOf,      \* the identity that owns each fixture
  NonOwnerOf,   \* the identity each unit asks as
  Shared,       \* the fixtures whose crossOwnerAccess is allowed
  Cached,       \* the fixtures whose owner's answer an intermediary may replay
  Interruptible,\* whether the context may be cancelled
  Identities, Monitored, Unresolved,
  Main          \* the goroutine that called engine.Run

ASSUME CrossOwnerAssumption ==
  /\ FixtureOf \in [Units -> Fixtures]
  /\ OwnerOf \in [Fixtures -> Identities]
  /\ NonOwnerOf \in [Units -> Identities]
  /\ \A u \in Units : NonOwnerOf[u] # OwnerOf[FixtureOf[u]]
  /\ Shared \subseteq Fixtures
  /\ Cached \subseteq Fixtures
  /\ Interruptible \in BOOLEAN
  /\ Monitored \subseteq Identities
  /\ Unresolved \subseteq Identities
  /\ Main \notin Units

VARIABLES
  accepted, liveness, probing, canary, uses, raced,  \* of Identity
  present,    \* the fixtures whose resource exists
  cancelled,  \* ctx.Err() # nil
  phase,      \* where engine.Run is
  toProbe,    \* the identities the current round of canaries has yet to reach
  closed,     \* observation only: the identities whose closing canary was answered
  step,       \* where each unit is
  answer,     \* what the non-owner's request came back as
  row,        \* each unit's ledger row: a disposition and its meaning, or a cause
  finding,    \* each unit's finding
  truth       \* observation only: whether the resource existed when the target answered
              \* the non-owner, and whether a cache answered the re-check

credentials == <<accepted, liveness, probing, canary, uses, raced>>
engine == <<phase, toProbe, closed>>
verdicts == <<row, finding>>
vars == <<credentials, present, cancelled, engine, step, answer, verdicts, truth>>

Callers == Units \cup {Main}
Id == INSTANCE Identity

Owner(u) == OwnerOf[FixtureOf[u]]

\* "resource": what the comparisons take for the owner's own (module Evidence has
\* them). "other": a success they cannot tie to it, another record for one.
\* "cached": a success with a cache-hit header. "refused": 401, 403. "missing":
\* 404. "unclear": rate limited, a server error, unclassifiable. "lost": none.
Answers == {"resource", "other", "cached", "refused", "missing", "unclear", "lost"}

\* transportCause. (NoCause: the fault of its zero value reaching a blocked row.)
NoCause == ""
TransportCause == "transport_error"

\* Rows that are executed, then the causes of those that are blocked.
Executed == {"held", "shared", "exposed"}
BlockedCauses ==
  {"missing_identity", "authentication_failed", "missing_resource", "indeterminate", "transport_error"}

Steps == {"waiting", "ownerControl", "suspicion", "canary", "probe", "recheck", "returned"}

Init ==
  /\ Id!Init
  /\ present = Fixtures
  /\ cancelled = FALSE
  /\ phase = "opening"
  /\ toProbe = Identities
  /\ closed = {}
  /\ step = [u \in Units |-> "waiting"]
  /\ answer = [u \in Units |-> "lost"]
  /\ row = [u \in Units |-> "none"]
  /\ finding = [u \in Units |-> "none"]
  /\ truth = [u \in Units |-> [present |-> FALSE, replayed |-> FALSE]]

-----------------------------------------------------------------------------
(* The world.                                                              *)

ExpireCredential(i) ==
  /\ phase # "done"
  /\ Id!Expire(i)
  /\ UNCHANGED <<present, cancelled, engine, step, answer, verdicts, truth>>

\* Another actor deletes the resource. Its identifier is not used again.
Delete(f) ==
  /\ phase # "done"
  /\ f \in present
  /\ present' = present \ {f}
  /\ UNCHANGED <<credentials, cancelled, engine, step, answer, verdicts, truth>>

Cancel ==
  /\ Interruptible
  /\ ~cancelled
  /\ phase # "done"
  /\ cancelled' = TRUE
  /\ UNCHANGED <<credentials, present, engine, step, answer, verdicts, truth>>

\* What a GET of a fixture as an identity may come back as. How the application
\* treats a non-owner is what is being tested: it may do anything.
ApplicationAnswers(i, f) ==
  IF i \notin accepted THEN {"refused"}
  ELSE IF f \notin present THEN {"missing"}
  ELSE IF i = OwnerOf[f] THEN {"resource"}
  ELSE {"resource", "other", "refused", "missing"}

MayAnswer(i, f) ==
  IF cancelled THEN {"lost"}
  ELSE ApplicationAnswers(i, f) \cup {"unclear", "lost"} \cup {a \in {"cached"} : f \in Cached}

\* outcome.Classify says allowed.
Allowed == {"resource", "other", "cached"}

-----------------------------------------------------------------------------
(* A unit: the worker of module Engine, and RunResource.                   *)

Goto(u, from, to) ==
  /\ step[u] = from
  /\ step' = [step EXCEPT ![u] = to]

Return(u, from, verdict) ==
  /\ Goto(u, from, "returned")
  /\ row' = [row EXCEPT ![u] = verdict]

\* The fixture's lock is held from the start of a unit to its return.
FixtureLocked(f) == \E v \in Units : FixtureOf[v] = f /\ step[v] \notin {"waiting", "returned"}

\* identitiesUsable, the owner first.
GateCause(u) ==
  LET blocking == {i \in {Owner(u), NonOwnerOf[u]} : ~Id!Usable(i)}
      first == IF Owner(u) \in blocking THEN Owner(u) ELSE NonOwnerOf[u]
  IN IF blocking = {} THEN "none"
     ELSE IF first \in Unresolved THEN "missing_identity" ELSE "authentication_failed"

Start(u) ==
  /\ phase = "running"
  /\ step[u] = "waiting"
  /\ ~FixtureLocked(FixtureOf[u])
  /\ IF GateCause(u) = "none"
     THEN Goto(u, "waiting", "ownerControl") /\ UNCHANGED row
     ELSE Return(u, "waiting", GateCause(u))
  /\ UNCHANGED <<credentials, present, cancelled, engine, answer, finding, truth>>

\* Step 1, the owner control. The use is recorded whatever comes back.
OwnerControl(u) ==
  /\ Id!Use(u, Owner(u))
  /\ \E a \in MayAnswer(Owner(u), FixtureOf[u]) :
       CASE a = "lost" -> Return(u, "ownerControl", TransportCause)
         [] a = "cached" -> Return(u, "ownerControl", "indeterminate")
         [] a = "resource" -> Goto(u, "ownerControl", "probe") /\ UNCHANGED row
         [] OTHER -> Goto(u, "ownerControl", "suspicion") /\ UNCHANGED row
  /\ UNCHANGED <<present, cancelled, engine, answer, finding, truth>>

\* NoteSuspicious(owner), which returns at once or after a canary.
Suspect(u) ==
  /\ \/ /\ Id!NoteSuspicious(u, Owner(u))
        /\ Goto(u, "suspicion", "canary")
        /\ UNCHANGED row
     \/ /\ ~Id!MaySuspect(Owner(u))
        /\ Return(u, "suspicion", "missing_resource")
        /\ UNCHANGED credentials
  /\ UNCHANGED <<present, cancelled, engine, answer, finding, truth>>

\* A canary of either kind is handled by the target, or lost: with a cancelled
\* context it is lost.
CanaryAnswered(c, i) ==
  /\ Id!AnswerCanary(c, i)
  /\ cancelled => canary'[i][c] = "lost"
  /\ UNCHANGED <<present, cancelled, engine, step, answer, verdicts, truth>>

SuspicionOver(u) ==
  /\ Id!FinishCanary(u, Owner(u))
  /\ Return(u, "canary", "missing_resource")
  /\ UNCHANGED <<present, cancelled, engine, answer, finding, truth>>

\* Step 2, the same request as the non-owner.
NonOwnerProbe(u) ==
  LET f == FixtureOf[u] IN
  /\ Id!Use(u, NonOwnerOf[u])
  /\ \E a \in MayAnswer(NonOwnerOf[u], f) :
       /\ answer' = [answer EXCEPT ![u] = a]
       /\ truth' = [truth EXCEPT ![u].present = f \in present]
       /\ IF a = "lost" THEN Return(u, "probe", TransportCause)
                        ELSE Goto(u, "probe", "recheck") /\ UNCHANGED row
  /\ UNCHANGED <<present, cancelled, engine, finding>>

\* Step 3, the owner again: what it takes for the answer to mean something. A
\* cache hit is not looked for here. (NoRecheck: the fault of not looking at all.)
NoRecheck(a) == a # "lost"
StillReadable(a) == a \in Allowed

\* eq.Equivalent, ev.Proven and no cache hit.
OwnersResource(u) == answer[u] = "resource"

Verdict(u) ==
  IF FixtureOf[u] \in Shared THEN "shared"
  ELSE CASE answer[u] \in {"refused", "missing"} -> "held"
         [] answer[u] = "unclear" -> "indeterminate"
         [] OTHER -> "exposed"

\* judgeUnauthorizedRead
FindingOf(u) ==
  IF Verdict(u) # "exposed" THEN "none"
  ELSE IF OwnersResource(u) THEN "confirmed" ELSE "suspected"

OwnerRecheck(u) ==
  /\ Id!Use(u, Owner(u))
  /\ \E a \in MayAnswer(Owner(u), FixtureOf[u]) :
       /\ truth' = [truth EXCEPT ![u].replayed = (a = "cached")]
       /\ CASE a = "lost" -> Return(u, "recheck", TransportCause) /\ UNCHANGED finding
            [] a # "lost" /\ ~StillReadable(a) ->
                 Return(u, "recheck", "missing_resource") /\ UNCHANGED finding
            [] OTHER ->
                 /\ Return(u, "recheck", Verdict(u))
                 /\ finding' = [finding EXCEPT ![u] = FindingOf(u)]
  /\ UNCHANGED <<present, cancelled, engine, answer>>

\* A unit the dispatch loop had not reached when the context was cancelled.
GiveUp(u) ==
  /\ phase = "running"
  /\ cancelled
  /\ Return(u, "waiting", "cancelled")
  /\ UNCHANGED <<credentials, present, cancelled, engine, answer, finding, truth>>

UnitStep(u) ==
  \/ Start(u) \/ GiveUp(u) \/ OwnerControl(u) \/ Suspect(u) \/ SuspicionOver(u)
  \/ NonOwnerProbe(u) \/ OwnerRecheck(u)
  \/ \E i \in Identities : CanaryAnswered(u, i)

-----------------------------------------------------------------------------
(* engine.Run around the units.                                            *)

\* probeIdentities, one identity after the other.
SendProbe(i) ==
  /\ phase \in {"opening", "closing"}
  /\ i \in toProbe
  /\ ~cancelled
  /\ Id!Probe(Main, i)
  /\ toProbe' = toProbe \ {i}
  /\ UNCHANGED <<present, cancelled, phase, closed, step, answer, verdicts, truth>>

FinishProbe(i) ==
  /\ Id!FinishCanary(Main, i)
  /\ closed' = IF phase = "closing" /\ canary[i][Main] # "lost" THEN closed \cup {i} ELSE closed
  /\ UNCHANGED <<present, cancelled, phase, toProbe, step, answer, verdicts, truth>>

\* The identities a round does anything for; the others return at once.
Probed == Monitored \ Unresolved

RoundOver ==
  /\ phase \in {"opening", "closing"}
  /\ Id!Idle(Main)
  /\ cancelled \/ toProbe \cap Probed = {}
  /\ phase' = IF phase = "opening" THEN "running" ELSE "rescoring"
  /\ UNCHANGED <<credentials, present, cancelled, toProbe, closed, step, answer, verdicts, truth>>

\* wg.Wait()
WorkOver ==
  /\ phase = "running"
  /\ \A u \in Units : step[u] = "returned"
  /\ phase' = "closing"
  /\ toProbe' = Identities
  /\ UNCHANGED <<credentials, present, cancelled, closed, step, answer, verdicts, truth>>

\* Status.UncertaintyWindow: the uses it casts doubt on. (OwnersOnly: the fault of
\* a check that reports its control and forgets its probe.)
OwnersOnly(use) == liveness[use.as] = "bad" /\ ~use.backed /\ use.as = Owner(use.by)
Doubtful(use) == liveness[use.as] = "bad" /\ ~use.backed

\* invalidateExpiredControls, by the key a unit shares with its fixture's others.
Withdrawn(u) == \E use \in uses : use.by \in Units /\ Doubtful(use)
                                /\ FixtureOf[use.by] = FixtureOf[u]

Rescore ==
  /\ phase = "rescoring"
  /\ row' = [u \in Units |-> IF Withdrawn(u) THEN "authentication_failed" ELSE row[u]]
  /\ finding' = [u \in Units |-> IF Withdrawn(u) /\ finding[u] = "confirmed" THEN "suspected"
                                                                            ELSE finding[u]]
  /\ phase' = "done"
  /\ UNCHANGED <<credentials, present, cancelled, toProbe, closed, step, answer, truth>>

MainStep ==
  \/ RoundOver \/ WorkOver \/ Rescore
  \/ \E i \in Identities : SendProbe(i) \/ FinishProbe(i) \/ CanaryAnswered(Main, i)

Done == phase = "done" /\ UNCHANGED vars

Next ==
  \/ MainStep
  \/ \E u \in Units : UnitStep(u)
  \/ \E i \in Identities : ExpireCredential(i)
  \/ \E f \in Fixtures : Delete(f)
  \/ Cancel
  \/ Done

\* Every step but Done uses something up, so a run that never deadlocks ends.
Spec == Init /\ [][Next]_vars

-----------------------------------------------------------------------------
TypeOK ==
  /\ Id!TypeOK
  /\ present \in SUBSET Fixtures
  /\ cancelled \in BOOLEAN
  /\ phase \in {"opening", "running", "closing", "rescoring", "done"}
  /\ toProbe \in SUBSET Identities
  /\ closed \in SUBSET Identities
  /\ step \in [Units -> Steps]
  /\ answer \in [Units -> Answers]
  /\ row \in [Units -> {"none", "cancelled"} \cup Executed \cup BlockedCauses]
  /\ finding \in [Units -> {"none", "suspected", "confirmed"}]
  /\ truth \in [Units -> [present : BOOLEAN, replayed : BOOLEAN]]

\* "Without this, a resource deleted between step 1 and step 2 makes the
\* non-owner's 404 look like an enforced boundary": a boundary is said to have
\* held only of a resource that was there to be refused. A re-check answered by
\* a cache shows nothing, and is the exception.
HeldMeansPresent ==
  \A u \in Units : row[u] = "held" => truth[u].present \/ truth[u].replayed

\* How an identity's death can go unseen: no canary is configured, the closing
\* canary was not sent or not answered, or the race of module Identity.
Unwatched(i) == i \notin Monitored \/ i \notin closed \/ i \in raced

\* A dead non-owner never reads as an enforced boundary, nor a dead owner as a
\* missing resource, nor a dead pair as an exposure: at the end each request that
\* a conclusion or a confirmed finding rests on was made with a credential the
\* target accepted, unless its death could not be seen.
Concluded(u) == row[u] \in Executed \cup {"missing_resource"} \/ finding[u] = "confirmed"

ConclusionsRestOnLiveCredentials ==
  phase = "done" =>
    \A u \in Units : Concluded(u) =>
      \A use \in uses : use.by = u => use.live \/ Unwatched(use.as)
=============================================================================
