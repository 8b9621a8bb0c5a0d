------------------------------ MODULE Identity ------------------------------
(***************************************************************************)
(* internal/identity: what is known of a credential while a target that    *)
(* may stop accepting it is being assessed by several goroutines.          *)
(*                                                                         *)
(* A Control sends requests as an identity. It learns whether the target   *)
(* still accepts the credential from canaries only: Probe is called before *)
(* and after the work, NoteSuspicious by a goroutine whose own request     *)
(* came out wrong. A canary is a round trip: the target decides at one     *)
(* moment (AnswerCanary) and the Control learns of it at a later one       *)
(* (FinishCanary), with anything in between.                               *)
(*                                                                         *)
(* Times are abstracted to the one comparison made of them: a use is       *)
(* `backed` when its time is not after lastGood, so a canary that stamps   *)
(* lastGood backs every use recorded so far. A request is handled by the   *)
(* target and timed in one step: reading the clock later could only make   *)
(* the use look more recent, hence less trusted. firstBad is left out: it  *)
(* is set whenever liveness is "bad", and otherwise unread.                *)
(***************************************************************************)
CONSTANTS
  Identities,
  Monitored,    \* the identities with a liveness canary configured
  Unresolved,   \* the identities whose credential could not be resolved
  Callers       \* the goroutines that hold the controls

ASSUME IdentityAssumption ==
  /\ Monitored \subseteq Identities
  /\ Unresolved \subseteq Identities

LivenessStates == {"unknown", "good", "bad"}

\* No canary, one the target has not handled, and the three ways one can end.
CanaryStates == {"none", "sent", "accepted", "rejected", "lost"}

\* engine.controlUse, with what the target took the credential for.
UseRecords == [by : Callers, as : Identities, live : BOOLEAN, backed : BOOLEAN]

VARIABLES
  accepted,  \* the identities whose credential the target accepts
  liveness,  \* Control.state
  probing,   \* Control.probing
  canary,    \* the canary each caller has in flight for each identity
  uses,      \* the control log
  raced      \* observation only: the identities whose credential died while a
             \* canary that had passed was on its way back

vars == <<accepted, liveness, probing, canary, uses, raced>>

Init ==
  /\ accepted = Identities \ Unresolved
  /\ liveness = [i \in Identities |-> "unknown"]
  /\ probing = [i \in Identities |-> FALSE]
  /\ canary = [i \in Identities |-> [c \in Callers |-> "none"]]
  /\ uses = {}
  /\ raced = {}

\* Control.Usable
Usable(i) == i \notin Unresolved /\ liveness[i] # "bad"

\* Calls are synchronous: a caller waiting for a canary does nothing else.
Idle(c) == \A i \in Identities : canary[i][c] = "none"

\* The credential expires or is revoked. It is not accepted again.
Expire(i) ==
  /\ i \in accepted
  /\ accepted' = accepted \ {i}
  /\ raced' = IF \E c \in Callers : canary[i][c] = "accepted" THEN raced \cup {i} ELSE raced
  /\ UNCHANGED <<liveness, probing, canary, uses>>

\* DoWithBody, and the ControlUse its caller appends whatever came of it. Whether
\* the identity is Usable was asked earlier, and may no longer be true.
Use(c, i) ==
  /\ Idle(c)
  /\ i \notin Unresolved
  /\ uses' = uses \cup {[by |-> c, as |-> i, live |-> i \in accepted, backed |-> FALSE]}
  /\ UNCHANGED <<accepted, liveness, probing, canary, raced>>

\* The tests under the lock. (ProbeAlways: the fault of a burst of suspicious
\* responses sending a canary each.)
ProbeAlways(i) == i \in Monitored
MayProbe(i) == i \in Monitored /\ ~probing[i]
MaySuspect(i) == MayProbe(i) /\ liveness[i] # "bad"

\* The flag is set and the canary sent. A credential that was never resolved
\* sends nothing, and leaves no trace.
SendCanary(c, i) ==
  /\ Idle(c)
  /\ i \notin Unresolved
  /\ probing' = [probing EXCEPT ![i] = TRUE]
  /\ canary' = [canary EXCEPT ![i][c] = "sent"]
  /\ UNCHANGED <<accepted, liveness, uses, raced>>

Probe(c, i) == MayProbe(i) /\ SendCanary(c, i)

NoteSuspicious(c, i) == MaySuspect(i) /\ SendCanary(c, i)

\* The target's verdict. It rejects a dead credential; it may answer a live one
\* with a status the canary does not expect (a 503, say) and it may not answer.
Verdicts(i) == {"rejected", "lost"} \cup (IF i \in accepted THEN {"accepted"} ELSE {})

AnswerCanary(c, i) ==
  /\ canary[i][c] = "sent"
  /\ \E v \in Verdicts(i) : canary' = [canary EXCEPT ![i][c] = v]
  /\ UNCHANGED <<accepted, liveness, probing, uses, raced>>

\* What probe makes of a verdict. (LostIsGood: the fault of "no news is good news";
\* LostIsUnset: that of a case which leaves the state's zero value.)
LostIsUnset(v, known) == IF v = "rejected" THEN "bad" ELSE IF v = "accepted" THEN "good" ELSE ""
LostIsGood(v, known) == IF v = "rejected" THEN "bad" ELSE "good"
Learned(v, known) ==
  CASE v = "accepted" -> "good"
    [] v = "rejected" -> "bad"
    [] v = "lost"     -> IF known = "good" THEN "good" ELSE "unknown"

\* lastGood = time.Now(). (StampedAnyway: the fault of stamping outside the case.)
StampedAnyway(v, i) == {IF use.as = i THEN [use EXCEPT !.backed = TRUE] ELSE use : use \in uses}
Stamped(v, i) ==
  {IF v = "accepted" /\ use.as = i THEN [use EXCEPT !.backed = TRUE] ELSE use : use \in uses}

\* The deferred reset of the flag. (StillProbing: the fault of leaving it set.)
StillProbing(i) == TRUE
ProbingAfter(i) == FALSE

FinishCanary(c, i) ==
  /\ canary[i][c] \in {"accepted", "rejected", "lost"}
  /\ liveness' = [liveness EXCEPT ![i] = Learned(canary[i][c], liveness[i])]
  /\ uses' = Stamped(canary[i][c], i)
  /\ canary' = [canary EXCEPT ![i][c] = "none"]
  /\ probing' = [probing EXCEPT ![i] = ProbingAfter(i)]
  /\ UNCHANGED <<accepted, raced>>

Next ==
  \E i \in Identities :
    \/ Expire(i)
    \/ \E c \in Callers :
         \/ Use(c, i) \/ Probe(c, i) \/ NoteSuspicious(c, i)
         \/ AnswerCanary(c, i) \/ FinishCanary(c, i)

\* The client's timeout ends a canary the target does not answer, and its
\* goroutine is scheduled. Nothing is owed otherwise: nobody need probe.
Fairness ==
  \A i \in Identities, c \in Callers : WF_vars(AnswerCanary(c, i) \/ FinishCanary(c, i))

Spec == Init /\ [][Next]_vars /\ Fairness

-----------------------------------------------------------------------------
TypeOK ==
  /\ accepted \in SUBSET Identities
  /\ liveness \in [Identities -> LivenessStates]
  /\ probing \in [Identities -> BOOLEAN]
  /\ canary \in [Identities -> [Callers -> CanaryStates]]
  /\ uses \in SUBSET UseRecords
  /\ raced \in SUBSET Identities

InFlight(i) == {c \in Callers : canary[i][c] # "none"}

\* However many goroutines find an identity suspicious at once, and whatever the
\* engine probes meanwhile, one canary of it is in flight.
OneCanaryAtATime == \A i \in Identities : \A c, d \in InFlight(i) : c = d

\* What the engine trusts: a use at or before the last good canary was made with a
\* credential the target accepted. The exception is the one race the design
\* leaves open, a credential that dies behind a canary that has passed.
BackedUseWasLive == \A use \in uses : use.backed => use.live \/ use.as \in raced

\* The same with no exception, as Status.UncertaintyWindow documents it.
BackedUseIsConfirmed == \A use \in uses : use.backed => use.live

\* A dead credential is never found good again, whatever canaries are lost,
\* misanswered or skipped, but for the canary of that race.
DeadNeverTurnsGood ==
  [][\A i \in Identities :
       liveness'[i] = "good" /\ liveness[i] # "good" => i \in accepted \cup raced]_vars

\* The flag that admits one canary is given back: no identity goes unwatched for
\* the rest of a run because an earlier canary was lost.
ProbingEnds == \A i \in Identities : probing[i] ~> ~probing[i]

\* probeIdentities: a transport failure leaves the previous knowledge intact.
LostCanaryTeachesNothing ==
  [][\A i \in Identities, c \in Callers :
       canary[i][c] = "lost" /\ canary'[i][c] = "none" => liveness'[i] = liveness[i]]_vars
=============================================================================
