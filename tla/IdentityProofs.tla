--------------------------- MODULE IdentityProofs ---------------------------
(***************************************************************************)
(* Theorems about Identity, for any identities and any number of           *)
(* goroutines.                                                             *)
(*                                                                         *)
(* That one canary is in flight rests on the flag being up while it is     *)
(* (FlagHeld). What a canary that has passed may still be believed for,    *)
(* when it is back, rests on what can have become of the credential        *)
(* meanwhile (PassedOrRaced) and on the uses made of a live credential     *)
(* being live (AcceptedUsesAreLive).                                       *)
(***************************************************************************)
EXTENDS Identity, TLAPS

USE IdentityAssumption

-----------------------------------------------------------------------------
(* The inductive invariant.                                                *)

\* Whoever waits for a canary holds the flag of its identity.
FlagHeld == \A i \in Identities : InFlight(i) # {} => probing[i]

\* A canary that passed did so with a live credential, which may have died since.
PassedOrRaced ==
  \A i \in Identities, c \in Callers :
    canary[i][c] = "accepted" => i \in accepted \cup raced

\* A credential is not accepted again, so while it is accepted every use of it was live.
AcceptedUsesAreLive == \A use \in uses : use.as \in accepted => use.live

IInv ==
  /\ TypeOK
  /\ FlagHeld
  /\ OneCanaryAtATime
  /\ PassedOrRaced
  /\ AcceptedUsesAreLive
  /\ BackedUseWasLive

LEMMA IInvInit == Init => IInv
BY DEF Init, IInv, TypeOK, FlagHeld, InFlight, OneCanaryAtATime, PassedOrRaced,
       AcceptedUsesAreLive, BackedUseWasLive, LivenessStates, CanaryStates

-----------------------------------------------------------------------------
(* Type correctness.                                                       *)

LEMMA CanaryType ==
  ASSUME TypeOK, NEW i \in Identities, NEW c \in Callers, NEW v \in CanaryStates
  PROVE  [canary EXCEPT ![i][c] = v] \in [Identities -> [Callers -> CanaryStates]]
BY DEF TypeOK

\* Stamping changes whether a use is backed, and only of the identity whose canary passed.
LEMMA StampedUses ==
  ASSUME TypeOK, NEW v \in CanaryStates, NEW i \in Identities, NEW stamped \in Stamped(v, i)
  PROVE  /\ stamped \in UseRecords
         /\ \/ stamped \in uses
            \/ /\ v = "accepted" /\ stamped.as = i
               /\ \E use \in uses : use.as = i /\ use.live = stamped.live
<1>1. PICK use \in uses :
        stamped = IF v = "accepted" /\ use.as = i THEN [use EXCEPT !.backed = TRUE] ELSE use
  BY DEF Stamped
<1>2. use \in UseRecords
  BY DEF TypeOK
<1>3. CASE v = "accepted" /\ use.as = i
  <2>1. stamped = [use EXCEPT !.backed = TRUE]
    BY <1>1, <1>3
  <2> QED BY <1>2, <1>3, <2>1 DEF UseRecords
<1>4. CASE ~(v = "accepted" /\ use.as = i)
  BY <1>1, <1>2, <1>4
<1> QED BY <1>3, <1>4

LEMMA LearnedType ==
  ASSUME NEW v \in {"accepted", "rejected", "lost"}, NEW known
  PROVE  Learned(v, known) \in LivenessStates
BY DEF Learned, LivenessStates

LEMMA TypeStep == TypeOK /\ [Next]_vars => TypeOK'
<1> SUFFICES ASSUME TypeOK, [Next]_vars PROVE TypeOK'
  OBVIOUS
<1>1. CASE UNCHANGED vars
  BY <1>1 DEF vars, TypeOK
<1>2. ASSUME NEW i \in Identities, Expire(i) PROVE TypeOK'
  BY <1>2 DEF Expire, TypeOK
<1>3. ASSUME NEW i \in Identities, NEW c \in Callers, Use(c, i) PROVE TypeOK'
  <2>1. [by |-> c, as |-> i, live |-> i \in accepted, backed |-> FALSE] \in UseRecords
    BY DEF UseRecords
  <2> QED BY <1>3, <2>1 DEF Use, TypeOK
<1>4. ASSUME NEW i \in Identities, NEW c \in Callers, SendCanary(c, i) PROVE TypeOK'
  <2>1. "sent" \in CanaryStates
    BY DEF CanaryStates
  <2>2. canary' \in [Identities -> [Callers -> CanaryStates]]
    BY <1>4, <2>1, CanaryType DEF SendCanary
  <2> QED BY <1>4, <2>2 DEF SendCanary, TypeOK
<1>5. ASSUME NEW i \in Identities, NEW c \in Callers, AnswerCanary(c, i) PROVE TypeOK'
  <2>1. Verdicts(i) \subseteq CanaryStates
    BY DEF Verdicts, CanaryStates
  <2>2. canary' \in [Identities -> [Callers -> CanaryStates]]
    BY <1>5, <2>1, CanaryType DEF AnswerCanary
  <2> QED BY <1>5, <2>2 DEF AnswerCanary, TypeOK
<1>6. ASSUME NEW i \in Identities, NEW c \in Callers, FinishCanary(c, i) PROVE TypeOK'
  <2>1. canary[i][c] \in {"accepted", "rejected", "lost"}
    BY <1>6 DEF FinishCanary
  <2>2. liveness' \in [Identities -> LivenessStates]
    BY <1>6, <2>1, LearnedType DEF FinishCanary, TypeOK
  <2>3. uses' \in SUBSET UseRecords
    BY <1>6, <2>1, StampedUses DEF FinishCanary, CanaryStates
  <2>4. "none" \in CanaryStates
    BY DEF CanaryStates
  <2>5. canary' \in [Identities -> [Callers -> CanaryStates]]
    BY <1>6, <2>4, CanaryType DEF FinishCanary
  <2>6. probing' \in [Identities -> BOOLEAN]
    BY <1>6 DEF FinishCanary, ProbingAfter, TypeOK
  <2> QED BY <1>6, <2>2, <2>3, <2>5, <2>6 DEF FinishCanary, TypeOK
<1> QED
  BY <1>1, <1>2, <1>3, <1>4, <1>5, <1>6 DEF Next, Probe, NoteSuspicious

-----------------------------------------------------------------------------
(* One canary.                                                             *)

LEMMA CanaryStep ==
  TypeOK /\ FlagHeld /\ OneCanaryAtATime /\ [Next]_vars => FlagHeld' /\ OneCanaryAtATime'
<1> SUFFICES ASSUME TypeOK, FlagHeld, OneCanaryAtATime, [Next]_vars
             PROVE  FlagHeld' /\ OneCanaryAtATime'
  OBVIOUS
<1>1. CASE UNCHANGED <<canary, probing>>
  <2>1. \A i \in Identities : InFlight(i)' = InFlight(i)
    BY <1>1 DEF InFlight
  <2> QED BY <1>1, <2>1 DEF FlagHeld, OneCanaryAtATime
<1>2. ASSUME NEW i \in Identities, NEW c \in Callers, MayProbe(i), SendCanary(c, i)
      PROVE  FlagHeld' /\ OneCanaryAtATime'
  <2>1. InFlight(i) = {}
    BY <1>2 DEF MayProbe, FlagHeld
  <2>2. InFlight(i)' \subseteq {c}
    <3>1. \A d \in Callers : canary[i][d] = "none"
      BY <2>1 DEF InFlight
    <3>2. \A d \in Callers : d # c => canary'[i][d] = "none"
      BY <1>2, <3>1 DEF SendCanary, TypeOK
    <3> QED BY <3>2 DEF InFlight
  <2>3. probing'[i]
    BY <1>2 DEF SendCanary, TypeOK
  <2>4. \A j \in Identities : j # i => InFlight(j)' = InFlight(j) /\ probing'[j] = probing[j]
    BY <1>2 DEF SendCanary, TypeOK, InFlight
  <2> QED BY <2>2, <2>3, <2>4 DEF FlagHeld, OneCanaryAtATime
<1>3. ASSUME NEW i \in Identities, NEW c \in Callers, AnswerCanary(c, i)
      PROVE  FlagHeld' /\ OneCanaryAtATime'
  <2>1. Verdicts(i) \cap {"none"} = {} /\ canary[i][c] # "none"
    BY <1>3 DEF Verdicts, AnswerCanary
  <2>2. \A j \in Identities : InFlight(j)' = InFlight(j)
    BY <1>3, <2>1 DEF AnswerCanary, TypeOK, InFlight
  <2> QED BY <1>3, <2>2 DEF AnswerCanary, FlagHeld, OneCanaryAtATime
<1>4. ASSUME NEW i \in Identities, NEW c \in Callers, FinishCanary(c, i)
      PROVE  FlagHeld' /\ OneCanaryAtATime'
  <2>1. c \in InFlight(i)
    BY <1>4 DEF FinishCanary, InFlight
  <2>2. \A d \in Callers : d # c => canary[i][d] = "none"
    BY <2>1 DEF OneCanaryAtATime, InFlight
  <2>3. \A d \in Callers : canary'[i][d] = "none"
    BY <1>4, <2>2 DEF FinishCanary, TypeOK
  <2>4. InFlight(i)' = {}
    BY <2>3 DEF InFlight
  <2>5. \A j \in Identities : j # i => InFlight(j)' = InFlight(j) /\ probing'[j] = probing[j]
    BY <1>4 DEF FinishCanary, TypeOK, InFlight
  <2> QED BY <2>4, <2>5 DEF FlagHeld, OneCanaryAtATime
<1>5. ASSUME NEW i \in Identities, Expire(i) PROVE UNCHANGED <<canary, probing>>
  BY <1>5 DEF Expire
<1>6. ASSUME NEW i \in Identities, NEW c \in Callers, Use(c, i)
      PROVE  UNCHANGED <<canary, probing>>
  BY <1>6 DEF Use
<1> QED
  BY <1>1, <1>2, <1>3, <1>4, <1>5, <1>6 DEF Next, vars, Probe, NoteSuspicious, MaySuspect

-----------------------------------------------------------------------------
(* What the control log is worth.                                          *)

LEMMA TrustStep ==
  IInv /\ [Next]_vars => PassedOrRaced' /\ AcceptedUsesAreLive' /\ BackedUseWasLive'
<1> SUFFICES ASSUME IInv, [Next]_vars
             PROVE  PassedOrRaced' /\ AcceptedUsesAreLive' /\ BackedUseWasLive'
  OBVIOUS
<1> USE DEF IInv
<1>1. CASE UNCHANGED vars
  BY <1>1 DEF vars, PassedOrRaced, AcceptedUsesAreLive, BackedUseWasLive
<1>2. ASSUME NEW i \in Identities, Expire(i)
      PROVE  PassedOrRaced' /\ AcceptedUsesAreLive' /\ BackedUseWasLive'
  BY <1>2 DEF Expire, PassedOrRaced, AcceptedUsesAreLive, BackedUseWasLive
<1>3. ASSUME NEW i \in Identities, NEW c \in Callers, Use(c, i)
      PROVE  PassedOrRaced' /\ AcceptedUsesAreLive' /\ BackedUseWasLive'
  <2>1. PassedOrRaced'
    BY <1>3 DEF Use, PassedOrRaced
  <2>2. \A use \in uses' :
          use \in uses \/ (use.as = i /\ use.live = (i \in accepted) /\ use.backed = FALSE)
    BY <1>3 DEF Use
  <2>3. accepted' = accepted /\ raced' = raced
    BY <1>3 DEF Use
  <2> QED BY <2>1, <2>2, <2>3 DEF AcceptedUsesAreLive, BackedUseWasLive
<1>4. ASSUME NEW i \in Identities, NEW c \in Callers, SendCanary(c, i)
      PROVE  PassedOrRaced' /\ AcceptedUsesAreLive' /\ BackedUseWasLive'
  BY <1>4 DEF SendCanary, TypeOK, PassedOrRaced, AcceptedUsesAreLive, BackedUseWasLive
<1>5. ASSUME NEW i \in Identities, NEW c \in Callers, AnswerCanary(c, i)
      PROVE  PassedOrRaced' /\ AcceptedUsesAreLive' /\ BackedUseWasLive'
  BY <1>5 DEF AnswerCanary, Verdicts, TypeOK, PassedOrRaced, AcceptedUsesAreLive,
              BackedUseWasLive
<1>6. ASSUME NEW i \in Identities, NEW c \in Callers, FinishCanary(c, i)
      PROVE  PassedOrRaced' /\ AcceptedUsesAreLive' /\ BackedUseWasLive'
  <2>1. canary[i][c] \in CanaryStates /\ accepted' = accepted /\ raced' = raced
    BY <1>6 DEF FinishCanary, TypeOK
  <2>2. PassedOrRaced'
    BY <1>6 DEF FinishCanary, TypeOK, PassedOrRaced
  <2>3. ASSUME NEW stamped \in uses'
        PROVE  /\ stamped.as \in accepted => stamped.live
               /\ stamped.backed => stamped.live \/ stamped.as \in raced
    <3>1. \/ stamped \in uses
          \/ /\ canary[i][c] = "accepted" /\ stamped.as = i
             /\ \E use \in uses : use.as = i /\ use.live = stamped.live
      BY <1>6, <2>1, <2>3, StampedUses DEF FinishCanary
    <3>2. CASE stamped \in uses
      BY <3>2 DEF AcceptedUsesAreLive, BackedUseWasLive
    <3>3. CASE /\ canary[i][c] = "accepted" /\ stamped.as = i
               /\ \E use \in uses : use.as = i /\ use.live = stamped.live
      <4>1. i \in accepted \cup raced
        BY <3>3 DEF PassedOrRaced
      <4>2. i \in accepted => stamped.live
        BY <3>3 DEF AcceptedUsesAreLive
      <4> QED BY <3>3, <4>1, <4>2
    <3> QED BY <3>1, <3>2, <3>3
  <2> QED BY <2>1, <2>2, <2>3 DEF AcceptedUsesAreLive, BackedUseWasLive
<1> QED
  BY <1>1, <1>2, <1>3, <1>4, <1>5, <1>6 DEF Next, Probe, NoteSuspicious

LEMMA IInvStep == IInv /\ [Next]_vars => IInv'
BY TypeStep, CanaryStep, TrustStep DEF IInv

LEMMA IInvIsInvariant == Spec => []IInv
BY IInvInit, IInvStep, PTL DEF Spec

\* Only a canary that passed makes an identity good that was not.
LEMMA GoodIsEarned ==
  IInv /\ [Next]_vars =>
    \A i \in Identities :
      liveness'[i] = "good" /\ liveness[i] # "good" => i \in accepted \cup raced
<1> SUFFICES ASSUME IInv, [Next]_vars, NEW i \in Identities,
                    liveness'[i] = "good", liveness[i] # "good"
             PROVE  i \in accepted \cup raced
  OBVIOUS
<1>1. PICK j \in Identities, c \in Callers : FinishCanary(c, j)
  BY DEF Next, vars, Expire, Use, Probe, NoteSuspicious, SendCanary, AnswerCanary
<1>2. liveness' = [liveness EXCEPT ![j] = Learned(canary[j][c], liveness[j])]
  BY <1>1 DEF FinishCanary
<1>3. j = i
  BY <1>2 DEF IInv, TypeOK
<1>4. Learned(canary[i][c], liveness[i]) = "good"
  BY <1>2, <1>3 DEF IInv, TypeOK
<1>5. canary[i][c] = "accepted"
  BY <1>1, <1>3, <1>4 DEF FinishCanary, Learned
<1> QED BY <1>5 DEF IInv, PassedOrRaced

-----------------------------------------------------------------------------
(* The theorems.                                                           *)

\* The controls and the control log keep their types, whoever probes and whatever becomes
\* of the canaries (Control.probe).
THEOREM TypeCorrect == Spec => []TypeOK
<1>1. IInv => TypeOK
  BY DEF IInv
<1> QED BY <1>1, IInvIsInvariant, PTL

\* However many goroutines share a control, its mutex and its flag admit one canary.
THEOREM OneCanary == Spec => []OneCanaryAtATime
<1>1. IInv => OneCanaryAtATime
  BY DEF IInv
<1> QED BY <1>1, IInvIsInvariant, PTL

\* A use the engine trusts was made with an accepted credential, whatever expired when, but
\* for a credential that died behind a canary that had passed (Control.Status, lastGood).
THEOREM TrustIsEarned == Spec => []BackedUseWasLive
<1>1. IInv => BackedUseWasLive
  BY DEF IInv
<1> QED BY <1>1, IInvIsInvariant, PTL

\* No order of canaries turns an identity good whose credential is dead, but for that race.
THEOREM TheDeadStayDead == Spec => DeadNeverTurnsGood
BY GoodIsEarned, IInvIsInvariant, PTL DEF Spec, DeadNeverTurnsGood
=============================================================================
