---------------------------- MODULE ChecksProofs ----------------------------
(***************************************************************************)
(* Theorems about Checks, for every instance of its parts.                 *)
(*                                                                         *)
(* Planning: any surface, configuration and bound. The properties speak of *)
(* a finished plan. PlanInv says what holds while the loops run: how far   *)
(* they have come (CursorInRange, Visiting), that what they have passed is *)
(* accounted for and what they have not is untouched (OperationsSoFar,     *)
(* BoundariesSoFar, FixturesSoFar).                                        *)
(*                                                                         *)
(* AuthRequired: any way of answering unknown paths and any length of the  *)
(* resource. The verdict speaks of the answers that led to it; CheckInv    *)
(* says which answers there are when a request is about to be made (Asked),*)
(* what each can be (Answered), and what let the check go on (WentOn).     *)
(*                                                                         *)
(* Classification: any responses and any mapping, by the arms of the three *)
(* readings and the order they are asked in.                               *)
(*                                                                         *)
(* Evidence: any documents, bounds and questions, keys in any order. A     *)
(* walk is shown to record all of a document by what is left of it: each   *)
(* leaf is recorded or lies below something on the stack (Covered), each   *)
(* frame holds nodes of one level under the path it names (Framed). So a   *)
(* walk that ends well holds what the document holds, one that does not    *)
(* has passed a bound (Walked), and a verdict follows from the documents.  *)
(***************************************************************************)
EXTENDS Checks, FiniteSetTheorems, SequenceTheorems, WellFoundedInduction, TLAPS

-----------------------------------------------------------------------------
(*                                 Planning                                *)
-----------------------------------------------------------------------------
USE PlanningAssumption

-----------------------------------------------------------------------------
(* The first readable operation of a path.                                 *)

LEMMA MinimalIsLeast ==
  ASSUME NEW S, S \subseteq Nat, NEW R,
         \A m, n \in Nat : m < n => <<m, n>> \in R,
         \E n \in S : \A m \in S : <<m, n>> \notin R
  PROVE  \E n \in S : \A m \in S : n <= m
<1>1. PICK n \in S : \A m \in S : <<m, n>> \notin R
  OBVIOUS
<1>2. ASSUME NEW m \in S PROVE n <= m
  <2>1. m \in Nat /\ n \in Nat
    OBVIOUS
  <2>2. ~(m < n)
    BY <1>1, <2>1
  <2> QED BY <2>1, <2>2
<1> QED BY <1>1, <1>2

\* A set of numbers that is not empty has a least one.
LEMMA LeastNumber ==
  ASSUME NEW S, S \subseteq Nat, S # {}
  PROVE  \E n \in S : \A m \in S : n <= m
<1>1. \E n \in S : \A m \in S : <<m, n>> \notin OpToRel(<, Nat)
  BY NatLessThanWellFounded, WFMin, Zenon
<1>2. \A m, n \in Nat : m < n => <<m, n>> \in OpToRel(<, Nat)
  BY DEF OpToRel
<1> QED BY <1>1, <1>2, MinimalIsLeast, Zenon

\* The read a write is observed by, if there is one, is a readable operation of its path.
LEMMA ReadOperationReads ==
  ASSUME NEW o \in Ops, ReadOperation(o) # None
  PROVE  ReadOperation(o) \in Readers(o)
<1>1. Readers(o) # {}
  BY DEF ReadOperation
<1>2. Readers(o) \subseteq Nat
  BY DEF Readers, Ops
<1>3. \E r \in Readers(o) : \A s \in Readers(o) : r <= s
  BY <1>1, <1>2, LeastNumber
<1> QED BY <1>1, <1>3 DEF ReadOperation

-----------------------------------------------------------------------------
(* Rows.                                                                   *)

\* What is refused has one row.
LEMMA AtMostOne ==
  ASSUME NEW T, NEW s \in Seq(T), Len(s) <= 1
  PROVE  Len(s) = (IF s = <<>> THEN 0 ELSE 1)
<1>1. Len(s) \in Nat
  BY LenProperties
<1>2. Len(s) = 0 <=> s = <<>>
  BY EmptySeq
<1> QED BY <1>1, <1>2

LEMMA RowsAdd ==
  ASSUME NEW T, NEW s \in Seq(T), NEW t \in Seq(T)
  PROVE  Len(s \o t) = Len(s) + Len(t)
BY ConcatProperties

-----------------------------------------------------------------------------
(* Type correctness.                                                       *)

LEMMA RowsAreTyped ==
  /\ \A c \in {"safety_policy", "no_oracle", "missing_resource", "missing_identity"} :
       Untested(c) \in Row /\ Blocked(c) \in Row
  /\ \A o : JobRefusal(o) \in Seq(Row) /\ Len(JobRefusal(o)) <= 1
  /\ \A f, o : PairRefusal(f, o) \in Seq(Row) /\ Len(PairRefusal(f, o)) <= 1
  /\ Unaddressed \in Seq(Row)
<1>1. \A c \in {"safety_policy", "no_oracle", "missing_resource", "missing_identity"} :
        Untested(c) \in Row /\ Blocked(c) \in Row
  BY DEF Untested, Blocked, Row
<1>2. \A o : Inapplicable(o) \in Seq(Row) /\ Len(Inapplicable(o)) <= 1
  BY <1>1 DEF Inapplicable
<1>3. \A o : JobRefusal(o) \in Seq(Row) /\ Len(JobRefusal(o)) <= 1
  BY <1>1, <1>2 DEF JobRefusal
<1>4. \A f, o : WriteRefusal(f, o) \in Seq(Row) /\ Len(WriteRefusal(f, o)) <= 1
  BY <1>1 DEF WriteRefusal
<1>5. \A f, o : PairRefusal(f, o) \in Seq(Row) /\ Len(PairRefusal(f, o)) <= 1
  BY <1>1, <1>4 DEF PairRefusal
<1> QED BY <1>1, <1>3, <1>5 DEF Unaddressed

LEMMA UnitIsTyped ==
  ASSUME NEW f \in Fixtures, NEW o \in Ops, NEW a \in Identities
  PROVE  Unit(f, o, a) \in Units
<1>1. ReadOperation(o) \in Ops \cup {None}
  BY ReadOperationReads DEF Readers
<1> QED BY <1>1 DEF Unit, Units

\* Where the loops are: cursors are positive, a fixture being visited has an owner and
\* somebody to probe it with, and non-owners left to plan are for an operation the fixture
\* fits.
CursorInRange == op >= 1 /\ fx >= 1
Visiting ==
  /\ phase = "jobs" => fx = 1
  /\ phase = "done" => fx \notin Fixtures
  /\ phase \in {"operations", "pairs"} =>
       fx \in Fixtures /\ input.owner[fx] \in Identities /\ NonOwners(fx) # {}
  /\ phase = "pairs" =>
       /\ op \in Ops
       /\ AppliesTo(fx, op) /\ Binds(fx, op)
       /\ left \subseteq NonOwners(fx)
       /\ addressable

LEMMA TypeInit == Init => TypeOK /\ CursorInRange /\ Visiting
<1> SUFFICES ASSUME Init PROVE TypeOK /\ CursorInRange /\ Visiting
  OBVIOUS
<1>1. opRows \in [Ops -> Seq(Row)] /\ pairRows \in [Pairs -> Seq(Row)]
  BY DEF Init
<1>2. fixtureRows \in [Fixtures -> [Ops \cup {None} -> Seq(Row)]]
  BY DEF Init
<1>3. op \in Nat /\ fx \in Nat /\ capped \in Nat
  BY DEF Init
<1>4. CursorInRange /\ Visiting
  BY DEF Init, CursorInRange, Visiting
<1> QED BY <1>1, <1>2, <1>3, <1>4 DEF Init, TypeOK

LEMMA CursorsCount == TypeOK => op + 1 \in Nat /\ fx + 1 \in Nat
BY DEF TypeOK

LEMMA FixtureRowsType ==
  ASSUME TypeOK, NEW f \in Fixtures, NEW o \in Ops \cup {None},
         NEW row \in Row, NEW s \in Seq(Row)
  PROVE  /\ [fixtureRows EXCEPT ![f][o] = Append(@, row)]
              \in [Fixtures -> [Ops \cup {None} -> Seq(Row)]]
         /\ [fixtureRows EXCEPT ![f][o] = @ \o s]
              \in [Fixtures -> [Ops \cup {None} -> Seq(Row)]]
<1>1. fixtureRows \in [Fixtures -> [Ops \cup {None} -> Seq(Row)]]
  BY DEF TypeOK
<1>2. fixtureRows[f] \in [Ops \cup {None} -> Seq(Row)] /\ fixtureRows[f][o] \in Seq(Row)
  BY <1>1
<1>3. Append(fixtureRows[f][o], row) \in Seq(Row) /\ fixtureRows[f][o] \o s \in Seq(Row)
  BY <1>2
<1> QED BY <1>1, <1>2, <1>3

LEMMA SkipFixtureType ==
  ASSUME TypeOK, fx \in Fixtures, NEW row \in Row, SkipFixture(row)
  PROVE  TypeOK'
<1>1. fixtureRows' \in [Fixtures -> [Ops \cup {None} -> Seq(Row)]]
  BY FixtureRowsType, RowsAreTyped DEF SkipFixture
<1> QED BY <1>1, CursorsCount DEF SkipFixture, TypeOK

LEMMA TypeStep == TypeOK /\ Visiting /\ [Next]_vars => TypeOK'
<1> SUFFICES ASSUME TypeOK, Visiting, [Next]_vars PROVE TypeOK'
  OBVIOUS
<1>1. CASE PlanJob
  <2>1. opRows' \in [Ops -> Seq(Row)]
    BY <1>1, RowsAreTyped DEF PlanJob, TypeOK
  <2> QED BY <1>1, <2>1, CursorsCount DEF PlanJob, TypeOK
<1>2. CASE EndJobs
  BY <1>2 DEF EndJobs, TypeOK
<1>3. CASE UnknownOwner
  BY <1>3, RowsAreTyped, SkipFixtureType DEF UnknownOwner
<1>4. CASE NobodyToProbeWith
  BY <1>4, RowsAreTyped, SkipFixtureType DEF NobodyToProbeWith
<1>5. CASE StartFixture
  BY <1>5 DEF StartFixture, TypeOK
<1>6. CASE SkipOperation
  BY <1>6, CursorsCount DEF SkipOperation, TypeOK
<1>7. CASE CannotBind
  <2>1. fx \in Fixtures
    BY <1>7 DEF CannotBind, Visiting
  <2>2. fixtureRows' \in [Fixtures -> [Ops \cup {None} -> Seq(Row)]]
    <3>1. Blocked("missing_resource") \in Row /\ <<>> \in Seq(Row)
      BY RowsAreTyped
    <3>2. op \in Ops \cup {None} /\ fixtureRows \in [Fixtures -> [Ops \cup {None} -> Seq(Row)]]
      BY <1>7 DEF CannotBind, TypeOK
    <3> QED BY <1>7, <2>1, <3>1, <3>2, FixtureRowsType DEF CannotBind
  <2> QED BY <1>7, <2>2, CursorsCount DEF CannotBind, TypeOK
<1>8. CASE StartPairs
  <2>1. NonOwners(fx) \subseteq Identities
    BY DEF NonOwners
  <2> QED BY <1>8, <2>1 DEF StartPairs, TypeOK
<1>9. ASSUME NEW a \in Identities, PlanPair(a) PROVE TypeOK'
  <2>1. fx \in Fixtures /\ op \in Ops /\ <<fx, op, a>> \in Pairs
    BY <1>9 DEF PlanPair, Visiting, Pairs
  <2>2. PairRefusal(fx, op) \in Seq(Row) /\ Untested("safety_policy") \in Row
    BY RowsAreTyped
  <2>3. pairRows' \in [Pairs -> Seq(Row)]
    <3>1. pairRows \in [Pairs -> Seq(Row)] /\ pairRows[<<fx, op, a>>] \in Seq(Row)
      BY <2>1 DEF TypeOK
    <3>2. /\ pairRows[<<fx, op, a>>] \o PairRefusal(fx, op) \in Seq(Row)
          /\ Append(pairRows[<<fx, op, a>>], Untested("safety_policy")) \in Seq(Row)
      BY <2>2, <3>1
    <3> QED BY <1>9, <2>1, <3>1, <3>2 DEF PlanPair
  <2>4. units' \in SUBSET Units /\ capped' \in Nat
    BY <1>9, <2>1, UnitIsTyped DEF PlanPair, TypeOK
  <2> QED BY <1>9, <2>3, <2>4 DEF PlanPair, TypeOK
<1>10. CASE EndPairs
  BY <1>10, CursorsCount DEF EndPairs, TypeOK
<1>11. CASE EndFixture
  <2>1. fx \in Fixtures
    BY <1>11 DEF EndFixture, Visiting
  <2>2. fixtureRows' \in [Fixtures -> [Ops \cup {None} -> Seq(Row)]]
    <3>1. Unaddressed \in Seq(Row) /\ Untested("no_oracle") \in Row
      BY RowsAreTyped
    <3> QED BY <1>11, <2>1, <3>1, FixtureRowsType DEF EndFixture
  <2> QED BY <1>11, <2>2, CursorsCount DEF EndFixture, TypeOK
<1>12. CASE EndPlanning
  BY <1>12 DEF EndPlanning, TypeOK
<1>13. CASE UNCHANGED vars
  BY <1>13 DEF vars, TypeOK
<1> QED
  BY <1>1, <1>2, <1>3, <1>4, <1>5, <1>6, <1>7, <1>8, <1>9, <1>10, <1>11, <1>12, <1>13 DEF Next

\* What the operations and fixtures are to each other does not change.
LEMMA InputIsFixed ==
  ASSUME [Next]_vars
  PROVE  /\ input' = input
         /\ \A f : NonOwners(f)' = NonOwners(f)
         /\ \A f, o : AppliesTo(f, o)' = AppliesTo(f, o)
         /\ \A f, o : Binds(f, o)' = Binds(f, o)
<1>1. input' = input
  BY DEF Next, vars, PlanJob, EndJobs, UnknownOwner, NobodyToProbeWith, SkipFixture, StartFixture,
         SkipOperation, CannotBind, StartPairs, PlanPair, EndPairs, EndFixture, EndPlanning
<1> QED BY <1>1 DEF NonOwners, AppliesTo, Addresses, Fills, Binds

LEMMA CursorStep ==
  TypeOK /\ CursorInRange /\ Visiting /\ [Next]_vars => CursorInRange' /\ Visiting'
<1> SUFFICES ASSUME TypeOK, CursorInRange, Visiting, [Next]_vars
             PROVE  CursorInRange' /\ Visiting'
  OBVIOUS
<1> USE InputIsFixed DEF CursorInRange
<1>0. op \in Nat /\ fx \in Nat
  BY DEF TypeOK
<1>1. CASE PlanJob
  BY <1>0, <1>1 DEF PlanJob, Visiting
<1>2. CASE EndJobs
  BY <1>0, <1>2 DEF EndJobs, Visiting
<1>3. CASE UnknownOwner
  BY <1>0, <1>3 DEF UnknownOwner, SkipFixture, Visiting
<1>4. CASE NobodyToProbeWith
  BY <1>0, <1>4 DEF NobodyToProbeWith, SkipFixture, Visiting
<1>5. CASE StartFixture
  BY <1>0, <1>5 DEF StartFixture, Visiting
<1>6. CASE SkipOperation
  BY <1>0, <1>6 DEF SkipOperation, Visiting
<1>7. CASE CannotBind
  BY <1>0, <1>7 DEF CannotBind, Visiting
<1>8. CASE StartPairs
  BY <1>0, <1>8 DEF StartPairs, Visiting
<1>9. ASSUME NEW a \in Identities, PlanPair(a) PROVE CursorInRange' /\ Visiting'
  BY <1>0, <1>9 DEF PlanPair, Visiting
<1>10. CASE EndPairs
  BY <1>0, <1>10 DEF EndPairs, Visiting
<1>11. CASE EndFixture
  BY <1>0, <1>11 DEF EndFixture, Visiting
<1>12. CASE EndPlanning
  BY <1>0, <1>12 DEF EndPlanning, Visiting
<1>13. CASE UNCHANGED vars
  BY <1>0, <1>13 DEF vars, Visiting
<1> QED
  BY <1>1, <1>2, <1>3, <1>4, <1>5, <1>6, <1>7, <1>8, <1>9, <1>10, <1>11, <1>12, <1>13 DEF Next

-----------------------------------------------------------------------------
(* The bound, and what the operator allowed.                               *)

\* A unit of the plan is within what UnitsArePermitted allows.
LEMMA PlannedPairIsPermitted ==
  ASSUME TypeOK, Visiting, NEW a \in Identities, PlanPair(a), PairRefusal(fx, op) = <<>>,
         NEW u, u = Unit(fx, op, a)
  PROVE  /\ u.op \notin input.excluded
         /\ IsSafe(u.op) => input.profile # "discovery"
         /\ ~IsSafe(u.op) => /\ input.profile = "intrusive"
                             /\ u.fixture \in input.mutation
                             /\ u.readOp \in Ops
                             /\ input.method[u.readOp] = "GET"
                             /\ input.path[u.readOp] = input.path[u.op]
         /\ u.attacker # input.owner[u.fixture]
         /\ input.params[u.op] # {} /\ Fills(u.fixture, u.op)
<1>1. /\ op \in Ops /\ a \in NonOwners(fx) /\ AppliesTo(fx, op)
  BY DEF PlanPair, Visiting
<1>2. /\ u.op = op /\ u.fixture = fx /\ u.attacker = a
      /\ u.readOp = IF IsSafe(op) THEN None ELSE ReadOperation(op)
  BY DEF Unit
<1>3. /\ op \notin input.excluded
      /\ Permitted(op)
      /\ ~IsSafe(op) => WriteRefusal(fx, op) = <<>>
  BY DEF PairRefusal
<1>4. a # input.owner[fx]
  BY <1>1 DEF NonOwners
<1>5. input.params[op] # {} /\ Fills(fx, op)
  BY <1>1 DEF AppliesTo, Addresses
<1>6. ASSUME ~IsSafe(op)
      PROVE  /\ input.profile = "intrusive"
             /\ fx \in input.mutation
             /\ ReadOperation(op) \in Ops
             /\ input.method[ReadOperation(op)] = "GET"
             /\ input.path[ReadOperation(op)] = input.path[op]
  <2>1. fx \in input.mutation /\ ReadOperation(op) # None
    BY <1>3, <1>6 DEF WriteRefusal
  <2>2. ReadOperation(op) \in Readers(op)
    BY <1>1, <2>1, ReadOperationReads
  <2> QED BY <1>3, <1>6, <2>1, <2>2 DEF Permitted, Readers
<1>7. IsSafe(op) => input.profile # "discovery"
  BY <1>3 DEF Permitted
<1> QED BY <1>2, <1>3, <1>4, <1>5, <1>6, <1>7

PlanIsPermitted == JobsArePermitted /\ UnitsArePermitted

LEMMA BoundsInit == Init => UnitsBounded /\ PlanIsPermitted /\ IsFiniteSet(units)
<1> SUFFICES ASSUME Init PROVE UnitsBounded /\ PlanIsPermitted /\ IsFiniteSet(units)
  OBVIOUS
<1>1. IsFiniteSet(units) /\ Cardinality(units) = 0
  BY FS_EmptySet DEF Init
<1> QED BY <1>1
  DEF Init, UnitsBounded, PlanIsPermitted, JobsArePermitted, UnitsArePermitted

LEMMA BoundsStep ==
  TypeOK /\ Visiting /\ UnitsBounded /\ IsFiniteSet(units) /\ [Next]_vars
    => UnitsBounded' /\ IsFiniteSet(units)'
<1> SUFFICES ASSUME TypeOK, Visiting, UnitsBounded, IsFiniteSet(units), [Next]_vars
             PROVE  UnitsBounded' /\ IsFiniteSet(units)'
  OBVIOUS
<1>1. ASSUME NEW a \in Identities, PlanPair(a)
      PROVE  UnitsBounded' /\ IsFiniteSet(units)'
  <2>0. Cardinality(units) \in Nat /\ capped \in Nat
    BY FS_CardinalityType DEF TypeOK
  <2>1. CASE Full /\ UNCHANGED units
    BY <1>1, <2>0, <2>1 DEF PlanPair, UnitsBounded, Full
  <2>2. CASE UNCHANGED <<units, capped>>
    BY <2>2 DEF UnitsBounded
  <2>3. CASE ~Full /\ units' = units \cup {Unit(fx, op, a)} /\ UNCHANGED capped
    <3>1. IsFiniteSet(units') /\ Cardinality(units') <= Cardinality(units) + 1
      <4> DEFINE u == Unit(fx, op, a)
      <4> HIDE DEF u
      <4>1. /\ IsFiniteSet(units \cup {u})
            /\ Cardinality(units \cup {u})
                 = IF u \in units THEN Cardinality(units) ELSE Cardinality(units) + 1
        BY FS_AddElement
      <4>2. units' = units \cup {u}
        BY <2>3 DEF u
      <4> QED BY <2>0, <4>1, <4>2
    <3>2. Cardinality(units') \in Nat
      BY <3>1, FS_CardinalityType
    <3>3. Cardinality(units) < MaxUnits /\ capped = 0
      BY <2>0, <2>3 DEF Full, UnitsBounded
    <3> QED BY <2>0, <2>3, <3>1, <3>2, <3>3 DEF UnitsBounded
  <2> QED BY <1>1, <2>1, <2>2, <2>3 DEF PlanPair
<1>2. CASE UNCHANGED <<units, capped>>
  BY <1>2 DEF UnitsBounded
<1> QED
  BY <1>1, <1>2 DEF Next, vars, PlanJob, EndJobs, UnknownOwner, NobodyToProbeWith, SkipFixture,
    StartFixture, SkipOperation, CannotBind, StartPairs, EndPairs, EndFixture, EndPlanning

LEMMA PermissionStep ==
  TypeOK /\ Visiting /\ PlanIsPermitted /\ [Next]_vars => PlanIsPermitted'
<1> SUFFICES ASSUME TypeOK, Visiting, PlanIsPermitted, [Next]_vars PROVE PlanIsPermitted'
  OBVIOUS
<1>0. input' = input
  BY InputIsFixed
<1>1. CASE PlanJob
  <2>1. ASSUME NEW o \in jobs'
        PROVE  /\ o \notin input.excluded
               /\ input.excludeAuth => o \notin input.authLike
               /\ Permitted(o)
               /\ input.security[o] = "required"
    <3>1. CASE o \in jobs
      BY <3>1 DEF PlanIsPermitted, JobsArePermitted
    <3>2. CASE o \notin jobs
      <4>1. o = op /\ JobRefusal(op) = <<>>
        BY <1>1, <2>1, <3>2 DEF PlanJob
      <4>2. Permitted(op) /\ ~Skipped(op) /\ Inapplicable(op) = <<>>
        BY <4>1 DEF JobRefusal
      <4> QED BY <4>1, <4>2 DEF Skipped, Inapplicable
    <3> QED BY <3>1, <3>2
  <2>2. units' = units
    BY <1>1 DEF PlanJob
  <2> QED BY <1>0, <2>1, <2>2
    DEF PlanIsPermitted, JobsArePermitted, UnitsArePermitted, Permitted, IsSafe, Fills
<1>2. ASSUME NEW a \in Identities, PlanPair(a) PROVE PlanIsPermitted'
  <2>1. jobs' = jobs
    BY <1>2 DEF PlanPair
  <2>2. CASE UNCHANGED units
    BY <1>0, <2>1, <2>2
      DEF PlanIsPermitted, JobsArePermitted, UnitsArePermitted, Permitted, IsSafe, Fills
  <2>3. CASE PairRefusal(fx, op) = <<>> /\ units' = units \cup {Unit(fx, op, a)}
    BY <1>0, <1>2, <2>1, <2>3, PlannedPairIsPermitted
      DEF PlanIsPermitted, JobsArePermitted, UnitsArePermitted, Permitted, IsSafe, Fills
  <2> QED BY <1>2, <2>2, <2>3 DEF PlanPair
<1>3. CASE UNCHANGED <<jobs, units>>
  BY <1>0, <1>3
    DEF PlanIsPermitted, JobsArePermitted, UnitsArePermitted, Permitted, IsSafe, Fills
<1> QED
  BY <1>1, <1>2, <1>3 DEF Next, vars, EndJobs, UnknownOwner, NobodyToProbeWith, SkipFixture,
    StartFixture, SkipOperation, CannotBind, StartPairs, EndPairs, EndFixture, EndPlanning

-----------------------------------------------------------------------------
(* Operations.                                                             *)

\* The operations passed have their one row or their place in the plan, the others neither.
OperationsSoFar ==
  \A o \in Ops :
    IF phase = "jobs" /\ o >= op
      THEN o \notin jobs /\ Len(opRows[o]) = 0
      ELSE Len(opRows[o]) = (IF o \in jobs THEN 0 ELSE 1)

LEMMA OperationsStep ==
  TypeOK /\ CursorInRange /\ OperationsSoFar /\ [Next]_vars => OperationsSoFar'
<1> SUFFICES ASSUME TypeOK, CursorInRange, OperationsSoFar, [Next]_vars
             PROVE  OperationsSoFar'
  OBVIOUS
<1>0. op \in Nat /\ op >= 1 /\ NOps \in Nat
  BY DEF TypeOK, CursorInRange
<1>1. CASE PlanJob
  <2>1. op \in Ops /\ phase = "jobs" /\ phase' = "jobs" /\ op' = op + 1
    BY <1>1 DEF PlanJob
  <2>2. /\ opRows[op] \in Seq(Row) /\ JobRefusal(op) \in Seq(Row)
        /\ Len(opRows[op]) = 0 /\ op \notin jobs
    BY <1>0, <2>1, RowsAreTyped DEF TypeOK, OperationsSoFar
  <2>3. Len(opRows[op] \o JobRefusal(op)) = (IF JobRefusal(op) = <<>> THEN 0 ELSE 1)
    <3>1. Len(opRows[op] \o JobRefusal(op)) = Len(opRows[op]) + Len(JobRefusal(op))
      BY <2>2, RowsAdd
    <3>2. Len(JobRefusal(op)) = (IF JobRefusal(op) = <<>> THEN 0 ELSE 1)
      BY <2>2, RowsAreTyped, AtMostOne
    <3> QED BY <2>2, <3>1, <3>2
  <2>4. opRows' = [opRows EXCEPT ![op] = opRows[op] \o JobRefusal(op)]
    BY <1>1 DEF PlanJob
  <2>5. opRows'[op] = opRows[op] \o JobRefusal(op)
    BY <2>1, <2>4 DEF TypeOK
  <2>6. op \in jobs' <=> JobRefusal(op) = <<>>
    BY <1>1, <2>2 DEF PlanJob
  <2>7. ASSUME NEW o \in Ops, o # op
        PROVE  opRows'[o] = opRows[o] /\ (o \in jobs' <=> o \in jobs)
    BY <1>1, <2>4, <2>7 DEF PlanJob, TypeOK
  <2>8. ASSUME NEW o \in Ops
        PROVE IF o >= op' THEN o \notin jobs' /\ Len(opRows'[o]) = 0
                          ELSE Len(opRows'[o]) = (IF o \in jobs' THEN 0 ELSE 1)
    <3>1. o \in Nat
      BY DEF Ops
    <3>2. CASE o = op
      BY <1>0, <2>1, <2>3, <2>5, <2>6, <3>2
    <3>3. CASE o # op
      BY <1>0, <2>1, <2>7, <3>1, <3>3 DEF OperationsSoFar
    <3> QED BY <3>2, <3>3
  <2> QED BY <2>1, <2>8 DEF OperationsSoFar
<1>2. CASE EndJobs
  <2>1. \A o \in Ops : ~(o >= op)
    BY <1>0, <1>2 DEF EndJobs, Ops
  <2> QED BY <1>2, <2>1 DEF EndJobs, OperationsSoFar
<1>3. CASE phase # "jobs" /\ phase' # "jobs" /\ UNCHANGED <<jobs, opRows>>
  BY <1>3 DEF OperationsSoFar
<1>4. CASE UNCHANGED vars
  BY <1>4 DEF vars, OperationsSoFar
<1>5. ASSUME NEW a \in Identities, PlanPair(a)
      PROVE  phase # "jobs" /\ phase' # "jobs" /\ UNCHANGED <<jobs, opRows>>
  BY <1>5 DEF PlanPair
<1> QED
  BY <1>1, <1>2, <1>3, <1>4, <1>5 DEF Next, UnknownOwner, NobodyToProbeWith, SkipFixture,
    StartFixture, SkipOperation, CannotBind, StartPairs, EndPairs, EndFixture, EndPlanning

-----------------------------------------------------------------------------
(* Boundaries.                                                             *)

\* What the loops over fixtures, operations and non-owners have passed.
Passed(f, o, a) ==
  /\ phase # "jobs"
  /\ \/ f < fx
     \/ /\ f = fx /\ phase \in {"operations", "pairs"}
        /\ \/ o < op
           \/ o = op /\ phase = "pairs" /\ a \notin left

UnitsOf(f, o, a) == {u \in units : u.fixture = f /\ u.op = o /\ u.attacker = a}

BoundariesSoFar ==
  \A f \in Fixtures, o \in Ops, a \in Identities :
    Accounts(f, o, a) = (IF <<f, o, a>> \in Boundaries /\ Passed(f, o, a) THEN 1 ELSE 0)

LEMMA BoundariesAreFixed == [Next]_vars => Boundaries' = Boundaries
BY InputIsFixed DEF Boundaries

LEMMA BoundaryIs ==
  \A f \in Fixtures, o \in Ops, a \in Identities :
    <<f, o, a>> \in Boundaries <=>
      /\ input.owner[f] \in Identities /\ a \in NonOwners(f)
      /\ AppliesTo(f, o) /\ Binds(f, o)
BY DEF Boundaries, Pairs

\* A step that plans nothing keeps the accounts, so it may only pass what is no boundary.
LEMMA PassingStep ==
  ASSUME BoundariesSoFar, [Next]_vars, UNCHANGED <<units, pairRows>>,
         \A f \in Fixtures, o \in Ops, a \in Identities :
           <<f, o, a>> \in Boundaries => (Passed(f, o, a)' <=> Passed(f, o, a))
  PROVE  BoundariesSoFar'
<1>1. \A f, o, a : Accounts(f, o, a)' = Accounts(f, o, a)
  BY DEF Accounts
<1> QED BY <1>1, BoundariesAreFixed DEF BoundariesSoFar

\* A row added to one boundary is in the accounts of no other.
LEMMA RowStepAccounts ==
  ASSUME UNCHANGED units, NEW f0 \in Fixtures, NEW o0 \in Ops, NEW b \in Identities,
         Len(pairRows'[<<f0, o0, b>>]) = 1,
         Cardinality(UnitsOf(f0, o0, b)) = 0,
         \A q \in Pairs : q # <<f0, o0, b>> => pairRows'[q] = pairRows[q]
  PROVE  /\ Accounts(f0, o0, b)' = 1
         /\ \A f \in Fixtures, o \in Ops, a \in Identities :
              <<f, o, a>> # <<f0, o0, b>> => Accounts(f, o, a)' = Accounts(f, o, a)
<1>1. \A f, o, a : UnitsOf(f, o, a)' = UnitsOf(f, o, a)
  BY DEF UnitsOf
<1>2. Accounts(f0, o0, b)' = 1
  BY <1>1 DEF Accounts, UnitsOf
<1>3. ASSUME NEW f \in Fixtures, NEW o \in Ops, NEW a \in Identities,
             <<f, o, a>> # <<f0, o0, b>>
      PROVE  Accounts(f, o, a)' = Accounts(f, o, a)
  <2>1. <<f, o, a>> \in Pairs
    BY DEF Pairs
  <2>2. pairRows'[<<f, o, a>>] = pairRows[<<f, o, a>>]
    BY <1>3, <2>1
  <2> QED BY <2>2 DEF Accounts
<1> QED BY <1>2, <1>3

\* What PlanPair does to the accounts of its own boundary and of every other.
LEMMA PlanPairAccounts ==
  ASSUME TypeOK, Visiting, IsFiniteSet(units), NEW b \in Identities, PlanPair(b),
         NEW f0 \in Fixtures, NEW o0 \in Ops, f0 = fx, o0 = op,
         Accounts(f0, o0, b) = 0
  PROVE  /\ Accounts(f0, o0, b)' = 1
         /\ \A f \in Fixtures, o \in Ops, a \in Identities :
              <<f, o, a>> # <<f0, o0, b>> => Accounts(f, o, a)' = Accounts(f, o, a)
<1> DEFINE p == <<f0, o0, b>>
<1>1. p \in Pairs
  BY DEF Pairs
<1>2. pairRows \in [Pairs -> Seq(Row)] /\ pairRows[p] \in Seq(Row) /\ Len(pairRows[p]) \in Nat
  BY <1>1 DEF TypeOK
<1>3. IsFiniteSet(UnitsOf(f0, o0, b)) /\ Cardinality(UnitsOf(f0, o0, b)) \in Nat
  BY FS_Subset, FS_CardinalityType DEF UnitsOf
<1>4. Len(pairRows[p]) = 0 /\ Cardinality(UnitsOf(f0, o0, b)) = 0
  BY <1>2, <1>3 DEF Accounts, UnitsOf
<1>5. CASE /\ PairRefusal(f0, o0) # <<>> /\ UNCHANGED units
           /\ pairRows' = [pairRows EXCEPT ![p] = pairRows[p] \o PairRefusal(f0, o0)]
  <2>1. Len(pairRows'[p]) = 1
    <3>1. PairRefusal(f0, o0) \in Seq(Row) /\ Len(PairRefusal(f0, o0)) <= 1
      BY RowsAreTyped
    <3>2. Len(PairRefusal(f0, o0)) = 1
      BY <1>5, <3>1, AtMostOne
    <3>3. Len(pairRows[p] \o PairRefusal(f0, o0)) = 1
      <4>1. Len(pairRows[p] \o PairRefusal(f0, o0)) = Len(pairRows[p]) + Len(PairRefusal(f0, o0))
        BY <1>2, <3>1, RowsAdd
      <4> QED BY <1>4, <3>2, <4>1
    <3> QED BY <1>1, <1>2, <1>5, <3>3
  <2>2. \A q \in Pairs : q # p => pairRows'[q] = pairRows[q]
    BY <1>2, <1>5
  <2> QED BY <1>4, <1>5, <2>1, <2>2, RowStepAccounts
<1>6. CASE /\ UNCHANGED units
           /\ pairRows' = [pairRows EXCEPT ![p] = Append(pairRows[p], Untested("safety_policy"))]
  <2>1. Len(pairRows'[p]) = 1
    <3>1. Len(Append(pairRows[p], Untested("safety_policy"))) = 1
      BY <1>2, <1>4
    <3> QED BY <1>1, <1>2, <1>6, <3>1
  <2>2. \A q \in Pairs : q # p => pairRows'[q] = pairRows[q]
    BY <1>2, <1>6
  <2> QED BY <1>4, <1>6, <2>1, <2>2, RowStepAccounts
<1>7. CASE units' = units \cup {Unit(f0, o0, b)} /\ UNCHANGED pairRows
  <2>1. UnitsOf(f0, o0, b) = {}
    BY <1>3, <1>4, FS_EmptySet
  <2>2. UnitsOf(f0, o0, b)' = {Unit(f0, o0, b)}
    <3> DEFINE u == Unit(f0, o0, b)
    <3>1. u.fixture = f0 /\ u.op = o0 /\ u.attacker = b
      BY DEF Unit
    <3>2. units' = units \cup {u}
      BY <1>7
    <3> HIDE DEF u
    <3>3. \A v : v \in UnitsOf(f0, o0, b)' <=> v = u
      <4>1. UnitsOf(f0, o0, b)'
              = {v \in units' : v.fixture = f0 /\ v.op = o0 /\ v.attacker = b}
        BY DEF UnitsOf
      <4>2. \A v \in units : ~(v.fixture = f0 /\ v.op = o0 /\ v.attacker = b)
        BY <2>1 DEF UnitsOf
      <4> QED BY <3>1, <3>2, <4>1, <4>2
    <3>4. UnitsOf(f0, o0, b)' = {u}
      BY <3>3
    <3> QED BY <3>4 DEF u
  <2>3. Cardinality(UnitsOf(f0, o0, b)') = 1
    BY <2>2, FS_Singleton
  <2>4. Accounts(f0, o0, b)' = 1
    BY <1>4, <1>7, <2>3 DEF Accounts, UnitsOf
  <2>5. ASSUME NEW f \in Fixtures, NEW o \in Ops, NEW a \in Identities,
               <<f, o, a>> # <<f0, o0, b>>
        PROVE  UnitsOf(f, o, a)' = UnitsOf(f, o, a)
    BY <1>7, <2>5 DEF UnitsOf, Unit
  <2>6. ASSUME NEW f \in Fixtures, NEW o \in Ops, NEW a \in Identities,
               <<f, o, a>> # <<f0, o0, b>>
        PROVE  Accounts(f, o, a)' = Accounts(f, o, a)
    <3>1. Accounts(f, o, a) = Len(pairRows[<<f, o, a>>]) + Cardinality(UnitsOf(f, o, a))
      BY DEF Accounts, UnitsOf
    <3>2. Accounts(f, o, a)' = Len(pairRows'[<<f, o, a>>]) + Cardinality(UnitsOf(f, o, a)')
      BY DEF Accounts, UnitsOf
    <3> QED BY <1>7, <2>5, <2>6, <3>1, <3>2
  <2> QED BY <2>4, <2>6
<1> QED BY <1>5, <1>6, <1>7 DEF PlanPair

LEMMA BoundariesStep ==
  TypeOK /\ CursorInRange /\ Visiting /\ IsFiniteSet(units) /\ BoundariesSoFar /\ [Next]_vars
    => BoundariesSoFar'
<1> SUFFICES ASSUME TypeOK, CursorInRange, Visiting, IsFiniteSet(units), BoundariesSoFar,
                    [Next]_vars
             PROVE  BoundariesSoFar'
  OBVIOUS
<1>0. /\ op \in Nat /\ fx \in Nat /\ op >= 1 /\ fx >= 1
      /\ \A f \in Fixtures : f \in Nat /\ f >= 1
      /\ \A o \in Ops : o \in Nat /\ o >= 1 /\ o <= NOps
  BY DEF TypeOK, CursorInRange, Fixtures, Ops
<1>1. CASE PlanJob
  BY <1>1, PassingStep DEF PlanJob, Passed
<1>2. CASE EndJobs
  <2>1. \A f \in Fixtures : \A o, a : ~Passed(f, o, a)'
    BY <1>0, <1>2 DEF EndJobs, Passed, Visiting
  <2> QED BY <1>2, <2>1, PassingStep DEF EndJobs, Passed
<1>3. CASE UnknownOwner \/ NobodyToProbeWith
  <2>1. \A o \in Ops, a \in Identities : <<fx, o, a>> \notin Boundaries
    BY <1>3, BoundaryIs DEF UnknownOwner, NobodyToProbeWith
  <2>2. /\ phase = "fixtures" /\ phase' = "fixtures" /\ fx' = fx + 1
        /\ UNCHANGED <<units, pairRows>>
    BY <1>3 DEF UnknownOwner, NobodyToProbeWith, SkipFixture
  <2>3. \A f \in Fixtures : \A o, a : f # fx => (Passed(f, o, a)' <=> Passed(f, o, a))
    BY <1>0, <2>2 DEF Passed
  <2> QED BY <2>1, <2>2, <2>3, PassingStep
<1>4. CASE StartFixture
  <2>1. \A f \in Fixtures, o \in Ops : \A a : Passed(f, o, a)' <=> Passed(f, o, a)
    BY <1>0, <1>4 DEF StartFixture, Passed
  <2> QED BY <1>4, <2>1, PassingStep DEF StartFixture
<1>5. CASE SkipOperation \/ CannotBind
  <2>1. \A a \in Identities : fx \in Fixtures /\ op \in Ops => <<fx, op, a>> \notin Boundaries
    BY <1>5, BoundaryIs DEF SkipOperation, CannotBind
  <2>2. /\ phase = "operations" /\ phase' = "operations" /\ op' = op + 1 /\ fx' = fx
        /\ UNCHANGED <<units, pairRows>>
    BY <1>5 DEF SkipOperation, CannotBind
  <2>3. \A f \in Fixtures, o \in Ops : \A a :
          <<f, o>> # <<fx, op>> => (Passed(f, o, a)' <=> Passed(f, o, a))
    BY <1>0, <2>2 DEF Passed
  <2> QED BY <2>1, <2>2, <2>3, PassingStep
<1>6. CASE StartPairs
  <2>1. fx \in Fixtures /\ op \in Ops /\ left' = NonOwners(fx)
    BY <1>6 DEF StartPairs, Visiting
  <2>2. \A f \in Fixtures, o \in Ops, a \in Identities :
          <<f, o, a>> \in Boundaries => (Passed(f, o, a)' <=> Passed(f, o, a))
    BY <1>0, <1>6, <2>1, BoundaryIs DEF StartPairs, Passed
  <2> QED BY <1>6, <2>2, PassingStep DEF StartPairs
<1>7. ASSUME NEW b \in Identities, PlanPair(b) PROVE BoundariesSoFar'
  <2>0. PICK f0 \in Fixtures, o0 \in Ops : f0 = fx /\ o0 = op
    BY <1>7 DEF PlanPair, Visiting
  <2>1. /\ fx \in Fixtures /\ op \in Ops /\ b \in left /\ phase = "pairs"
        /\ phase' = phase /\ left' = left \ {b} /\ op' = op /\ fx' = fx
    BY <1>7 DEF PlanPair, Visiting
  <2>2. <<f0, o0, b>> \in Boundaries
    BY <1>7, <2>0, <2>1, BoundaryIs DEF Visiting
  <2>3. ~Passed(f0, o0, b) /\ Passed(f0, o0, b)'
    BY <1>0, <2>0, <2>1 DEF Passed
  <2>4. Accounts(f0, o0, b) = 0
    BY <2>3 DEF BoundariesSoFar
  <2>5. /\ Accounts(f0, o0, b)' = 1
        /\ \A f \in Fixtures, o \in Ops, a \in Identities :
             <<f, o, a>> # <<f0, o0, b>> => Accounts(f, o, a)' = Accounts(f, o, a)
    BY <1>7, <2>0, <2>4, PlanPairAccounts
  <2>6. \A f \in Fixtures, o \in Ops, a \in Identities :
          <<f, o, a>> # <<f0, o0, b>> => (Passed(f, o, a)' <=> Passed(f, o, a))
    BY <1>0, <2>0, <2>1 DEF Passed
  <2>7. ASSUME NEW f \in Fixtures, NEW o \in Ops, NEW a \in Identities
        PROVE  Accounts(f, o, a)'
                 = (IF <<f, o, a>> \in Boundaries /\ Passed(f, o, a)' THEN 1 ELSE 0)
    <3>1. CASE <<f, o, a>> = <<f0, o0, b>>
      <4>1. f = f0 /\ o = o0 /\ a = b
        BY <3>1
      <4> QED BY <2>2, <2>3, <2>5, <4>1
    <3>2. CASE <<f, o, a>> # <<f0, o0, b>>
      BY <2>5, <2>6, <3>2 DEF BoundariesSoFar
    <3> QED BY <3>1, <3>2
  <2> QED BY <2>7, BoundariesAreFixed DEF BoundariesSoFar
<1>8. CASE EndPairs
  <2>1. \A f \in Fixtures, o \in Ops : \A a : Passed(f, o, a)' <=> Passed(f, o, a)
    BY <1>0, <1>8 DEF EndPairs, Passed
  <2> QED BY <1>8, <2>1, PassingStep DEF EndPairs
<1>9. CASE EndFixture
  <2>1. \A o \in Ops : o < op
    BY <1>0, <1>9 DEF EndFixture, Ops
  <2>2. \A f \in Fixtures, o \in Ops : \A a : Passed(f, o, a)' <=> Passed(f, o, a)
    BY <1>0, <1>9, <2>1 DEF EndFixture, Passed
  <2> QED BY <1>9, <2>2, PassingStep DEF EndFixture
<1>10. CASE EndPlanning
  <2>1. \A f \in Fixtures, o \in Ops : \A a : Passed(f, o, a)' <=> Passed(f, o, a)
    BY <1>0, <1>10 DEF EndPlanning, Passed
  <2> QED BY <1>10, <2>1, PassingStep DEF EndPlanning
<1>11. CASE UNCHANGED vars
  BY <1>11, PassingStep DEF vars, Passed
<1> QED
  BY <1>1, <1>2, <1>3, <1>4, <1>5, <1>6, <1>7, <1>8, <1>9, <1>10, <1>11 DEF Next

LEMMA BoundariesInit == Init => BoundariesSoFar
<1> SUFFICES ASSUME Init, NEW f \in Fixtures, NEW o \in Ops, NEW a \in Identities
             PROVE  Accounts(f, o, a) = 0 /\ ~Passed(f, o, a)
  BY DEF BoundariesSoFar
<1>1. <<f, o, a>> \in Pairs
  BY DEF Pairs
<1>2. pairRows[<<f, o, a>>] = <<>>
  BY <1>1 DEF Init
<1>3. UnitsOf(f, o, a) = {}
  BY DEF Init, UnitsOf
<1>4. Accounts(f, o, a) = Len(pairRows[<<f, o, a>>]) + Cardinality(UnitsOf(f, o, a))
  BY DEF Accounts, UnitsOf
<1>5. Cardinality(UnitsOf(f, o, a)) = 0
  BY <1>3, FS_EmptySet
<1> QED BY <1>2, <1>4, <1>5 DEF Init, Passed

-----------------------------------------------------------------------------
(* Fixtures.                                                               *)

\* A fixture is heard of if it has a row, or an operation that makes boundaries of it.
HasRow(f) == \E o \in Ops \cup {None} : fixtureRows[f][o] # <<>>
HasBoundary(f) == \E o \in Ops, a \in Identities : <<f, o, a>> \in Boundaries

\* Every fixture passed is heard of, and one that is being visited is once it has addressed
\* an operation.
FixturesSoFar ==
  /\ \A f \in Fixtures : f < fx => HasRow(f) \/ HasBoundary(f)
  /\ phase \in {"operations", "pairs"} /\ addressable => HasBoundary(fx)

\* Adding a row to one place leaves every row there is.
LEMMA RowsStay ==
  ASSUME TypeOK, NEW g \in Fixtures, NEW o \in Ops \cup {None}, NEW s \in Seq(Row),
         fixtureRows' = [fixtureRows EXCEPT ![g][o] = s],
         fixtureRows[g][o] # <<>> => s # <<>>
  PROVE  \A f \in Fixtures : HasRow(f) => HasRow(f)'
<1> SUFFICES ASSUME NEW f \in Fixtures, HasRow(f) PROVE HasRow(f)'
  OBVIOUS
<1>1. PICK q \in Ops \cup {None} : fixtureRows[f][q] # <<>>
  BY DEF HasRow
<1>2. fixtureRows'[f][q] # <<>>
  BY <1>1 DEF TypeOK
<1> QED BY <1>2 DEF HasRow

\* The same for the forms the actions add rows in; the place has a row if one is added.
LEMMA RowAdded ==
  ASSUME TypeOK, NEW g \in Fixtures, NEW o \in Ops \cup {None}, NEW r \in Seq(Row),
         \/ fixtureRows' = [fixtureRows EXCEPT ![g][o] = @ \o r]
         \/ \E e \in Row : r = <<e>> /\ fixtureRows' = [fixtureRows EXCEPT ![g][o] = Append(@, e)]
  PROVE  /\ \A f \in Fixtures : HasRow(f) => HasRow(f)'
         /\ r # <<>> => HasRow(g)'
<1>1. fixtureRows[g][o] \in Seq(Row)
  BY DEF TypeOK
<1>2. /\ fixtureRows[g][o] \o r \in Seq(Row)
      /\ fixtureRows[g][o] # <<>> \/ r # <<>> => fixtureRows[g][o] \o r # <<>>
  BY <1>1, ConcatProperties, EmptySeq, ConcatEmptySeq
<1>3. CASE fixtureRows' = [fixtureRows EXCEPT ![g][o] = @ \o r]
  <2>1. fixtureRows'[g][o] = fixtureRows[g][o] \o r
    BY <1>3 DEF TypeOK
  <2> QED BY <1>2, <1>3, <2>1, RowsStay DEF HasRow
<1>4. ASSUME NEW e \in Row, fixtureRows' = [fixtureRows EXCEPT ![g][o] = Append(@, e)]
      PROVE  (\A f \in Fixtures : HasRow(f) => HasRow(f)') /\ HasRow(g)'
  <2>1. fixtureRows'[g][o] = Append(fixtureRows[g][o], e)
    BY <1>4 DEF TypeOK
  <2>2. Append(fixtureRows[g][o], e) \in Seq(Row) /\ Append(fixtureRows[g][o], e) # <<>>
    BY <1>1, AppendProperties, EmptySeq
  <2> QED BY <1>4, <2>1, <2>2, RowsStay DEF HasRow
<1> QED BY <1>3, <1>4

LEMMA FixturesStep ==
  TypeOK /\ CursorInRange /\ Visiting /\ FixturesSoFar /\ [Next]_vars => FixturesSoFar'
<1> SUFFICES ASSUME TypeOK, CursorInRange, Visiting, FixturesSoFar, [Next]_vars
             PROVE  FixturesSoFar'
  OBVIOUS
<1>0. /\ fx \in Nat /\ fx >= 1
      /\ \A f \in Fixtures : f \in Nat /\ f >= 1
  BY DEF TypeOK, CursorInRange, Fixtures
<1>a. \A f : HasBoundary(f)' <=> HasBoundary(f)
  BY BoundariesAreFixed DEF HasBoundary
<1>1. CASE UNCHANGED <<fixtureRows, fx, addressable>>
           /\ (phase' \in {"operations", "pairs"} => phase \in {"operations", "pairs"})
  <2>1. \A f : HasRow(f)' <=> HasRow(f)
    BY <1>1 DEF HasRow
  <2>2. HasBoundary(fx)' <=> HasBoundary(fx)
    BY <1>1, <1>a
  <2> QED BY <1>1, <1>a, <2>1, <2>2 DEF FixturesSoFar
<1>2. ASSUME NEW e \in Row, SkipFixture(e), fx \in Fixtures, phase = "fixtures"
      PROVE  FixturesSoFar'
  <2>1. (\A f \in Fixtures : HasRow(f) => HasRow(f)') /\ (\A g \in Fixtures : g = fx => HasRow(g)')
    <3>1. PICK g \in Fixtures : g = fx
      BY <1>2
    <3>2. fixtureRows' = [fixtureRows EXCEPT ![g][None] = Append(@, e)]
      BY <1>2, <3>1 DEF SkipFixture
    <3>3. <<e>> \in Seq(Row) /\ <<e>> # <<>>
      OBVIOUS
    <3> QED BY <3>1, <3>2, <3>3, RowAdded
  <2>2. phase' = "fixtures" /\ fx' = fx + 1
    BY <1>2 DEF SkipFixture
  <2>3. ASSUME NEW f \in Fixtures, f < fx' PROVE HasRow(f)' \/ HasBoundary(f)'
    <3>1. f < fx \/ f = fx
      BY <1>0, <2>2, <2>3
    <3> QED BY <1>a, <2>1, <3>1 DEF FixturesSoFar
  <2> QED BY <2>2, <2>3 DEF FixturesSoFar
<1>3. CASE UnknownOwner
  BY <1>2, <1>3, RowsAreTyped DEF UnknownOwner
<1>4. CASE NobodyToProbeWith
  BY <1>2, <1>4, RowsAreTyped DEF NobodyToProbeWith
<1>5. CASE StartFixture
  <2>1. \A f : HasRow(f)' <=> HasRow(f)
    BY <1>5 DEF StartFixture, HasRow
  <2> QED BY <1>5, <1>a, <2>1 DEF StartFixture, FixturesSoFar
<1>6. CASE CannotBind
  <2>1. CASE UNCHANGED fixtureRows
    BY <1>1, <1>6, <2>1 DEF CannotBind
  <2>2. CASE fixtureRows'
               = [fixtureRows EXCEPT ![fx][op] = Append(@, Blocked("missing_resource"))]
    <3>1. PICK g \in Fixtures, o \in Ops \cup {None} : g = fx /\ o = op
      BY <1>6 DEF CannotBind, Visiting
    <3>2. Blocked("missing_resource") \in Row
      BY RowsAreTyped
    <3>3. <<Blocked("missing_resource")>> \in Seq(Row)
      BY <3>2
    <3>4. \A f \in Fixtures : HasRow(f) => HasRow(f)'
      BY <2>2, <3>1, <3>2, <3>3, RowAdded
    <3>5. /\ phase' = phase /\ phase = "operations" /\ fx' = fx /\ addressable' = addressable
      BY <1>6 DEF CannotBind
    <3>6. HasBoundary(fx)' <=> HasBoundary(fx)
      BY <1>a, <3>5
    <3> QED BY <1>a, <3>4, <3>5, <3>6 DEF FixturesSoFar
  <2> QED BY <1>6, <2>1, <2>2 DEF CannotBind
<1>7. CASE StartPairs
  <2>1. \E o \in Ops, a \in Identities : <<fx, o, a>> \in Boundaries
    <3>1. PICK a : a \in NonOwners(fx)
      BY <1>7 DEF StartPairs, Visiting
    <3>2. a \in Identities
      BY <3>1 DEF NonOwners
    <3> QED BY <1>7, <3>1, <3>2, BoundaryIs DEF StartPairs, Visiting
  <2>2. HasBoundary(fx)
    BY <2>1 DEF HasBoundary
  <2>3. (\A f : HasRow(f)' <=> HasRow(f)) /\ fx' = fx
    BY <1>7 DEF StartPairs, HasRow
  <2>4. HasBoundary(fx)'
    BY <1>a, <2>2, <2>3
  <2> QED BY <1>a, <2>3, <2>4 DEF FixturesSoFar
<1>8. CASE EndFixture
  <2>1. PICK g \in Fixtures : g = fx
    BY <1>8 DEF EndFixture, Visiting
  <2>2. Unaddressed \in Seq(Row) /\ (~addressable => Unaddressed # <<>>)
    BY RowsAreTyped DEF Unaddressed
  <2>3. fixtureRows' = [fixtureRows EXCEPT ![g][None] = @ \o Unaddressed]
    BY <1>8, <2>1 DEF EndFixture
  <2>4. (\A f \in Fixtures : HasRow(f) => HasRow(f)') /\ (Unaddressed # <<>> => HasRow(g)')
    BY <2>2, <2>3, RowAdded
  <2>5. phase' = "fixtures" /\ phase = "operations" /\ fx' = fx + 1
    BY <1>8 DEF EndFixture
  <2>6. HasRow(g)' \/ HasBoundary(g)
    BY <2>1, <2>2, <2>4, <2>5 DEF FixturesSoFar
  <2>7. ASSUME NEW f \in Fixtures, f < fx' PROVE HasRow(f)' \/ HasBoundary(f)'
    <3>1. f < fx \/ f = g
      BY <1>0, <2>1, <2>5, <2>7
    <3> QED BY <1>a, <2>4, <2>6, <3>1 DEF FixturesSoFar
  <2> QED BY <2>5, <2>7 DEF FixturesSoFar
<1>9. ASSUME NEW a \in Identities, PlanPair(a)
      PROVE  UNCHANGED <<fixtureRows, fx, addressable, phase>>
  BY <1>9 DEF PlanPair
<1> QED
  BY <1>1, <1>3, <1>4, <1>5, <1>6, <1>7, <1>8, <1>9 DEF Next, vars, PlanJob, EndJobs,
    SkipOperation, EndPairs, EndPlanning

-----------------------------------------------------------------------------
(* The theorems.                                                           *)

PlanInv ==
  /\ TypeOK
  /\ CursorInRange
  /\ Visiting
  /\ IsFiniteSet(units)
  /\ UnitsBounded
  /\ PlanIsPermitted
  /\ OperationsSoFar
  /\ BoundariesSoFar
  /\ FixturesSoFar

LEMMA PlanInvInit == Init => PlanInv
<1>1. Init => OperationsSoFar
  BY DEF Init, OperationsSoFar, Ops
<1>2. Init => FixturesSoFar
  BY DEF Init, FixturesSoFar, Fixtures
<1> QED BY <1>1, <1>2, TypeInit, BoundsInit, BoundariesInit DEF PlanInv

LEMMA PlanInvStep == PlanInv /\ [Next]_vars => PlanInv'
BY TypeStep, CursorStep, BoundsStep, PermissionStep, OperationsStep, BoundariesStep, FixturesStep
  DEF PlanInv

LEMMA PlanInvIsInvariant == Spec => []PlanInv
BY PlanInvInit, PlanInvStep, PTL DEF Spec

\* What is left of PlanInv when the loops have ended.
LEMMA AccountedWhenDone == PlanInv => NothingPlannedSilently
<1> SUFFICES ASSUME PlanInv PROVE NothingPlannedSilently
  OBVIOUS
<1>1. EveryOperationAccounted
  BY DEF PlanInv, OperationsSoFar, EveryOperationAccounted
<1>2. ASSUME phase = "done" PROVE \A f \in Fixtures : f < fx
  BY <1>2 DEF PlanInv, TypeOK, CursorInRange, Visiting, Fixtures
<1>3. ASSUME phase = "done", NEW f \in Fixtures, NEW o \in Ops, NEW a \in Identities
      PROVE  Accounts(f, o, a) = (IF <<f, o, a>> \in Boundaries THEN 1 ELSE 0)
  <2>1. Passed(f, o, a)
    BY <1>2, <1>3 DEF Passed
  <2> QED BY <2>1 DEF PlanInv, BoundariesSoFar
<1>4. EveryBoundaryAccounted
  <2> SUFFICES ASSUME phase = "done", NEW p \in Pairs
               PROVE  Accounts(p[1], p[2], p[3]) = (IF p \in Boundaries THEN 1 ELSE 0)
    BY DEF EveryBoundaryAccounted
  <2>1. p[1] \in Fixtures /\ p[2] \in Ops /\ p[3] \in Identities /\ p = <<p[1], p[2], p[3]>>
    BY DEF Pairs
  <2> QED BY <1>3, <2>1
<1>5. NoFixtureSilent
  <2> SUFFICES ASSUME phase = "done", NEW f \in Fixtures
               PROVE  \/ \E o \in Ops \cup {None} : fixtureRows[f][o] # <<>>
                      \/ \E o \in Ops, a \in Identities : Accounts(f, o, a) > 0
    BY DEF NoFixtureSilent
  <2>1. HasRow(f) \/ HasBoundary(f)
    BY <1>2 DEF PlanInv, FixturesSoFar
  <2>2. CASE HasBoundary(f)
    <3>1. PICK o \in Ops, a \in Identities : <<f, o, a>> \in Boundaries
      BY <2>2 DEF HasBoundary
    <3>2. Accounts(f, o, a) = 1
      BY <1>3, <3>1
    <3> QED BY <3>2
  <2> QED BY <2>1, <2>2 DEF HasRow
<1> QED BY <1>1, <1>4, <1>5 DEF NothingPlannedSilently

\* Whatever the surface, the fixtures and the bound, the plan has no more units than the
\* bound and turns work away only when it is full; it holds no operation the operator
\* excluded, asked to be skipped as an authentication route, or whose method the profile
\* does not permit (engine.Run), and no unit for an operation that is excluded or that the
\* profile does not permit (planOwnership, which does not ask about authentication routes).
THEOREM PlanIsWithinBounds == Spec => []PlanWithinBounds
<1>1. PlanInv => PlanWithinBounds
  BY DEF PlanInv, PlanWithinBounds, PlanIsPermitted
<1> QED BY <1>1, PlanInvIsInvariant, PTL

\* Whatever the surface and the fixtures, every operation and every boundary is planned
\* once or explained once, and every fixture is heard of.
THEOREM NothingIsPlannedSilently == Spec => []NothingPlannedSilently
BY AccountedWhenDone, PlanInvIsInvariant, PTL

HIDE PlanningAssumption

-----------------------------------------------------------------------------
(*                               AuthRequired                              *)
-----------------------------------------------------------------------------
USE AuthRequiredConstants DEF A!AuthRequiredAssumption

\* What is asked of a response has an answer.
LEMMA AnswersAreRead == \A a : A!Classify(a) \in A!Reading!Outcomes
<1> TAKE a
<1>1. A!Reading!ByStatus(a) \in A!Reading!Outcomes
  BY DEF A!Reading!ByStatus, A!Reading!Outcomes
<1>2. A!Reading!ByEnvelope(a) \in A!Reading!Outcomes \cup {A!Reading!Undecided}
  BY DEF A!Reading!ByEnvelope, A!Reading!Outcomes
<1>3. A!Reading!ByOperatorSignal(a) = A!Reading!Undecided
  BY DEF A!Reading!ByOperatorSignal
<1>4. A!Reading!Classify(a) \in A!Reading!Outcomes
  BY <1>1, <1>2, <1>3 DEF A!Reading!Classify, A!Reading!FirstDecided
<1> QED BY <1>4 DEF A!Classify, A!Reading!Outcomes

\* The resource, and a page, are read as successes.
LEMMA ContentIsAllowed ==
  ASSUME NEW content \in {"resource", "page"}, NEW len, NEW cached
  PROVE  A!Classify(A!Answer(200, "json", content, len, cached)) = "allowed"
<1> DEFINE a == A!Answer(200, "json", content, len, cached)
<1>1. a.status = 200 /\ a.type = "json" /\ a.body = "object" /\ a.code = "none"
      /\ ~ a.failed /\ a.text = "none" /\ a.payload /\ a # A!Lost
  BY DEF A!Answer, A!Lost
<1> HIDE DEF a
<1>2. A!Reading!Classify(a) = "allowed"
  BY <1>1 DEF A!Reading!Classify, A!Reading!FirstDecided, A!Reading!ByOperatorSignal,
     A!Reading!ByEnvelope, A!Reading!ByStatus, A!Reading!Success, A!Reading!Undecided
<1>3. A!Classify(a) = "allowed"
  BY <1>1, <1>2 DEF A!Classify
<1> QED BY <1>3 DEF a

-----------------------------------------------------------------------------
\* What unknown paths can be answered with, and what the operation can.
IsPage(a) ==
  /\ unknown # "refuse"
  /\ a.status = 200 /\ a.type = "json" /\ a.content = "page"
  /\ a.len \in {2, 3} /\ (unknown = "page" => a.len = 2)
IsBaseline(a) ==
  a = A!Lost \/ a.status \in {429, 503} \/ (a.status = 404 /\ unknown = "refuse") \/ IsPage(a)
IsResource(a) ==
  a.status = 200 /\ a.type = "json" /\ a.len \in {1, 2} /\ A!Classify(a) = "allowed"
IsAnswer(a) ==
  a # A!Lost =>
    /\ a.content \in {"none", "login", "guest", "page", "resource"}
    /\ a.content = "login" => a.type = "html"
    /\ a.content = "page" => IsPage(a)
    /\ a.content = "resource" => IsResource(a)

Baselines == {"baseline 1", "baseline 2"}

\* The answers there are when a request is about to be made.
Asked ==
  /\ at = "baseline 1" => DOMAIN seen = {}
  /\ at = "baseline 2" => DOMAIN seen = {"baseline 1"}
  /\ at = "primary" => DOMAIN seen = Baselines
  /\ at = "repeat" => DOMAIN seen = Baselines \cup {"primary"}
  /\ at = "garbage" => DOMAIN seen = Baselines \cup {"primary", "repeat"}
  /\ at = "control" => DOMAIN seen = Baselines \cup {"primary", "repeat", "garbage"}

Answered ==
  /\ \A s \in Baselines \cap DOMAIN seen : IsBaseline(seen[s])
  /\ "primary" \in DOMAIN seen => IsAnswer(seen["primary"])
  /\ at # "done" => \A s \in Baselines \cap DOMAIN seen : seen[s] # A!Lost

\* What has let the check go on.
WentOn ==
  /\ at \in {"repeat", "garbage", "control"} => A!Judge(seen["primary"]) = A!Running
  /\ at \in {"garbage", "control"} => A!Confirmation(seen["repeat"]) = A!Running

CheckInv == A!TypeOK /\ Asked /\ Answered /\ WentOn /\ A!VerdictIsFounded

LEMMA CheckStarts == ASSUME A!Init PROVE CheckInv
<1> USE DEF A!Init
<1>1. result = A!Running /\ A!Running \in A!Results /\ result.disp = "none" /\ result.state = "none"
  BY DEF A!Running, A!Results
<1>2. DOMAIN seen = {}
  OBVIOUS
<1>3. A!TypeOK
  <2>1. routed \in BOOLEAN /\ open \in BOOLEAN /\ limited \in BOOLEAN /\ alive \in BOOLEAN
    BY Zenon
  <2>2. deploys \in 0 .. A!MaxDeploys
    <3>1. deploys = 0
      BY Zenon
    <3> HIDE DEF A!Init
    <3> QED BY <3>1 DEF A!MaxDeploys
  <2>3. at \in A!Steps \cup {"done"} /\ at # "done"
    BY DEF A!Steps
  <2>4. unknown \in Unrouted /\ known \in {"none", "unresolved", "good", "bad"}
    OBVIOUS
  <2> HIDE DEF A!Init
  <2> QED BY <1>1, <1>2, <2>1, <2>2, <2>3, <2>4 DEF A!TypeOK
<1>4. Asked /\ Answered /\ WentOn
  BY <1>2 DEF Asked, Answered, WentOn
<1>5. A!CleanMeansRefused /\ A!ConfirmedIsTrue /\ A!FindingIsCorroborated
  BY <1>1 DEF A!CleanMeansRefused, A!ConfirmedIsTrue, A!FindingIsCorroborated
<1> QED BY <1>3, <1>4, <1>5 DEF CheckInv, A!VerdictIsFounded

-----------------------------------------------------------------------------
\* Unknown paths.
LEMMA UnknownPaths ==
  ASSUME A!TypeOK, NEW cached \in SUBSET BOOLEAN, NEW a \in A!UnroutedAnswers(cached)
  PROVE  /\ a # A!Lost /\ IsBaseline(a) /\ IsAnswer(a)
<1>1. CASE unknown = "refuse"
  <2>1. a = A!Answer(404, "json", "none", 0, FALSE)
    BY <1>1 DEF A!UnroutedAnswers
  <2> QED BY <1>1, <2>1 DEF A!Answer, A!Lost, IsBaseline, IsAnswer
<1>2. CASE unknown \in {"page", "shifting"}
  <2>1. PICK len \in {2, 3}, c \in cached :
          a = A!Page(len, c) /\ (unknown = "page" => len = 2)
    <3>1. CASE unknown = "page"
      <4>1. a \in {A!Page(2, c) : c \in cached}
        BY <3>1 DEF A!UnroutedAnswers
      <4> QED BY <4>1
    <3>2. CASE unknown = "shifting"
      <4>1. a \in {A!Page(len, c) : len \in {2, 3}, c \in cached}
        BY <3>2 DEF A!UnroutedAnswers
      <4> QED BY <3>2, <4>1
    <3> QED BY <1>2, <3>1, <3>2
  <2>2. a.status = 200 /\ a.type = "json" /\ a.content = "page" /\ a.len = len /\ a # A!Lost
    BY <2>1 DEF A!Page, A!Answer, A!Lost
  <2> QED BY <1>2, <2>1, <2>2 DEF IsPage, IsBaseline, IsAnswer
<1> QED BY <1>1, <1>2 DEF A!TypeOK

LEMMA BaselinePaths ==
  ASSUME A!TypeOK, NEW a \in A!BaselineAnswers PROVE IsBaseline(a)
<1>1. CASE limited
  BY <1>1 DEF A!BaselineAnswers, A!Answer, IsBaseline
<1>2. CASE ~ limited /\ a \in A!UnroutedAnswers({FALSE})
  BY <1>2, UnknownPaths
<1>3. CASE a \in A!Failing
  BY <1>3 DEF A!Failing, A!Answer, IsBaseline
<1> QED BY <1>1, <1>2, <1>3 DEF A!BaselineAnswers

LEMMA OperationPath ==
  ASSUME A!TypeOK, NEW served, NEW a \in A!OperationAnswers(served) PROVE IsAnswer(a)
<1>1. ASSUME NEW c, a \in A!Resources(c) PROVE IsAnswer(a)
  <2>1. PICK len \in Lengths : a = A!Answer(200, "json", "resource", len, c)
    BY <1>1 DEF A!Resources
  <2>2. a.status = 200 /\ a.type = "json" /\ a.content = "resource" /\ a.len = len
    BY <2>1 DEF A!Answer
  <2>3. A!Classify(a) = "allowed"
    BY <2>1, ContentIsAllowed
  <2> QED BY <2>2, <2>3 DEF IsAnswer, IsResource
<1>2. CASE a \in A!Failing \cup A!Refusals \/ a = A!Answer(429, "json", "none", 0, FALSE)
  BY <1>2 DEF A!Failing, A!Refusals, A!Answer, IsAnswer
<1>3. CASE a \in A!UnroutedAnswers(BOOLEAN)
  BY <1>3, UnknownPaths
<1> QED BY <1>1, <1>2, <1>3 DEF A!OperationAnswers

\* What going on means.
LEMMA GoingOn ==
  /\ A!Running.state = "none" /\ A!Running.disp = "none"
  /\ A!Clean # A!Running /\ A!Clean.state = "none" /\ A!Clean \in A!Results
  /\ \A c : A!Blocked(c) # A!Running /\ A!Blocked(c).disp = "blocked" /\ A!Blocked(c).state = "none"
  /\ \A c \in {"transport_error", "rate_limited", "indeterminate_outcome"} : A!Blocked(c) \in A!Results
  BY DEF A!Running, A!Clean, A!Blocked, A!Results

LEMMA JudgeMeans ==
  ASSUME NEW a
  PROVE  /\ A!Judge(a) \in A!Results \cup {A!Running}
         /\ A!Judge(a).state = "none"
         /\ A!Judge(a) = A!Running =>
              /\ a # A!Lost /\ A!Classify(a) = "allowed"
              /\ ~ (A!Established /\ A!Matches(seen["baseline 2"], a))
              /\ a.type # "html" /\ ~ a.cached
         /\ A!Judge(a).disp = "executed" =>
              A!Classify(a) # "allowed" \/ (A!Established /\ A!Matches(seen["baseline 2"], a))
<1> DEFINE same == A!Established /\ A!Matches(seen["baseline 2"], a)
<1>1. A!Classify(A!Lost) = "error"
  BY DEF A!Classify
<1>2. A!Classify(a) \in {"allowed", "denied", "not found", "rate limited", "error", "indeterminate"}
  BY AnswersAreRead DEF A!Reading!Outcomes
<1>3. CASE A!Classify(a) # "allowed"
  <2>1. \/ \E c \in {"transport_error", "rate_limited", "indeterminate_outcome"} :
             A!Judge(a) = A!Blocked(c)
        \/ A!Judge(a) = A!Clean
    BY <1>1, <1>2, <1>3 DEF A!Judge
  <2> QED BY <2>1, <1>3, GoingOn
<1>4. CASE A!Classify(a) = "allowed"
  <2>1. a # A!Lost /\ A!Judge(a) = A!Discriminate(a)
    BY <1>1, <1>4 DEF A!Judge
  <2>2. CASE same
    BY <2>1, <2>2, GoingOn DEF A!Discriminate
  <2>3. CASE ~ same /\ (a.type = "html" \/ a.cached)
    <3>1. A!Judge(a) = A!Blocked("indeterminate_outcome")
      BY <2>1, <2>3 DEF A!Discriminate
    <3> QED BY <3>1, GoingOn
  <2>4. CASE ~ same /\ a.type # "html" /\ ~ a.cached
    <3>1. A!Judge(a) = A!Running
      BY <2>1, <2>4 DEF A!Discriminate
    <3> QED BY <1>4, <2>1, <2>4, <3>1, GoingOn
  <2> QED BY <2>2, <2>3, <2>4
<1> QED BY <1>3, <1>4

LEMMA ConfirmationMeans ==
  ASSUME NEW a
  PROVE  /\ A!Confirmation(a) \in A!Results \cup {A!Running}
         /\ A!Confirmation(a).state = "none" /\ A!Confirmation(a).disp # "executed"
         /\ A!Confirmation(a) = A!Running => A!Classify(a) = "allowed"
<1>1. CASE A!Classify(a) = "allowed"
  <2>1. a # A!Lost
    BY <1>1 DEF A!Classify
  <2>2. A!Confirmation(a) = A!Running
    BY <1>1, <2>1 DEF A!Confirmation
  <2> QED BY <1>1, <2>2, GoingOn
<1>2. CASE A!Classify(a) # "allowed"
  <2>1. \E c \in {"transport_error", "indeterminate_outcome"} : A!Confirmation(a) = A!Blocked(c)
    BY <1>2 DEF A!Confirmation
  <2> QED BY <2>1, GoingOn
<1> QED BY <1>1, <1>2

-----------------------------------------------------------------------------
(* One lemma for each request.                                             *)

\* What one more answer leaves of those before it.
LEMMA OneMoreAnswer ==
  ASSUME NEW step, NEW a, A!Sees(step, a)
  PROVE  /\ DOMAIN seen' = DOMAIN seen \cup {step} /\ seen'[step] = a
         /\ \A s \in DOMAIN seen : s # step => seen'[s] = seen[s]
BY DEF A!Sees

\* A result that is no finding and not clean promises nothing.
LEMMA NothingFound ==
  ASSUME result'.state = "none",
         result'.disp = "executed" => ~ (A!Got("primary", "resource")' /\ seen'["primary"].len # 2)
  PROVE  A!CleanMeansRefused' /\ A!ConfirmedIsTrue' /\ A!FindingIsCorroborated'
BY DEF A!CleanMeansRefused, A!ConfirmedIsTrue, A!FindingIsCorroborated

\* The two probes of paths that cannot exist.
LEMMA BaselineKeeps ==
  ASSUME CheckInv, NEW step, NEW then, A!Baseline(step, then),
         \/ step = "baseline 1" /\ then = "baseline 2"
         \/ step = "baseline 2" /\ then = "primary"
  PROVE  CheckInv'
<1> USE DEF CheckInv
<1>1. PICK a \in A!BaselineAnswers :
        /\ A!Sees(step, a)
        /\ IF a = A!Lost THEN A!Ends(A!Blocked("transport_error")) ELSE A!Goes(then)
  BY DEF A!Baseline
<1>2. at = step /\ UNCHANGED <<routed, open, unknown, limited, alive, known, deploys>>
  BY DEF A!Baseline, A!Environment, A!target
<1>3. /\ DOMAIN seen' = DOMAIN seen \cup {step} /\ seen'[step] = a
      /\ \A s \in DOMAIN seen : s # step => seen'[s] = seen[s]
  BY <1>1, OneMoreAnswer
<1>4. IsBaseline(a)
  BY BaselinePaths
<1>5. \/ at' = "done" /\ result' = A!Blocked("transport_error")
      \/ a # A!Lost /\ at' = then /\ result' = result
  BY <1>1 DEF A!Ends, A!Goes
<1>6. /\ \/ at = "baseline 1" /\ then = "baseline 2" /\ DOMAIN seen = {}
         \/ at = "baseline 2" /\ then = "primary" /\ DOMAIN seen = {"baseline 1"}
      /\ result = A!Running
  <2>1. result = A!Running
    BY <1>2 DEF A!TypeOK
  <2> QED BY <1>2, <2>1 DEF Asked
<1>7. result'.state = "none" /\ result'.disp # "executed" /\ result' \in A!Results
      /\ (result' = A!Running <=> at' # "done")
  BY <1>5, <1>6, GoingOn DEF A!TypeOK
<1>8. A!TypeOK'
  BY <1>2, <1>3, <1>5, <1>6, <1>7 DEF A!TypeOK, A!Steps
<1>9. Asked' /\ WentOn'
  BY <1>3, <1>5, <1>6 DEF Asked, WentOn, Baselines
<1>10. Answered'
  <2>1. (\A s \in Baselines \cap DOMAIN seen : IsBaseline(seen[s]))'
    <3>1. ASSUME NEW s \in Baselines \cap DOMAIN seen' PROVE IsBaseline(seen[s])'
      <4>1. IsBaseline(seen'[s])
        BY <1>2, <1>3, <1>4, <1>6 DEF Answered, Baselines
      <4> QED BY <1>2, <4>1 DEF IsBaseline, IsPage
    <3> QED BY <3>1 DEF Baselines
  <2>2. "primary" \notin DOMAIN seen'
    BY <1>2, <1>3, <1>6
  <2>3. at' # "done" => \A s \in Baselines \cap DOMAIN seen' : seen'[s] # A!Lost
    BY <1>2, <1>3, <1>5, <1>6 DEF Answered, Baselines
  <2> QED BY <2>1, <2>2, <2>3 DEF Answered
<1>11. A!CleanMeansRefused' /\ A!ConfirmedIsTrue' /\ A!FindingIsCorroborated'
  BY <1>7, NothingFound
<1> QED BY <1>8, <1>9, <1>10, <1>11 DEF A!VerdictIsFounded

\* What the properties and the invariant say of answers stays true while those stay.
LEMMA AnswersStay ==
  ASSUME UNCHANGED unknown, Answered, at # "done",
         \A s \in DOMAIN seen : s \in DOMAIN seen' /\ seen'[s] = seen[s],
         Baselines \cap DOMAIN seen' = Baselines \cap DOMAIN seen,
         "primary" \in DOMAIN seen' \ DOMAIN seen => IsAnswer(seen'["primary"])
  PROVE  Answered'
<1>1. (\A s \in Baselines \cap DOMAIN seen : IsBaseline(seen[s]))'
  <2>1. \A s \in Baselines \cap DOMAIN seen' : IsBaseline(seen'[s])
    BY DEF Answered
  <2> QED BY <2>1 DEF IsBaseline, IsPage
<1>2. ("primary" \in DOMAIN seen => IsAnswer(seen["primary"]))'
  <2>1. "primary" \in DOMAIN seen' => IsAnswer(seen'["primary"])
    BY DEF Answered
  <2> QED BY <2>1 DEF IsAnswer, IsPage, IsResource
<1>3. (\A s \in Baselines \cap DOMAIN seen : seen[s] # A!Lost)'
  BY DEF Answered
<1> QED BY <1>1, <1>2, <1>3 DEF Answered

\* A judgement stays while what it is about does.
LEMMA SameJudgement ==
  ASSUME seen'["baseline 1"] = seen["baseline 1"], seen'["baseline 2"] = seen["baseline 2"],
         seen'["primary"] = seen["primary"]
  PROVE  A!Judge(seen["primary"])' = A!Judge(seen["primary"])
<1>1. A!Established' <=> A!Established
  BY DEF A!Established, A!Matches
<1>2. A!Matches(seen["baseline 2"], seen["primary"])'
        <=> A!Matches(seen["baseline 2"], seen["primary"])
  BY DEF A!Matches
<1>3. A!Discriminate(seen["primary"])' = A!Discriminate(seen["primary"])
  <2>1. CASE A!Established /\ A!Matches(seen["baseline 2"], seen["primary"])
    BY <1>1, <1>2, <2>1 DEF A!Discriminate
  <2>2. CASE ~ (A!Established /\ A!Matches(seen["baseline 2"], seen["primary"]))
    <3>1. CASE seen["primary"].type = "html" \/ seen["primary"].cached
      BY <1>1, <1>2, <2>2, <3>1 DEF A!Discriminate
    <3>2. CASE ~ (seen["primary"].type = "html" \/ seen["primary"].cached)
      <4>1. A!Discriminate(seen["primary"]) = A!Running
        BY <2>2, <3>2 DEF A!Discriminate
      <4>2. ~ (seen'["primary"].type = "html" \/ seen'["primary"].cached)
        <5>1. ASSUME NEW p, NEW q, p = q, ~ (q.type = "html" \/ q.cached)
              PROVE  ~ (p.type = "html" \/ p.cached)
          BY <5>1, Zenon
        <5>2. seen'["primary"] = seen["primary"]
          OBVIOUS
        <5> QED BY <3>2, <5>1, <5>2
      <4>3. A!Discriminate(seen["primary"])' = A!Running
        BY <1>1, <1>2, <2>2, <4>2 DEF A!Discriminate
      <4> QED BY <4>1, <4>3
    <3> QED BY <3>1, <3>2
  <2> QED BY <2>1, <2>2
<1> QED BY <1>3 DEF A!Judge

\* The first anonymous request: a clean end is one whose answer was no resource.
LEMMA PrimaryKeeps == ASSUME CheckInv, A!Primary PROVE CheckInv'
<1> USE DEF CheckInv
<1>1. PICK a \in A!OperationAnswers(open) :
        /\ A!Sees("primary", a)
        /\ IF A!Judge(a) = A!Running THEN A!Goes("repeat") ELSE A!Ends(A!Judge(a))
  BY DEF A!Primary
<1>2. at = "primary" /\ UNCHANGED <<routed, open, unknown, limited, alive, known, deploys>>
  BY DEF A!Primary, A!Environment, A!target
<1>3. /\ DOMAIN seen' = DOMAIN seen \cup {"primary"} /\ seen'["primary"] = a
      /\ \A s \in DOMAIN seen : s # "primary" => seen'[s] = seen[s]
  BY <1>1, OneMoreAnswer
<1>4. IsAnswer(a)
  BY OperationPath DEF A!TypeOK
<1>5. DOMAIN seen = Baselines /\ result = A!Running
  <2>1. result = A!Running
    BY <1>2 DEF A!TypeOK
  <2> QED BY <1>2, <2>1 DEF Asked
<1>6. \/ A!Judge(a) = A!Running /\ at' = "repeat" /\ result' = result
      \/ A!Judge(a) # A!Running /\ at' = "done" /\ result' = A!Judge(a)
  BY <1>1 DEF A!Ends, A!Goes
<1>7. result'.state = "none" /\ result' \in A!Results /\ (result' = A!Running <=> at' # "done")
  BY <1>5, <1>6, GoingOn, JudgeMeans DEF A!TypeOK
<1>8. A!TypeOK'
  BY <1>2, <1>3, <1>6, <1>7 DEF A!TypeOK, A!Steps
<1>9. Asked'
  BY <1>3, <1>5, <1>6 DEF Asked, Baselines
<1>10. Answered'
  <2>1. Baselines \cap DOMAIN seen' = Baselines \cap DOMAIN seen
    BY <1>3 DEF Baselines
  <2> QED BY <1>2, <1>3, <1>4, <1>5, <2>1, AnswersStay DEF Baselines
<1>11. A!Judge(a)' = A!Judge(a)
  <2>1. seen'["baseline 1"] = seen["baseline 1"] /\ seen'["baseline 2"] = seen["baseline 2"]
    BY <1>3, <1>5 DEF Baselines
  <2> QED BY <2>1 DEF A!Judge, A!Discriminate, A!Established
<1>12. WentOn'
  BY <1>3, <1>6, <1>11 DEF WentOn
<1>13. result'.disp = "executed" => ~ (A!Got("primary", "resource")' /\ seen'["primary"].len # 2)
  <2> SUFFICES ASSUME result'.disp = "executed", A!Got("primary", "resource")', a.len # 2 PROVE FALSE
    BY <1>3
  <2>1. a # A!Lost /\ a.content = "resource"
    BY <1>3 DEF A!Got
  <2>2. a.status = 200 /\ a.len = 1 /\ A!Classify(a) = "allowed"
    BY <1>4, <2>1 DEF IsAnswer, IsResource
  <2>3. A!Established /\ A!Matches(seen["baseline 2"], a)
    <3>1. result' = A!Judge(a)
      BY <1>5, <1>6, GoingOn
    <3> QED BY <2>2, <3>1, JudgeMeans
  <2>4. seen["baseline 2"].status = 200 /\ seen["baseline 2"].len = 1
    BY <2>2, <2>3 DEF A!Matches
  <2>5. IsBaseline(seen["baseline 2"]) /\ seen["baseline 2"] # A!Lost
    BY <1>2, <1>5 DEF Answered, Baselines
  <2> DEFINE b == seen["baseline 2"]
  <2>6. b.status = 200 /\ b.len = 1 /\ (b.status \in {404, 429, 503} \/ IsPage(b))
    BY <2>4, <2>5 DEF IsBaseline
  <2> HIDE DEF b
  <2> QED BY <2>6 DEF IsPage
<1>14. A!CleanMeansRefused' /\ A!ConfirmedIsTrue' /\ A!FindingIsCorroborated'
  BY <1>7, <1>13, NothingFound
<1> QED BY <1>8, <1>9, <1>10, <1>12, <1>14 DEF A!VerdictIsFounded

\* The repetition.
LEMMA RepeatKeeps == ASSUME CheckInv, A!Repeat PROVE CheckInv'
<1> USE DEF CheckInv
<1>1. PICK a \in A!OperationAnswers(open) :
        /\ A!Sees("repeat", a)
        /\ IF A!Confirmation(a) = A!Running THEN A!Goes("garbage") ELSE A!Ends(A!Confirmation(a))
  BY DEF A!Repeat
<1>2. at = "repeat" /\ UNCHANGED <<routed, open, unknown, limited, alive, known, deploys>>
  BY DEF A!Repeat, A!Environment, A!target
<1>3. /\ DOMAIN seen' = DOMAIN seen \cup {"repeat"} /\ seen'["repeat"] = a
      /\ \A s \in DOMAIN seen : s # "repeat" => seen'[s] = seen[s]
  BY <1>1, OneMoreAnswer
<1>4. DOMAIN seen = Baselines \cup {"primary"} /\ result = A!Running
  <2>1. result = A!Running
    BY <1>2 DEF A!TypeOK
  <2> QED BY <1>2, <2>1 DEF Asked
<1>5. \/ A!Confirmation(a) = A!Running /\ at' = "garbage" /\ result' = result
      \/ A!Confirmation(a) # A!Running /\ at' = "done" /\ result' = A!Confirmation(a)
  BY <1>1 DEF A!Ends, A!Goes
<1>6. /\ result'.state = "none" /\ result'.disp # "executed" /\ result' \in A!Results
      /\ (result' = A!Running <=> at' # "done")
  BY <1>4, <1>5, GoingOn, ConfirmationMeans DEF A!TypeOK
<1>7. A!TypeOK'
  BY <1>2, <1>3, <1>5, <1>6 DEF A!TypeOK, A!Steps
<1>8. Asked'
  BY <1>3, <1>4, <1>5 DEF Asked, Baselines
<1>9. seen'["baseline 1"] = seen["baseline 1"] /\ seen'["baseline 2"] = seen["baseline 2"]
      /\ seen'["primary"] = seen["primary"]
  BY <1>3, <1>4 DEF Baselines
<1>10. Answered'
  <2>1. Baselines \cap DOMAIN seen' = Baselines \cap DOMAIN seen
    BY <1>3 DEF Baselines
  <2> QED BY <1>2, <1>3, <1>4, <2>1, AnswersStay DEF Baselines
<1>11. WentOn'
  <2>1. A!Judge(seen["primary"])' = A!Judge(seen["primary"])
    BY <1>9, SameJudgement
  <2>2. A!Confirmation(seen["repeat"])' = A!Confirmation(a)
    BY <1>3 DEF A!Confirmation
  <2> QED BY <1>2, <1>5, <2>1, <2>2 DEF WentOn
<1>12. A!CleanMeansRefused' /\ A!ConfirmedIsTrue' /\ A!FindingIsCorroborated'
  BY <1>6, NothingFound
<1> QED BY <1>7, <1>8, <1>10, <1>11, <1>12 DEF A!VerdictIsFounded

\* A malformed credential, whatever it brings.
LEMMA GarbageKeeps == ASSUME CheckInv, A!Garbage PROVE CheckInv'
<1> USE DEF CheckInv
<1>1. PICK a : A!Sees("garbage", a)
  BY DEF A!Garbage
<1>2. at = "garbage" /\ at' = "control"
      /\ UNCHANGED <<routed, open, unknown, limited, alive, known, deploys, result>>
  BY DEF A!Garbage, A!Environment, A!target, A!Goes
<1>3. /\ DOMAIN seen' = DOMAIN seen \cup {"garbage"} /\ seen'["garbage"] = a
      /\ \A s \in DOMAIN seen : s # "garbage" => seen'[s] = seen[s]
  BY <1>1, OneMoreAnswer
<1>4. DOMAIN seen = Baselines \cup {"primary", "repeat"} /\ result = A!Running
  <2>1. result = A!Running
    BY <1>2 DEF A!TypeOK
  <2> QED BY <1>2, <2>1 DEF Asked
<1>5. A!TypeOK'
  BY <1>2, <1>3 DEF A!TypeOK, A!Steps
<1>6. Asked'
  BY <1>2, <1>3, <1>4 DEF Asked, Baselines
<1>7. seen'["baseline 1"] = seen["baseline 1"] /\ seen'["baseline 2"] = seen["baseline 2"]
      /\ seen'["primary"] = seen["primary"] /\ seen'["repeat"] = seen["repeat"]
  BY <1>3, <1>4 DEF Baselines
<1>8. Answered'
  <2>1. Baselines \cap DOMAIN seen' = Baselines \cap DOMAIN seen
    BY <1>3 DEF Baselines
  <2> QED BY <1>2, <1>3, <1>4, <2>1, AnswersStay DEF Baselines
<1>9. WentOn'
  <2>1. A!Judge(seen["primary"])' = A!Judge(seen["primary"])
    BY <1>7, SameJudgement
  <2>2. A!Confirmation(seen["repeat"])' = A!Confirmation(seen["repeat"])
    BY <1>7 DEF A!Confirmation
  <2> QED BY <1>2, <2>1, <2>2 DEF WentOn
<1>10. A!CleanMeansRefused' /\ A!ConfirmedIsTrue' /\ A!FindingIsCorroborated'
  BY <1>2, <1>4, GoingOn, NothingFound
<1> QED BY <1>5, <1>6, <1>8, <1>9, <1>10 DEF A!VerdictIsFounded

LEMMA FindingMeans ==
  ASSUME NEW c
  PROVE  LET r == A!Finding(c) IN
         /\ r \in A!Results /\ r # A!Running /\ r.disp = "executed" /\ r.state # "none"
         /\ r.state = "confirmed" => A!Corroborates(c) /\ r.used
<1> DEFINE r == A!Finding(c)
           used == A!CountsAsUsed(c)
           gaps == (IF A!Corroborates(c) THEN {} ELSE {"authenticated control"})
                     \cup (IF A!Established THEN {} ELSE {"catch-all baseline"})
                     \cup (IF seen["garbage"] = A!Lost THEN {"credential probe"} ELSE {})
           state == IF A!Corroborates(c) THEN "confirmed" ELSE "suspected"
           credential == A!CredentialClaim(seen["garbage"])
<1>1. r = [disp |-> "executed", cause |-> "none", state |-> state, gaps |-> gaps,
           credential |-> credential, used |-> used]
  BY DEF A!Finding
<1>2. used \in BOOLEAN
  BY DEF A!CountsAsUsed
<1>3. gaps \in SUBSET A!Gaps
  BY DEF A!Gaps
<1>4. credential \in {"silent", "rejected", "accepted"}
  BY DEF A!CredentialClaim
<1>5. state \in {"suspected", "confirmed"} /\ (state = "confirmed" => A!Corroborates(c))
  OBVIOUS
<1>6. A!Corroborates(c) => used
  BY DEF A!Corroborates, A!CountsAsUsed
<1> HIDE DEF r, used, gaps, state, credential
<1>7. r \in A!Results
  BY <1>1, <1>2, <1>3, <1>4, <1>5 DEF A!Results
<1>8. r.disp = "executed" /\ r.state = state /\ r.used = used
  BY <1>1
<1>9. r # A!Running
  BY <1>8, GoingOn
<1>10. r.state = "confirmed" => A!Corroborates(c) /\ r.used
  BY <1>5, <1>6, <1>8, Zenon
<1> QED BY <1>5, <1>7, <1>8, <1>9, <1>10 DEF r

\* The authenticated control, and the finding.
LEMMA ControlKeeps == ASSUME CheckInv, A!Control PROVE CheckInv'
<1> USE DEF CheckInv
<1>1. PICK c :
        /\ A!Sees("control", c) \/ (c = A!Lost /\ seen' = seen)
        /\ IsAnswer(c) /\ A!Ends(A!Finding(c))
        /\ known' \in {"good", "bad", known}
  <2>1. CASE A!Usable
    <3>1. PICK c \in A!OperationAnswers(open \/ alive) :
            A!Sees("control", c) /\ A!Ends(A!Finding(c)) /\ known' \in A!Noted(c)
      BY <2>1 DEF A!Control
    <3>2. IsAnswer(c)
      BY <3>1, OperationPath
    <3> QED BY <3>1, <3>2 DEF A!Noted
  <2>2. CASE ~ A!Usable
    BY <2>2 DEF A!Control, IsAnswer
  <2> QED BY <2>1, <2>2
<1>2. at = "control" /\ at' = "done" /\ result' = A!Finding(c)
      /\ UNCHANGED <<routed, open, unknown, limited, alive, deploys>>
  BY <1>1 DEF A!Control, A!Ends, A!Environment, A!target
<1>3. DOMAIN seen = Baselines \cup {"primary", "repeat", "garbage"}
  BY <1>2 DEF Asked
<1>4. /\ DOMAIN seen' \subseteq DOMAIN seen \cup {"control"}
      /\ c # A!Lost => "control" \in DOMAIN seen' /\ seen'["control"] = c
      /\ \A s \in DOMAIN seen : s \in DOMAIN seen' /\ seen'[s] = seen[s]
  <2>1. CASE A!Sees("control", c)
    <3>1. /\ DOMAIN seen' = DOMAIN seen \cup {"control"} /\ seen'["control"] = c
          /\ \A s \in DOMAIN seen : s # "control" => seen'[s] = seen[s]
      BY <2>1, OneMoreAnswer
    <3>2. "control" \notin DOMAIN seen
      BY <1>3 DEF Baselines
    <3> QED BY <3>1, <3>2
  <2>2. CASE c = A!Lost /\ seen' = seen
    BY <2>2
  <2> QED BY <1>1, <2>1, <2>2
<1>5. A!TypeOK'
  BY <1>1, <1>2, <1>4, FindingMeans DEF A!TypeOK, A!Steps
<1>6. Asked' /\ WentOn'
  BY <1>2 DEF Asked, WentOn
<1>7. Answered'
  <2>1. Baselines \cap DOMAIN seen' = Baselines \cap DOMAIN seen
    BY <1>4 DEF Baselines
  <2> QED BY <1>2, <1>3, <1>4, <2>1, AnswersStay
<1> DEFINE p == seen["primary"]
<1>8. seen'["primary"] = p /\ seen'["repeat"] = seen["repeat"]
      /\ seen'["baseline 1"] = seen["baseline 1"] /\ seen'["baseline 2"] = seen["baseline 2"]
  BY <1>3, <1>4 DEF Baselines
<1>9. /\ p # A!Lost /\ A!Classify(p) = "allowed"
      /\ ~ (A!Established /\ A!Matches(seen["baseline 2"], p))
      /\ p.type # "html" /\ ~ p.cached
      /\ A!Classify(seen["repeat"]) = "allowed"
  BY <1>2, JudgeMeans, ConfirmationMeans DEF WentOn
<1>10. IsAnswer(p)
  BY <1>3 DEF Answered
<1>11. A!CleanMeansRefused'
  BY <1>2, FindingMeans DEF A!CleanMeansRefused
<1>12. A!ConfirmedIsTrue'
  <2> SUFFICES ASSUME result'.state = "confirmed", A!Untroubled'
               PROVE  \A s \in {"primary", "control"} :
                        (A!Got(s, "resource")' \/ A!Got(s, "guest")') /\ ~ seen'[s].cached
    BY DEF A!ConfirmedIsTrue
  <2>1. A!Corroborates(c)
    BY <1>2, FindingMeans
  <2>2. c # A!Lost /\ ~ c.cached /\ p.type = "json" /\ A!Shape(p) = A!Shape(c)
        /\ A!Shape(p) # "none"
    BY <2>1 DEF A!Corroborates, A!Equivalent
  <2>3. p.content # "page"
    <3> SUFFICES ASSUME p.content = "page" PROVE FALSE
      OBVIOUS
    <3>1. IsPage(p) /\ unknown = "page"
      <4>1. IsPage(p)
        BY <1>9, <1>10 DEF IsAnswer
      <4>2. unknown # "shifting" /\ unknown \in Unrouted
        BY <1>2 DEF A!Untroubled, A!TypeOK
      <4> QED BY <4>1, <4>2 DEF IsPage
    <3>2. ASSUME NEW s \in Baselines PROVE seen[s].status \notin {429, 503} /\ IsPage(seen[s])
      <4>1. seen'[s].status \notin {429, 503} /\ seen'[s] = seen[s]
        <5>1. seen'["baseline 1"].status \notin {429, 503} /\ seen'["baseline 2"].status \notin {429, 503}
          BY DEF A!Untroubled
        <5>2. s = "baseline 1" \/ s = "baseline 2"
          BY DEF Baselines
        <5>3. seen'["baseline 1"] = seen["baseline 1"] /\ seen'["baseline 2"] = seen["baseline 2"]
          BY <1>8
        <5>4. CASE s = "baseline 1"
          BY <5>1, <5>3, <5>4, Zenon
        <5>5. CASE s = "baseline 2"
          BY <5>1, <5>3, <5>5, Zenon
        <5> QED BY <5>2, <5>4, <5>5
      <4>2. IsBaseline(seen[s]) /\ seen[s] # A!Lost
        BY <1>2, <1>3 DEF Answered
      <4> QED BY <3>1, <4>1, <4>2 DEF IsBaseline
    <3>3. /\ IsPage(seen["baseline 1"]) /\ IsPage(seen["baseline 2"])
      BY <3>2 DEF Baselines
    <3> HIDE DEF p
    <3>4. A!Established /\ A!Matches(seen["baseline 2"], p)
      BY <3>1, <3>3 DEF A!Established, A!Matches, IsPage
    <3> QED BY <1>9, <3>4
  <2>4. p.content \in {"guest", "resource"}
    <3>1. p.content # "login" /\ p.content # "none"
      BY <1>9, <1>10, <2>2 DEF IsAnswer, A!Shape
    <3> QED BY <1>9, <1>10, <2>3, <3>1 DEF IsAnswer
  <2>5. c.content \in {"guest", "resource"}
    BY <2>2, <2>4 DEF A!Shape
  <2>6. (A!Got("primary", "resource")' \/ A!Got("primary", "guest")') /\ ~ seen'["primary"].cached
    <3>1. "primary" \in DOMAIN seen'
      BY <1>3, <1>4
    <3> HIDE DEF p
    <3> QED BY <1>8, <1>9, <2>4, <3>1 DEF A!Got
  <2>7. (A!Got("control", "resource")' \/ A!Got("control", "guest")') /\ ~ seen'["control"].cached
    BY <1>4, <2>2, <2>5 DEF A!Got
  <2> QED BY <2>6, <2>7
<1>13. A!FindingIsCorroborated'
  <2>1. A!Classify(seen["primary"])' = "allowed" /\ A!Classify(seen["repeat"])' = "allowed"
    <3> HIDE DEF p
    <3> QED BY <1>8, <1>9 DEF A!Classify
  <2>2. seen'["primary"].type # "html" /\ ~ seen'["primary"].cached
    <3> HIDE DEF p
    <3> QED BY <1>8, <1>9
  <2>3. result'.state = "confirmed" => result'.used
    BY <1>2, FindingMeans
  <2> QED BY <2>1, <2>2, <2>3 DEF A!FindingIsCorroborated
<1> QED BY <1>5, <1>6, <1>7, <1>11, <1>12, <1>13 DEF A!VerdictIsFounded

\* Nothing the invariant says but the types is about the target.
LEMMA CheckRests ==
  ASSUME CheckInv, UNCHANGED <<unknown, known, at, seen, result>>, A!TypeOK' PROVE CheckInv'
<1> USE DEF CheckInv
<1>1. Asked'
  BY DEF Asked
<1>2. Answered'
  BY DEF Answered, IsBaseline, IsAnswer, IsPage, IsResource, A!Classify
<1>3. WentOn'
  BY DEF WentOn, A!Judge, A!Discriminate, A!Established, A!Matches, A!Confirmation
<1>4. A!CleanMeansRefused'
  BY DEF A!VerdictIsFounded, A!CleanMeansRefused, A!Got
<1>5. A!ConfirmedIsTrue'
  <2>1. A!Untroubled' <=> A!Untroubled
    BY DEF A!Untroubled
  <2>2. \A s, content : A!Got(s, content)' <=> A!Got(s, content)
    BY DEF A!Got
  <2>3. A!ConfirmedIsTrue
    BY DEF A!VerdictIsFounded
  <2> QED BY <2>1, <2>2, <2>3, Zenon DEF A!ConfirmedIsTrue
<1>6. A!FindingIsCorroborated'
  BY DEF A!VerdictIsFounded, A!FindingIsCorroborated, A!Classify
<1> QED BY <1>1, <1>2, <1>3, <1>4, <1>5, <1>6 DEF A!VerdictIsFounded

\* The target changes while a request is awaited, or nothing does.
LEMMA ChangeKeeps == ASSUME CheckInv, A!Change PROVE CheckInv'
<1> USE DEF CheckInv
<1>1. /\ UNCHANGED <<unknown, known, at, seen, result>> /\ at # "done"
      /\ deploys < A!MaxDeploys /\ deploys' = deploys + 1
  BY DEF A!Change
<1>2. routed' \in BOOLEAN /\ open' \in BOOLEAN /\ limited' \in BOOLEAN /\ alive' \in BOOLEAN
  BY Zenon DEF A!Change, A!TypeOK
<1>3. deploys' \in 0 .. A!MaxDeploys
  BY <1>1 DEF A!TypeOK, A!MaxDeploys
<1>4. A!TypeOK'
  BY <1>1, <1>2, <1>3 DEF A!TypeOK
<1> QED BY <1>1, <1>4, CheckRests

LEMMA NothingCheckedKeeps == ASSUME CheckInv, UNCHANGED A!vars PROVE CheckInv'
<1>1. UNCHANGED <<routed, open, unknown, limited, alive, known, deploys, at, seen, result>>
  BY DEF A!vars
<1>2. A!TypeOK'
  BY <1>1 DEF CheckInv, A!TypeOK
<1> QED BY <1>1, <1>2, CheckRests

\* The declared-authentication check says of an operation what the answers show: clean on a
\* refusal, suspected on two successes, confirmed on what the identity was served as well,
\* whenever the target is deployed anew, limits rates or stops to accept the credential.
THEOREM VerdictsAreFounded == A!Spec => []VerdictIsFounded
<1>1. A!Init => CheckInv
  BY CheckStarts
<1>2. ASSUME CheckInv, A!Next PROVE CheckInv'
  <2>1. CASE A!Baseline("baseline 1", "baseline 2") \/ A!Baseline("baseline 2", "primary")
    BY <1>2, <2>1, BaselineKeeps
  <2>2. CASE A!Primary
    BY <1>2, <2>2, PrimaryKeeps
  <2>3. CASE A!Repeat
    BY <1>2, <2>3, RepeatKeeps
  <2>4. CASE A!Garbage
    BY <1>2, <2>4, GarbageKeeps
  <2>5. CASE A!Control
    BY <1>2, <2>5, ControlKeeps
  <2>6. CASE A!Change
    BY <1>2, <2>6, ChangeKeeps
  <2>7. CASE A!Returned
    BY <1>2, <2>7, NothingCheckedKeeps DEF A!Returned
  <2> QED BY <1>2, <2>1, <2>2, <2>3, <2>4, <2>5, <2>6, <2>7 DEF A!Next, A!Run
<1>3. CheckInv /\ UNCHANGED A!vars => CheckInv'
  BY NothingCheckedKeeps
<1>4. CheckInv => VerdictIsFounded
  BY DEF CheckInv, VerdictIsFounded
<1> QED BY <1>1, <1>2, <1>3, <1>4, PTL DEF A!Spec

HIDE AuthRequiredConstants DEF A!AuthRequiredAssumption

-----------------------------------------------------------------------------
(*                              Classification                             *)
-----------------------------------------------------------------------------
\* How one response is read, whoever asks.
LEMMA ReadingsAreOutcomes == \A r : C!Classify(r) \in C!Outcomes \cup C!Codes
<1> TAKE r
<1>1. C!ByStatus(r) \in C!Outcomes
  BY DEF C!ByStatus, C!Outcomes
<1>2. C!ByEnvelope(r) \in C!Outcomes \cup {C!Undecided}
  BY DEF C!ByEnvelope, C!Outcomes
<1>3. C!ByOperatorSignal(r) \in Mapped \cup {C!Undecided}
  BY DEF C!ByOperatorSignal
<1>4. Mapped \subseteq C!Codes
  BY ClassificationConstants DEF C!ClassificationAssumption, C!Codes
<1> QED BY <1>1, <1>2, <1>3, <1>4 DEF C!Classify, C!FirstDecided

\* The mapping is asked first, and only of a body.
LEMMA MappingIsFirst ==
  ASSUME NEW r \in Responses
  PROVE  /\ C!Classify(r) \in C!Outcomes
         /\ r.code \in Mapped => C!Classify(r) = r.code
         /\ r.code \notin Mapped => C!Classify(r) = C!FirstDecided(C!Undecided, C!ByEnvelope(r), C!ByStatus(r))
<1>1. r \in C!Response /\ (r.body # "object" => r.code = "none") /\ Mapped \subseteq {"denied", "not found"}
  BY ClassificationConstants DEF C!ClassificationAssumption, C!WellFormed
<1>2. r.code \in Mapped => r.body # "empty" /\ r.code # C!Undecided
  BY <1>1 DEF C!Undecided
<1>3. r.code \in Mapped => C!ByOperatorSignal(r) = r.code
  BY <1>2 DEF C!ByOperatorSignal
<1>4. r.code \notin Mapped => C!ByOperatorSignal(r) = C!Undecided
  BY DEF C!ByOperatorSignal
<1>5. C!ByStatus(r) \in C!Outcomes /\ C!ByEnvelope(r) \in C!Outcomes \cup {C!Undecided}
  BY DEF C!ByStatus, C!ByEnvelope, C!Outcomes
<1> QED BY <1>1, <1>2, <1>3, <1>4, <1>5 DEF C!Classify, C!FirstDecided, C!Outcomes

\* The arms of classifyByEnvelope.
LEMMA EnvelopeArms ==
  ASSUME NEW r
  PROVE  LET apt == C!Success(r) /\ r.body = "object" /\ r.type = "json"
             refusing == r.failed \/ r.text = "denial"
         IN  /\ ~ apt => C!ByEnvelope(r) = C!Undecided
             /\ apt /\ r.payload /\ refusing => C!ByEnvelope(r) = "indeterminate"
             /\ apt /\ r.payload /\ ~ refusing => C!ByEnvelope(r) = C!Undecided
             /\ apt /\ ~ r.payload /\ ~ refusing /\ r.text # "not found" =>
                  C!ByEnvelope(r) = C!Undecided
<1> DEFINE apt == C!Success(r) /\ r.body = "object" /\ r.type = "json"
           refusing == r.failed \/ r.text = "denial"
<1>1. ~ apt => C!ByEnvelope(r) = C!Undecided
  BY DEF C!ByEnvelope
<1>2. apt /\ r.payload /\ refusing => C!ByEnvelope(r) = "indeterminate"
  BY DEF C!ByEnvelope
<1>3. apt /\ r.payload /\ ~ refusing => C!ByEnvelope(r) = C!Undecided
  BY DEF C!ByEnvelope
<1>4. apt /\ ~ r.payload /\ ~ refusing /\ r.text # "not found" => C!ByEnvelope(r) = C!Undecided
  BY DEF C!ByEnvelope
<1> QED BY <1>1, <1>2, <1>3, <1>4

ReadInv ==
  /\ response \in Responses
  /\ outcome # C!Undecided => outcome = C!Classify(response)

LEMMA ReadInvFollows == ASSUME ReadInv PROVE C!ReadingIsJustified
<1> DEFINE r == response
<1>1. r \in Responses /\ r \in C!Response /\ C!WellFormed(r) /\ Mapped \subseteq {"denied", "not found"}
  BY ClassificationConstants DEF C!ClassificationAssumption, ReadInv
<1>2. C!TypeOK
  BY <1>1, MappingIsFirst DEF ReadInv, C!TypeOK
<1>3. C!MappingDecides
  <2> SUFFICES ASSUME outcome # C!Undecided
               PROVE  /\ r.code \in Mapped => outcome = r.code
                      /\ r.code \notin Mapped => C!Classify([r EXCEPT !.code = "none"]) = outcome
    BY DEF C!MappingDecides
  <2>1. outcome = C!Classify(r)
    BY DEF ReadInv
  <2> DEFINE s == [r EXCEPT !.code = "none"]
  <2>2. s.status = r.status /\ s.body = r.body /\ s.type = r.type /\ s.code = "none"
        /\ s.failed = r.failed /\ s.text = r.text /\ s.payload = r.payload
    BY <1>1 DEF C!Response
  <2> HIDE DEF s
  <2>3. C!ByEnvelope(s) = C!ByEnvelope(r) /\ C!ByStatus(s) = C!ByStatus(r)
    BY <2>2 DEF C!ByEnvelope, C!ByStatus, C!Success
  <2>4. C!ByOperatorSignal(s) = C!Undecided
    BY <1>1, <2>2 DEF C!ByOperatorSignal
  <2>5. C!Classify(s) = C!FirstDecided(C!Undecided, C!ByEnvelope(r), C!ByStatus(r))
    BY <2>3, <2>4 DEF C!Classify
  <2> QED BY <1>1, <2>1, <2>5, MappingIsFirst DEF s
<1>4. C!RefusalIsStated
  <2> SUFFICES ASSUME outcome \in {"denied", "not found"}, r.code \notin Mapped,
                      r.status \notin {401, 403, 404}
               PROVE  C!Success(r) /\ ~ r.payload /\ (r.failed \/ r.text # "plain")
    BY DEF C!RefusalIsStated
  <2>1. outcome = C!FirstDecided(C!Undecided, C!ByEnvelope(r), C!ByStatus(r))
    BY <1>1, MappingIsFirst DEF ReadInv, C!Undecided
  <2>2. C!ByStatus(r) \notin {"denied", "not found"}
    BY DEF C!ByStatus
  <2>3. C!ByEnvelope(r) \in {"denied", "not found"}
    BY <2>1, <2>2 DEF C!FirstDecided
  <2>4. C!ByEnvelope(r) # C!Undecided /\ C!ByEnvelope(r) # "indeterminate"
    BY <2>3 DEF C!Undecided
  <2> QED BY <2>4, EnvelopeArms
<1>5. C!ContentIsNeverDenied
  <2> SUFFICES ASSUME outcome = "allowed", r.payload, NEW failed \in BOOLEAN, NEW text \in C!Texts
               PROVE  C!Classify([r EXCEPT !.failed = failed, !.text = text])
                        \notin {"denied", "not found"}
    BY DEF C!ContentIsNeverDenied
  <2> DEFINE s == [r EXCEPT !.failed = failed, !.text = text]
  <2>1. s.status = r.status /\ s.body = r.body /\ s.type = r.type /\ s.code = r.code
        /\ s.payload
    BY <1>1 DEF C!Response
  <2> HIDE DEF s
  <2>2. r.code \notin Mapped /\ C!FirstDecided(C!Undecided, C!ByEnvelope(r), C!ByStatus(r)) = "allowed"
    BY <1>1, MappingIsFirst DEF ReadInv, C!Undecided
  <2>3. C!ByStatus(r) = "allowed"
    BY <2>2 DEF C!FirstDecided, C!ByEnvelope, C!Undecided
  <2>4. C!ByStatus(s) = "allowed"
    BY <2>1, <2>3 DEF C!ByStatus, C!Success
  <2>5. C!ByEnvelope(s) \notin {"denied", "not found"}
    <3>1. C!ByEnvelope(s) \in {C!Undecided, "indeterminate"}
      BY <2>1, EnvelopeArms
    <3> QED BY <3>1 DEF C!Undecided
  <2>6. C!ByOperatorSignal(s) = C!Undecided
    BY <2>1, <2>2 DEF C!ByOperatorSignal
  <2> QED BY <2>4, <2>5, <2>6 DEF C!Classify, C!FirstDecided, s
<1> QED BY <1>2, <1>3, <1>4, <1>5 DEF C!ReadingIsJustified

\* The operator's mapping decides; a refusal is stated by it, by the status or by a body that
\* holds nothing else; and content read as a success is a refusal under no wording.
THEOREM ResponsesAreReadAsTheyAre == C!Spec => []C!ReadingIsJustified
<1>1. C!Init => ReadInv
  BY DEF C!Init, ReadInv
<1>2. ReadInv /\ [C!Next]_C!vars => ReadInv'
  BY DEF ReadInv, C!Next, C!Decide, C!Decided, C!vars
<1>3. ReadInv => C!ReadingIsJustified
  BY ReadInvFollows
<1> QED BY <1>1, <1>2, <1>3, PTL DEF C!Spec

-----------------------------------------------------------------------------
(*                                 Evidence                                *)
-----------------------------------------------------------------------------
(* Documents and addresses.                                                *)

LEMMA SameFiniteSets == \A S : E!IsFiniteSet(S) <=> IsFiniteSet(S)
BY DEF E!IsFiniteSet, IsFiniteSet

LEMMA SameCardinalities == \A S : E!Cardinality(S) = Cardinality(S)
BY DEF E!Cardinality, Cardinality

\* An address and what is below it.
Under(b, a) == Len(b) <= Len(a) /\ \A k \in 1 .. Len(b) : a[k] = b[k]

LEMMA AddressIs ==
  ASSUME NEW d, E!IsDocument(d), NEW b \in DOMAIN d.node
  PROVE  b \in Seq(Nat) /\ Len(b) \in Nat /\ (b = <<>> <=> Len(b) = 0)
<1>1. b \in Seq(Nat)
  BY DEF E!IsDocument
<1> QED BY <1>1, LenProperties, EmptySeq

LEMMA ParentIs ==
  ASSUME NEW b \in Seq(Nat), b # <<>>
  PROVE  /\ E!Parent(b) \in Seq(Nat) /\ Len(E!Parent(b)) = Len(b) - 1
         /\ \A k \in 1 .. Len(b) - 1 : E!Parent(b)[k] = b[k]
<1>1. Len(b) \in Nat \ {0} /\ \A k \in 1 .. Len(b) : b[k] \in Nat
  BY EmptySeq, ElementOfSeq
<1>2. 1 \in Int /\ Len(b) - 1 \in Int /\ \A k \in 1 .. Len(b) - 1 : b[k] \in Nat
  BY <1>1
<1>3. /\ SubSeq(b, 1, Len(b) - 1) \in Seq(Nat)
      /\ Len(SubSeq(b, 1, Len(b) - 1)) = IF 1 <= Len(b) - 1 THEN Len(b) - 1 - 1 + 1 ELSE 0
      /\ \A k \in 1 .. Len(b) - 1 - 1 + 1 : SubSeq(b, 1, Len(b) - 1)[k] = b[1 + k - 1]
  BY <1>2, SubSeqProperties
<1>4. Len(b) - 1 - 1 + 1 = Len(b) - 1 /\ (1 > Len(b) - 1 => Len(b) - 1 = 0)
      /\ \A k \in 1 .. Len(b) - 1 : 1 + k - 1 = k
  <2> DEFINE n == Len(b)
  <2>1. n \in Nat /\ n # 0
    BY <1>1
  <2> HIDE DEF n
  <2>2. n - 1 - 1 + 1 = n - 1 /\ (1 > n - 1 => n - 1 = 0)
    BY <2>1
  <2>3. \A k \in Int : 1 + k - 1 = k
    OBVIOUS
  <2>4. 1 .. n - 1 \subseteq Int
    BY <2>1
  <2> QED BY <2>2, <2>3, <2>4 DEF n
<1> QED BY <1>1, <1>3, <1>4 DEF E!Parent

LEMMA KidIs ==
  ASSUME NEW d, E!IsDocument(d), NEW b \in DOMAIN d.node, NEW c \in E!Kids(d, b)
  PROVE  c \in DOMAIN d.node /\ c # <<>> /\ E!Parent(c) = b /\ Len(c) = Len(b) + 1
<1>1. c \in DOMAIN d.node /\ c # <<>> /\ E!Parent(c) = b
  BY DEF E!Kids
<1> QED BY <1>1, AddressIs, ParentIs

\* What is below a node and not the node is below one of its children.
LEMMA ChildTowards ==
  ASSUME NEW d, E!IsDocument(d), NEW b \in DOMAIN d.node, NEW a \in DOMAIN d.node,
         Under(b, a), a # b
  PROVE  \E c \in E!Kids(d, b) : Under(c, a)
<1>1. a \in Seq(Nat) /\ b \in Seq(Nat) /\ Len(a) \in Nat /\ Len(b) \in Nat
  BY AddressIs
<1>2. Len(b) < Len(a)
  <2>1. Len(b) = Len(a) => a = b
    BY <1>1, SeqEqual DEF Under
  <2> QED BY <1>1, <2>1 DEF Under
<1> DEFINE c == SubSeq(a, 1, Len(b) + 1)
<1>3. c \in DOMAIN d.node
  BY <1>1, <1>2 DEF E!IsDocument
<1>4. Len(c) = Len(b) + 1 /\ \A k \in 1 .. Len(b) + 1 : c[k] = a[k]
  <2>1. \A k \in 1 .. Len(b) + 1 : a[k] \in Nat
    BY <1>1, <1>2, ElementOfSeq
  <2>2. /\ Len(c) = IF 1 <= Len(b) + 1 THEN Len(b) + 1 - 1 + 1 ELSE 0
        /\ \A k \in 1 .. Len(b) + 1 - 1 + 1 : c[k] = a[1 + k - 1]
    BY <1>1, <2>1, SubSeqProperties
  <2> QED BY <1>1, <2>2
<1> HIDE DEF c
<1>5. c \in Seq(Nat) /\ c # <<>>
  BY <1>1, <1>3, <1>4, AddressIs
<1>6. E!Parent(c) = b
  <2>1. E!Parent(c) \in Seq(Nat) /\ Len(E!Parent(c)) = Len(b)
        /\ \A k \in 1 .. Len(b) : E!Parent(c)[k] = c[k]
    <3>1. Len(c) - 1 = Len(b)
      BY <1>1, <1>4
    <3> QED BY <1>5, <3>1, ParentIs
  <2>2. \A k \in 1 .. Len(b) : E!Parent(c)[k] = b[k]
    <3> SUFFICES ASSUME NEW k \in 1 .. Len(b) PROVE E!Parent(c)[k] = b[k]
      OBVIOUS
    <3>1. k \in 1 .. Len(b) + 1
      BY <1>1
    <3> QED BY <1>4, <2>1, <3>1 DEF Under
  <2> QED BY <1>1, <2>1, <2>2, SeqEqual
<1>7. Under(c, a)
  BY <1>1, <1>2, <1>4 DEF Under
<1> QED BY <1>3, <1>5, <1>6, <1>7 DEF E!Kids

LEMMA LeafIsAlone ==
  ASSUME NEW d, E!IsDocument(d), NEW b \in DOMAIN d.node, NEW a \in DOMAIN d.node,
         Under(b, a), E!Leaf(d, b)
  PROVE  a = b
BY ChildTowards DEF E!Leaf

LEMMA AllBelowRoot == \A a \in Seq(Nat) : Under(<<>>, a)
<1> TAKE a \in Seq(Nat)
<1>1. Len(a) \in Nat /\ Len(<<>>) = 0
  BY LenProperties, EmptySeq
<1> QED BY <1>1 DEF Under

-----------------------------------------------------------------------------
(* What a walk records.                                                    *)

RecordOf(d, a) == E!Record(d.path[asked.mode][a], d.node[a])
Recordings(d) == IF E!Shaping THEN E!Structure(d) ELSE E!Anchors(d)
Count(o) == IF E!Shaping THEN Cardinality(o) ELSE Cardinality({e[1] : e \in o})

LEMMA RecordingsAre ==
  ASSUME NEW d, asked.mode \in {"equivalence", "resource"}
  PROVE  \A x : x \in Recordings(d) <=> \E a \in E!Leaves(d) : x \in RecordOf(d, a)
<1>1. CASE asked.mode = "equivalence"
  BY <1>1 DEF Recordings, RecordOf, E!Shaping, E!Structure, E!Record
<1>2. CASE asked.mode = "resource"
  BY <1>2 DEF Recordings, RecordOf, E!Shaping, E!Anchors, E!Record
<1> QED BY <1>1, <1>2

LEMMA RecordOfOne ==
  ASSUME NEW d, NEW a
  PROVE  RecordOf(d, a) = {} \/ \E x : RecordOf(d, a) = {x}
BY DEF RecordOf, E!Record

LEMMA FirstsFinite ==
  ASSUME NEW o, IsFiniteSet(o)
  PROVE  IsFiniteSet({e[1] : e \in o})
<1> DEFINE T == {e[1] : e \in o}
           f == [e \in o |-> e[1]]
<1>1. f \in Surjection(o, T)
  BY DEF Surjection
<1> HIDE DEF T, f
<1>2. IsFiniteSet(T)
  BY <1>1, FS_Surjection
<1> QED BY <1>2 DEF T

LEMMA CountGrows ==
  ASSUME NEW p, IsFiniteSet(p), NEW o \in SUBSET p
  PROVE  IsFiniteSet(o) /\ Count(o) \in Nat /\ Count(p) \in Nat /\ Count(o) <= Count(p)
<1>1. IsFiniteSet(o) /\ Cardinality(o) <= Cardinality(p)
  BY FS_Subset
<1>2. IsFiniteSet({e[1] : e \in o}) /\ IsFiniteSet({e[1] : e \in p})
  BY <1>1, FirstsFinite
<1>3. {e[1] : e \in o} \in SUBSET {e[1] : e \in p}
  OBVIOUS
<1>4. Cardinality({e[1] : e \in o}) <= Cardinality({e[1] : e \in p})
  BY <1>2, <1>3, FS_Subset
<1>5. /\ Cardinality(o) \in Nat /\ Cardinality(p) \in Nat
      /\ Cardinality({e[1] : e \in o}) \in Nat /\ Cardinality({e[1] : e \in p}) \in Nat
  BY <1>1, <1>2, FS_CardinalityType
<1> QED BY <1>1, <1>4, <1>5 DEF Count

LEMMA CountAdds ==
  ASSUME NEW o, IsFiniteSet(o), NEW r, r = {} \/ \E x : r = {x}
  PROVE  IsFiniteSet(o \cup r) /\ Count(o \cup r) <= Count(o) + 1
<1>1. Count(o) \in Nat
  BY CountGrows
<1>2. CASE r = {}
  <2>1. o \cup r = o
    BY <1>2
  <2> QED BY <1>1, <2>1
<1>3. CASE r # {}
  <2>1. PICK x : r = {x}
    BY <1>3
  <2>2. IsFiniteSet(o \cup {x}) /\ Cardinality(o \cup {x}) <= Cardinality(o) + 1
    <3>1. Cardinality(o) \in Nat
      BY FS_CardinalityType
    <3> QED BY <3>1, FS_AddElement
  <2>3. {e[1] : e \in o \cup {x}} = {e[1] : e \in o} \cup {x[1]}
    OBVIOUS
  <2>4. Cardinality({e[1] : e \in o} \cup {x[1]}) <= Cardinality({e[1] : e \in o}) + 1
    <3>1. IsFiniteSet({e[1] : e \in o}) /\ Cardinality({e[1] : e \in o}) \in Nat
      BY FirstsFinite, FS_CardinalityType
    <3> QED BY <3>1, FS_AddElement
  <2> QED BY <2>1, <2>2, <2>3, <2>4 DEF Count
<1> QED BY <1>2, <1>3

LEMMA RecordingsFinite ==
  ASSUME NEW d, E!IsDocument(d)
  PROVE  IsFiniteSet(Recordings(d))
<1>1. IsFiniteSet(E!Leaves(d))
  <2>1. IsFiniteSet(DOMAIN d.node) /\ E!Leaves(d) \in SUBSET DOMAIN d.node
    <3>1. IsFiniteSet(DOMAIN d.node)
      BY SameFiniteSets, Zenon DEF E!IsDocument
    <3> QED BY <3>1 DEF E!Leaves
  <2> QED BY <2>1, FS_Subset
<1> DEFINE S == {b \in E!Leaves(d) : E!Scalar(d.node[b])}
<1>2. IsFiniteSet(S)
  BY <1>1, FS_Subset
<1>3. IsFiniteSet(E!Structure(d))
  <2> DEFINE f == [a \in E!Leaves(d) |-> Append(d.path["equivalence"][a], d.node[a].kind)]
  <2>1. f \in Surjection(E!Leaves(d), E!Structure(d))
    BY DEF Surjection, E!Structure
  <2> HIDE DEF f
  <2> QED BY <1>1, <2>1, FS_Surjection
<1>4. IsFiniteSet(E!Anchors(d))
  <2> DEFINE f == [a \in S |-> <<d.node[a].value, d.path["resource"][a]>>]
  <2>1. f \in Surjection(S, E!Anchors(d))
    BY DEF Surjection, E!Anchors
  <2> HIDE DEF f, S
  <2> QED BY <1>2, <2>1, FS_Surjection
<1> QED BY <1>3, <1>4 DEF Recordings

-----------------------------------------------------------------------------
(* The walk.                                                               *)

\* What is on the stack: nodes of the document, each frame those one level below the last.
Frame(d) ==
  [path : {d.path[asked.mode][a] : a \in DOMAIN d.node}, left : SUBSET DOMAIN d.node]
Framed(d, s) ==
  /\ s \in Seq(Frame(d)) /\ s # <<>>
  /\ \A j \in 1 .. Len(s) : \A b \in s[j].left :
       Len(b) = j - 1 /\ b # <<>> /\ d.path[asked.mode][E!Parent(b)] = s[j].path

\* Each leaf has been recorded or is below something still to be visited.
Ahead(s, a) == \E j \in 1 .. Len(s) : \E b \in s[j].left : Under(b, a)
Covered(d, s, o) == \A a \in E!Leaves(d) : RecordOf(d, a) \subseteq o \/ Ahead(s, a)

InWalk ==
  stack # <<>> =>
    /\ E!Walking /\ E!Document(walking)
    /\ Framed(E!Doc, stack)
    /\ Covered(E!Doc, stack, out)
    /\ out \subseteq Recordings(E!Doc)

InBounds ==
  /\ IsFiniteSet(out)
  /\ Count(out) <= MaxShapePaths + 1
  /\ Len(stack) <= MaxShapeDepth + 2
  /\ stack = <<>> => out = {}

\* A walk that ended well recorded all of its document; one that did not had a reason.
TooMuch(d) == E!Deep(d) \/ Count(Recordings(d)) > MaxShapePaths
Walked ==
  /\ DOMAIN walks = {1, 2}
  /\ \A i \in {1, 2} : walks[i].ok \in BOOLEAN
  /\ \A i \in {1, 2} : i < walking =>
       IF walks[i].ok THEN E!Document(i) /\ walks[i].out = Recordings(E!Body(i).doc)
       ELSE ~ E!Document(i) \/ TooMuch(E!Body(i).doc)

\* What let the walks begin.
MayWalk ==
  walking > 0 => IF E!Shaping THEN E!SameKind /\ E!Modellable(1) /\ E!Modellable(2)
                 ELSE ~ E!CutShort

Asking ==
  /\ asked \in Comparisons
  /\ walking \in 0 .. 3
  /\ verdict \in {"open", "yes", "no"}

EvidenceInv ==
  /\ Asking /\ InWalk /\ InBounds /\ Walked /\ MayWalk
  /\ E!EquivalenceIsExact /\ E!ResourceIsProven

LEMMA Questions ==
  ASSUME asked \in Comparisons
  PROVE  /\ asked.mode \in {"equivalence", "resource"}
         /\ MaxShapeDepth \in Nat /\ MaxShapePaths \in Nat
         /\ \A i : E!IsDocument(E!Body(i).doc)
         /\ E!IsDocument(E!Doc)
BY EvidenceConstants DEF E!EvidenceAssumption, E!Modes, E!Response, E!Body, E!Doc

LEMMA ComparisonStarts == ASSUME E!Init PROVE EvidenceInv
<1>1. asked \in Comparisons /\ walking = 0 /\ stack = <<>> /\ out = {} /\ verdict = "open"
      /\ walks = <<E!NotWalked, E!NotWalked>>
  BY DEF E!Init
<1>2. Asking /\ InWalk /\ MayWalk /\ E!EquivalenceIsExact /\ E!ResourceIsProven
  BY <1>1 DEF Asking, InWalk, MayWalk, E!EquivalenceIsExact, E!ResourceIsProven
<1>3. Walked
  <2>1. DOMAIN walks = {1, 2} /\ \A i \in {1, 2} : walks[i] = E!NotWalked
    BY <1>1
  <2>2. \A i \in {1, 2} : walks[i].ok = FALSE /\ ~ (i < walking)
    BY <1>1, <2>1 DEF E!NotWalked
  <2> QED BY <2>1, <2>2, Zenon DEF Walked
<1>4. InBounds
  <2>1. Count({}) = 0
    <3>1. {e[1] : e \in {}} = {}
      OBVIOUS
    <3> QED BY <3>1, FS_EmptySet DEF Count
  <2> QED BY <1>1, <2>1, FS_EmptySet, Questions, EmptySeq DEF InBounds
<1> QED BY <1>2, <1>3, <1>4 DEF EvidenceInv

\* The end of a walk, with all of a document or with a reason.
LEMMA EndWalkKeeps ==
  ASSUME EvidenceInv, E!Walking, NEW ok \in BOOLEAN, NEW all, E!EndWalk(ok, all),
         IF ok THEN E!Document(walking) /\ all = Recordings(E!Doc)
         ELSE ~ E!Document(walking) \/ TooMuch(E!Doc)
  PROVE  EvidenceInv'
<1>1. asked' = asked /\ verdict' = verdict /\ walking' = walking + 1 /\ stack' = <<>> /\ out' = {}
      /\ walks' = [walks EXCEPT ![walking] = [ok |-> ok, out |-> all]]
  BY DEF E!EndWalk
<1>2. walking \in {1, 2} /\ verdict = "open" /\ asked \in Comparisons /\ DOMAIN walks = {1, 2}
  BY DEF E!Walking, EvidenceInv, Asking, Walked
<1>3. Asking' /\ InWalk' /\ E!EquivalenceIsExact' /\ E!ResourceIsProven'
  BY <1>1, <1>2 DEF Asking, InWalk, E!EquivalenceIsExact, E!ResourceIsProven
<1>4. MayWalk'
  BY <1>1, <1>2 DEF EvidenceInv, MayWalk, E!Shaping, E!SameKind, E!Modellable, E!CutShort,
                    E!Response
<1>5. InBounds'
  <2>1. Count({})' = 0
    <3>1. {e[1] : e \in {}} = {}
      OBVIOUS
    <3> QED BY <3>1, FS_EmptySet DEF Count
  <2> QED BY <1>1, <1>2, <2>1, FS_EmptySet, Questions, EmptySeq DEF InBounds
<1>6. Walked'
  <2>1. \A i \in {1, 2} : walks'[i] = IF i = walking THEN [ok |-> ok, out |-> all] ELSE walks[i]
    BY <1>1, <1>2
  <2>2. DOMAIN walks' = {1, 2}
    BY <1>1, <1>2
  <2>3. \A i \in {1, 2} : /\ E!Document(i)' <=> E!Document(i)
                          /\ E!Body(i)' = E!Body(i)
                          /\ Recordings(E!Body(i).doc)' = Recordings(E!Body(i).doc)
                          /\ TooMuch(E!Body(i).doc)' <=> TooMuch(E!Body(i).doc)
    BY <1>1 DEF E!Document, E!Body, E!Response, Recordings, TooMuch, E!Shaping, Count,
                E!Structure, E!Anchors, E!Leaves, E!Deep
  <2>4. \A i \in {1, 2} : i < walking' => i < walking \/ i = walking
    BY <1>1, <1>2
  <2>5. E!Doc = E!Body(walking).doc
    BY DEF E!Doc
  <2> QED BY <1>2, <2>1, <2>2, <2>3, <2>4, <2>5 DEF EvidenceInv, Walked
<1> QED BY <1>3, <1>4, <1>5, <1>6 DEF EvidenceInv

\* A step within a walk.
LEMMA StillWalking ==
  ASSUME EvidenceInv, E!Walking, UNCHANGED <<asked, walking, walks, verdict>>,
         InWalk', InBounds'
  PROVE  EvidenceInv'
<1>1. verdict' = "open"
  BY DEF E!Walking
<1>2. E!EquivalenceIsExact' /\ E!ResourceIsProven'
  BY <1>1 DEF E!EquivalenceIsExact, E!ResourceIsProven
<1>3. Asking' /\ MayWalk'
  BY DEF EvidenceInv, Asking, MayWalk, E!Shaping, E!SameKind, E!Modellable, E!CutShort, E!Response
<1>4. Walked'
  <2>1. \A i \in {1, 2} : /\ E!Document(i)' <=> E!Document(i)
                          /\ E!Body(i)' = E!Body(i)
                          /\ Recordings(E!Body(i).doc)' = Recordings(E!Body(i).doc)
                          /\ TooMuch(E!Body(i).doc)' <=> TooMuch(E!Body(i).doc)
    BY DEF E!Document, E!Body, E!Response, Recordings, TooMuch, E!Shaping, Count,
           E!Structure, E!Anchors, E!Leaves, E!Deep
  <2> QED BY <2>1 DEF EvidenceInv, Walked
<1> QED BY <1>2, <1>3, <1>4 DEF EvidenceInv

\* Entering a node whose leaves are the only ones neither recorded nor below what is left.
LEMMA EnterKeeps ==
  ASSUME EvidenceInv, E!Walking, E!Document(walking),
         NEW b \in DOMAIN E!Doc.node, NEW rest, Framed(E!Doc, rest), Len(rest) = Len(b) + 1,
         out \subseteq Recordings(E!Doc),
         \A a \in E!Leaves(E!Doc) : RecordOf(E!Doc, a) \subseteq out \/ Ahead(rest, a) \/ Under(b, a),
         E!Enter(E!Doc.path[asked.mode][b], b, rest)
  PROVE  EvidenceInv'
<1> DEFINE d == E!Doc
           path == d.path[asked.mode][b]
<1>1. /\ asked.mode \in {"equivalence", "resource"} /\ E!IsDocument(d)
      /\ MaxShapeDepth \in Nat /\ MaxShapePaths \in Nat
  BY Questions DEF EvidenceInv, Asking
<1>2. b \in Seq(Nat) /\ Len(b) \in Nat
  BY <1>1, AddressIs
<1>3. E!Recorded = Count(out) /\ Count(out) \in Nat
  BY SameCardinalities, CountGrows DEF E!Recorded, Count, EvidenceInv, InBounds
<1>4. CASE E!TooLarge(Len(rest) - 1)
  <2>1. E!EndWalk(FALSE, out)
    BY <1>4 DEF E!Enter, E!WhenTooLarge
  <2>2. TooMuch(d)
    <3>1. CASE Len(b) > MaxShapeDepth
      BY <3>1 DEF TooMuch, E!Deep
    <3>2. CASE Count(out) > MaxShapePaths
      <4>1. Count(Recordings(d)) \in Nat /\ Count(out) <= Count(Recordings(d))
        BY <1>1, RecordingsFinite, CountGrows
      <4> QED BY <1>1, <1>3, <3>2, <4>1 DEF TooMuch
    <3> QED BY <1>2, <1>3, <1>4, <3>1, <3>2 DEF E!TooLarge
  <2> QED BY <2>1, <2>2, EndWalkKeeps
<1>5. CASE ~ E!TooLarge(Len(rest) - 1) /\ E!Leaf(d, b)
  <2>1. /\ out' = out \cup RecordOf(d, b) /\ stack' = rest
        /\ UNCHANGED <<asked, walking, walks, verdict>>
    BY <1>5 DEF E!Enter, RecordOf
  <2>2. d' = d
    BY <2>1 DEF E!Doc, E!Body, E!Response
  <2> HIDE DEF d
  <2>3. b \in E!Leaves(d)
    BY <1>5 DEF E!Leaves, d
  <2>4. InBounds'
    <3>1. IsFiniteSet(out) /\ Count(out) <= MaxShapePaths /\ Len(rest) <= MaxShapeDepth + 2
      BY <1>1, <1>2, <1>3, <1>5 DEF E!TooLarge, EvidenceInv, InBounds
    <3>2. IsFiniteSet(out') /\ Count(out \cup RecordOf(d, b)) <= Count(out) + 1
      BY <2>1, <3>1, CountAdds, RecordOfOne
    <3>3. Count(out)' = Count(out \cup RecordOf(d, b))
      BY <2>1 DEF Count, E!Shaping
    <3>4. Count(out \cup RecordOf(d, b)) \in Nat
      BY <2>1, <3>2, CountGrows
    <3> QED BY <1>1, <1>3, <2>1, <3>1, <3>2, <3>3, <3>4 DEF InBounds, Framed, d
  <2>5. Covered(d, rest, out \cup RecordOf(d, b))
    <3> SUFFICES ASSUME NEW a \in E!Leaves(d)
                 PROVE  RecordOf(d, a) \subseteq out \cup RecordOf(d, b) \/ Ahead(rest, a)
      BY DEF Covered
    <3>1. CASE Under(b, a)
      BY <1>1, <1>5, <3>1, LeafIsAlone DEF E!Leaves, d
    <3> QED BY <3>1 DEF d
  <2>6. out' \subseteq Recordings(d)
    <3>1. RecordOf(d, b) \subseteq Recordings(d)
      BY <1>1, <2>3, RecordingsAre
    <3> QED BY <2>1, <3>1 DEF d
  <2>7. InWalk'
    <3>1. (E!Walking /\ E!Document(walking))'
      BY <2>1 DEF E!Walking, E!Document, E!Body, E!Response
    <3>2. Framed(d, rest)'
      BY <2>1, <2>2 DEF Framed, Frame, d
    <3>3. Covered(d, rest, out)'
      BY <2>1, <2>2, <2>5 DEF Covered, Ahead, RecordOf, E!Record, E!Shaping
    <3>4. (out \subseteq Recordings(d))'
      BY <2>1, <2>2, <2>6 DEF Recordings, E!Shaping
    <3> QED BY <2>1, <2>2, <3>1, <3>2, <3>3, <3>4 DEF InWalk, d
  <2> QED BY <2>1, <2>4, <2>7, StillWalking
<1>6. CASE ~ E!TooLarge(Len(rest) - 1) /\ ~ E!Leaf(d, b)
  <2> DEFINE top == [path |-> path, left |-> E!Kids(d, b)]
             s == Append(rest, top)
  <2>1. stack' = s /\ UNCHANGED <<asked, walking, out, walks, verdict>>
    BY <1>6 DEF E!Enter
  <2>2. d' = d
    BY <2>1 DEF E!Doc, E!Body, E!Response
  <2>3. rest \in Seq(Frame(d)) /\ Len(rest) \in Nat /\ top \in Frame(d)
    BY LenProperties DEF Framed, Frame, E!Kids
  <2>4. /\ s \in Seq(Frame(d)) /\ s # <<>> /\ Len(s) = Len(rest) + 1
        /\ \A j \in 1 .. Len(rest) : s[j] = rest[j]
        /\ s[Len(rest) + 1] = top
    BY <2>3, AppendProperties
  <2> HIDE DEF s
  <2>5. Framed(d, s)
    <3> SUFFICES ASSUME NEW j \in 1 .. Len(s), NEW c \in s[j].left
                 PROVE  Len(c) = j - 1 /\ c # <<>> /\ d.path[asked.mode][E!Parent(c)] = s[j].path
      BY <2>4 DEF Framed
    <3>1. CASE j \in 1 .. Len(rest)
      BY <2>4, <3>1 DEF Framed
    <3>2. CASE j = Len(rest) + 1
      <4>1. c \in E!Kids(d, b) /\ s[j].path = path
        BY <2>4, <3>2
      <4>2. c # <<>> /\ E!Parent(c) = b /\ Len(c) = Len(b) + 1
        BY <1>1, <4>1, KidIs
      <4> QED BY <1>2, <2>3, <3>2, <4>1, <4>2
    <3> QED BY <2>3, <2>4, <3>1, <3>2
  <2>6. Covered(d, s, out)
    <3> SUFFICES ASSUME NEW a \in E!Leaves(d), ~ (RecordOf(d, a) \subseteq out)
                 PROVE  Ahead(s, a)
      BY DEF Covered
    <3>1. CASE Ahead(rest, a)
      <4>1. PICK j \in 1 .. Len(rest) : \E c \in rest[j].left : Under(c, a)
        BY <3>1 DEF Ahead
      <4>2. j \in 1 .. Len(s) /\ s[j] = rest[j]
        BY <2>3, <2>4
      <4> QED BY <4>1, <4>2 DEF Ahead
    <3>2. CASE Under(b, a)
      <4>1. a # b /\ a \in DOMAIN d.node
        BY <1>6 DEF E!Leaves
      <4>2. \E c \in E!Kids(d, b) : Under(c, a)
        BY <1>1, <3>2, <4>1, ChildTowards
      <4>3. Len(rest) + 1 \in 1 .. Len(s)
        BY <2>3, <2>4
      <4> QED BY <2>4, <4>2, <4>3 DEF Ahead
    <3> QED BY <3>1, <3>2
  <2>7. InWalk'
    <3> HIDE DEF d
    <3>1. (E!Walking /\ E!Document(walking))'
      BY <2>1 DEF E!Walking, E!Document, E!Body, E!Response
    <3>2. Framed(d, stack)'
      BY <2>1, <2>2, <2>5 DEF Framed, Frame
    <3>3. Covered(d, stack, out)'
      BY <2>1, <2>2, <2>6 DEF Covered, Ahead, RecordOf, E!Record, E!Shaping
    <3>4. (out \subseteq Recordings(d))'
      BY <2>1, <2>2 DEF Recordings, E!Shaping, d
    <3> QED BY <2>1, <2>2, <3>1, <3>2, <3>3, <3>4 DEF InWalk, d
  <2>8. InBounds'
    <3>1. Len(s) <= MaxShapeDepth + 2
      BY <1>1, <1>2, <1>6, <2>4 DEF E!TooLarge
    <3> QED BY <2>1, <2>4, <3>1 DEF InBounds, EvidenceInv, Count, E!Shaping
  <2> QED BY <2>1, <2>7, <2>8, StillWalking
<1> QED BY <1>4, <1>5, <1>6

LEMMA StartWalkKeeps == ASSUME EvidenceInv, E!StartWalk PROVE EvidenceInv'
<1> DEFINE d == E!Doc
<1>1. asked.mode \in {"equivalence", "resource"} /\ E!IsDocument(d)
  BY Questions DEF EvidenceInv, Asking
<1>2. E!Walking /\ stack = <<>> /\ out = {}
  BY DEF E!StartWalk, EvidenceInv, InBounds
<1>3. CASE E!Document(walking)
  <2>1. <<>> \in DOMAIN d.node /\ d.path[asked.mode][<<>>] = <<>>
    BY <1>1 DEF E!IsDocument, E!Modes
  <2>2. E!Enter(d.path[asked.mode][<<>>], <<>>, E!Outside)
    BY <1>3, <2>1 DEF E!StartWalk, E!Document
  <2>3. Len(E!Outside) = 1 /\ Len(<<>>) = 0 /\ E!Outside[1] = [path |-> <<>>, left |-> {}]
    BY DEF E!Outside
  <2>4. Framed(d, E!Outside)
    <3>1. [path |-> <<>>, left |-> {}] \in Frame(d)
      BY <2>1 DEF Frame
    <3>2. E!Outside \in Seq(Frame(d)) /\ E!Outside # <<>>
      BY <3>1 DEF E!Outside
    <3> QED BY <2>3, <3>2 DEF Framed
  <2>5. \A a \in E!Leaves(d) : Under(<<>>, a)
    BY <1>1, AddressIs, AllBelowRoot DEF E!Leaves
  <2>6. Len(E!Outside) = Len(<<>>) + 1
    BY <2>3
  <2>7. out \subseteq Recordings(d)
    BY <1>2
  <2>8. \A a \in E!Leaves(d) :
          RecordOf(d, a) \subseteq out \/ Ahead(E!Outside, a) \/ Under(<<>>, a)
    BY <2>5
  <2> QED BY <1>2, <1>3, <2>1, <2>2, <2>4, <2>6, <2>7, <2>8, EnterKeeps
<1>4. CASE ~ E!Document(walking)
  <2>1. E!EndWalk(FALSE, {})
    BY <1>4 DEF E!StartWalk, E!Document
  <2> QED BY <1>2, <1>4, <2>1, EndWalkKeeps
<1> QED BY <1>3, <1>4

LEMMA VisitKeeps == ASSUME EvidenceInv, E!Visit PROVE EvidenceInv'
<1> DEFINE d == E!Doc
           n == Len(stack)
<1>1. asked.mode \in {"equivalence", "resource"} /\ E!IsDocument(d)
  BY Questions DEF EvidenceInv, Asking
<1>2. /\ E!Walking /\ E!Document(walking) /\ Framed(d, stack) /\ Covered(d, stack, out)
      /\ out \subseteq Recordings(d)
  BY DEF E!Visit, EvidenceInv, InWalk
<1>3. stack \in Seq(Frame(d)) /\ n \in Nat /\ n # 0 /\ n \in 1 .. n
  BY <1>2, LenProperties, EmptySeq DEF Framed
<1>4. PICK b \in E!NextOf(E!Top.left) :
        E!Enter(E!ChildPath(E!Top.path, b), b, [stack EXCEPT ![n].left = @ \ {b}])
  BY DEF E!Visit
<1> DEFINE rest == [stack EXCEPT ![n].left = @ \ {b}]
           top == [stack[n] EXCEPT !.left = @ \ {b}]
<1>5. b \in stack[n].left /\ stack[n] \in Frame(d)
  BY <1>3, <1>4, ElementOfSeq DEF E!NextOf, E!Top
<1>6. b \in DOMAIN d.node /\ Len(b) = n - 1 /\ b # <<>>
      /\ d.path[asked.mode][E!Parent(b)] = stack[n].path
  BY <1>2, <1>3, <1>5 DEF Framed, Frame
<1>7. E!ChildPath(E!Top.path, b) = d.path[asked.mode][b]
  BY <1>1, <1>6 DEF E!IsDocument, E!Modes, E!ChildPath, E!Top
<1>8. top \in Frame(d) /\ top.path = stack[n].path /\ top.left = stack[n].left \ {b}
  BY <1>5 DEF Frame
<1>9. /\ rest \in Seq(Frame(d)) /\ Len(rest) = n
      /\ \A j \in 1 .. n : rest[j] = IF j = n THEN top ELSE stack[j]
  <2>1. rest = [stack EXCEPT ![n] = top]
    OBVIOUS
  <2>2. n \in 1 .. Len(stack) /\ stack \in Seq(Frame(d)) /\ top \in Frame(d)
    BY <1>3, <1>8
  <2> HIDE DEF top
  <2>3. /\ [stack EXCEPT ![n] = top] \in Seq(Frame(d))
        /\ Len([stack EXCEPT ![n] = top]) = Len(stack)
        /\ \A j \in 1 .. Len(stack) :
             [stack EXCEPT ![n] = top][j] = IF j = n THEN top ELSE stack[j]
    BY <2>2, ExceptSeq
  <2> QED BY <2>1, <2>3
<1> HIDE DEF rest, top
<1>10. Framed(d, rest)
  <2>1. rest # <<>>
    BY <1>3, <1>9, EmptySeq
  <2> SUFFICES ASSUME NEW j \in 1 .. n, NEW c \in rest[j].left
               PROVE  Len(c) = j - 1 /\ c # <<>> /\ d.path[asked.mode][E!Parent(c)] = rest[j].path
    BY <1>9, <2>1 DEF Framed
  <2>2. c \in stack[j].left /\ rest[j].path = stack[j].path
    BY <1>8, <1>9
  <2> QED BY <1>2, <2>2 DEF Framed
<1>11. \A a \in E!Leaves(d) : RecordOf(d, a) \subseteq out \/ Ahead(rest, a) \/ Under(b, a)
  <2> SUFFICES ASSUME NEW a \in E!Leaves(d), Ahead(stack, a), ~ Under(b, a)
               PROVE  Ahead(rest, a)
    BY <1>2 DEF Covered
  <2>0. PICK j \in 1 .. n : \E c \in stack[j].left : Under(c, a)
    BY DEF Ahead
  <2>1. PICK c \in stack[j].left : Under(c, a)
    BY <2>0
  <2>2. c \in rest[j].left
    BY <1>8, <1>9, <2>1
  <2> QED BY <1>9, <2>1, <2>2 DEF Ahead
<1>12. Len(rest) = Len(b) + 1
  BY <1>3, <1>6, <1>9
<1>13. E!Enter(d.path[asked.mode][b], b, rest)
  BY <1>4, <1>7 DEF rest
<1> HIDE DEF n
<1> QED BY <1>2, <1>6, <1>10, <1>11, <1>12, <1>13, EnterKeeps

LEMMA LeaveKeeps == ASSUME EvidenceInv, E!Leave PROVE EvidenceInv'
<1> DEFINE d == E!Doc
           n == Len(stack)
<1>1. asked.mode \in {"equivalence", "resource"} /\ E!IsDocument(d)
  BY Questions DEF EvidenceInv, Asking
<1>2. /\ E!Walking /\ E!Document(walking) /\ Framed(d, stack) /\ Covered(d, stack, out)
      /\ out \subseteq Recordings(d) /\ stack[n].left = {}
  BY DEF E!Leave, E!Top, EvidenceInv, InWalk
<1>3. stack \in Seq(Frame(d)) /\ n \in Nat /\ n # 0
  BY <1>2, LenProperties, EmptySeq DEF Framed
<1>4. CASE n = 1
  <2>1. E!EndWalk(TRUE, out)
    BY <1>4 DEF E!Leave
  <2>2. \A a \in E!Leaves(d) : RecordOf(d, a) \subseteq out
    BY <1>2, <1>4 DEF Covered, Ahead
  <2>3. out = Recordings(d)
    <3>1. \A x : x \in Recordings(d) <=> \E a \in E!Leaves(d) : x \in RecordOf(d, a)
      BY <1>1, RecordingsAre
    <3>2. Recordings(d) \subseteq out
      BY <2>2, <3>1
    <3> QED BY <1>2, <3>2
  <2> HIDE DEF n
  <2> QED BY <1>2, <2>1, <2>3, EndWalkKeeps
<1>5. CASE n # 1
  <2> DEFINE s == SubSeq(stack, 1, n - 1)
  <2>1. stack' = s /\ UNCHANGED <<asked, walking, out, walks, verdict>>
    BY <1>5 DEF E!Leave
  <2>2. s \in Seq(Frame(d)) /\ Len(s) = n - 1 /\ \A j \in 1 .. n - 1 : s[j] = stack[j]
    <3>1. 1 <= n - 1 /\ n - 1 - 1 + 1 = n - 1 /\ 1 \in Int /\ n - 1 \in Int
      BY <1>3, <1>5
    <3>2. \A j \in 1 .. n - 1 : 1 + j - 1 = j
      BY <1>3
    <3>3. \A j \in 1 .. n - 1 : stack[j] \in Frame(d)
      BY <1>3, ElementOfSeq
    <3> HIDE DEF n
    <3>4. /\ SubSeq(stack, 1, n - 1) \in Seq(Frame(d))
          /\ Len(SubSeq(stack, 1, n - 1)) = IF 1 <= n - 1 THEN n - 1 - 1 + 1 ELSE 0
          /\ \A j \in 1 .. n - 1 - 1 + 1 : SubSeq(stack, 1, n - 1)[j] = stack[1 + j - 1]
      BY <3>1, <3>3, SubSeqProperties
    <3> QED BY <3>1, <3>2, <3>4
  <2> HIDE DEF s
  <2>3. d' = d
    BY <2>1 DEF E!Doc, E!Body, E!Response
  <2>4. Framed(d, s)
    <3>1. s # <<>>
      BY <1>3, <1>5, <2>2, EmptySeq
    <3>2. \A j \in 1 .. n - 1 : j \in 1 .. n
      BY <1>3
    <3> QED BY <1>2, <2>2, <3>1, <3>2 DEF Framed
  <2>5. Covered(d, s, out)
    <3> SUFFICES ASSUME NEW a \in E!Leaves(d), Ahead(stack, a)
                 PROVE  Ahead(s, a)
      BY <1>2 DEF Covered
    <3>0. PICK j \in 1 .. n : \E c \in stack[j].left : Under(c, a)
      BY DEF Ahead
    <3>1. PICK c \in stack[j].left : Under(c, a)
      BY <3>0
    <3>2. j \in 1 .. n - 1
      BY <1>2, <1>3, <3>1
    <3> QED BY <2>2, <3>1, <3>2 DEF Ahead
  <2>6. InWalk'
    <3> HIDE DEF d, n
    <3>1. (E!Walking /\ E!Document(walking))'
      BY <1>2, <2>1 DEF E!Walking, E!Document, E!Body, E!Response
    <3>2. Framed(d, stack)'
      BY <2>1, <2>3, <2>4 DEF Framed, Frame
    <3>3. Covered(d, stack, out)'
      BY <2>1, <2>3, <2>5 DEF Covered, Ahead, RecordOf, E!Record, E!Shaping
    <3>4. (out \subseteq Recordings(d))'
      BY <1>2, <2>1, <2>3 DEF Recordings, E!Shaping
    <3> QED BY <2>1, <2>3, <3>1, <3>2, <3>3, <3>4 DEF InWalk, d
  <2>7. InBounds'
    <3>1. n <= MaxShapeDepth + 2 /\ MaxShapeDepth \in Nat
      BY Questions DEF EvidenceInv, InBounds, Asking
    <3>2. s # <<>> /\ Len(s) <= MaxShapeDepth + 2
      BY <1>3, <2>2, <2>4, <3>1 DEF Framed
    <3> QED BY <2>1, <3>2 DEF InBounds, EvidenceInv, Count, E!Shaping
  <2> QED BY <1>2, <2>1, <2>6, <2>7, StillWalking
<1> QED BY <1>4, <1>5

\* A verdict ends the comparison, at its start or after both walks.
LEMMA VerdictKeeps ==
  ASSUME EvidenceInv, UNCHANGED <<asked, walking, stack, out, walks>>, ~ E!Walking,
         verdict' \in {"yes", "no"}, E!EquivalenceIsExact', E!ResourceIsProven'
  PROVE  EvidenceInv'
<1>1. Asking' /\ InBounds' /\ MayWalk'
  BY DEF EvidenceInv, Asking, InBounds, MayWalk, Count, E!Shaping, E!SameKind, E!Modellable,
         E!CutShort, E!Response
<1>2. stack = <<>>
  BY DEF EvidenceInv, InWalk
<1>3. InWalk'
  BY <1>2 DEF InWalk
<1>4. Walked'
  <2>1. \A i \in {1, 2} : /\ E!Document(i)' <=> E!Document(i)
                          /\ E!Body(i)' = E!Body(i)
                          /\ Recordings(E!Body(i).doc)' = Recordings(E!Body(i).doc)
                          /\ TooMuch(E!Body(i).doc)' <=> TooMuch(E!Body(i).doc)
    BY DEF E!Document, E!Body, E!Response, Recordings, TooMuch, E!Shaping, Count,
           E!Structure, E!Anchors, E!Leaves, E!Deep
  <2> QED BY <2>1 DEF EvidenceInv, Walked
<1> QED BY <1>1, <1>3, <1>4 DEF EvidenceInv

LEMMA AskKeeps == ASSUME EvidenceInv, E!Ask PROVE EvidenceInv'
<1>1. verdict = "open" /\ walking = 0 /\ UNCHANGED <<asked, stack, out, walks>>
  BY DEF E!Ask
<1>2. stack = <<>> /\ asked.mode \in {"equivalence", "resource"}
  BY <1>1, Questions DEF EvidenceInv, InWalk, E!Walking, Asking
<1>3. CASE verdict' = verdict
  <2>1. /\ walking' = 1
        /\ IF E!Shaping THEN E!SameKind /\ E!Modellable(1) /\ E!Modellable(2) ELSE ~ E!CutShort
    BY <1>1, <1>3 DEF E!Ask, E!Conclude, E!Shaping
  <2>2. MayWalk'
    BY <1>1, <2>1 DEF MayWalk, E!Shaping, E!SameKind, E!Modellable, E!CutShort, E!Response
  <2>3. Asking' /\ InWalk' /\ InBounds'
    BY <1>1, <1>2, <1>3, <2>1 DEF EvidenceInv, Asking, InWalk, InBounds, Count, E!Shaping
  <2>4. Walked' /\ E!EquivalenceIsExact' /\ E!ResourceIsProven'
    BY <1>1, <1>3, <2>1 DEF EvidenceInv, Walked, E!EquivalenceIsExact, E!ResourceIsProven
  <2> QED BY <2>2, <2>3, <2>4 DEF EvidenceInv
<1>4. CASE verdict' # verdict
  <2>1. walking' = walking /\ ~ E!Walking /\ verdict' \in {"yes", "no"}
    BY <1>1, <1>4 DEF E!Ask, E!Conclude, E!Walking
  <2>2. E!EquivalenceIsExact'
    <3> SUFFICES ASSUME asked.mode = "equivalence" PROVE E!EquivalenceIsExact'
      BY <1>1 DEF E!EquivalenceIsExact
    <3>1. verdict' = "no" /\ ~ (E!SameKind /\ E!Modellable(1) /\ E!Modellable(2))
      BY <1>1, <1>4 DEF E!Ask, E!Conclude
    <3>2. ~ (E!SameKind /\ E!Modellable(1) /\ E!Modellable(2))'
      BY <1>1, <3>1 DEF E!SameKind, E!Modellable, E!Response
    <3> QED BY <3>1, <3>2 DEF E!EquivalenceIsExact, E!Comparable
  <2>3. E!ResourceIsProven'
    <3> SUFFICES ASSUME asked.mode = "resource" PROVE E!ResourceIsProven'
      BY <1>1 DEF E!ResourceIsProven
    <3>1. verdict' = (IF E!CutShort THEN "no" ELSE "yes") /\ (E!CutShort \/ E!Identical)
      BY <1>1, <1>4 DEF E!Ask, E!Conclude
    <3> QED BY <1>1, <3>1 DEF E!ResourceIsProven, E!CutShort, E!Identical, E!Body, E!Response
  <2> QED BY <1>1, <2>1, <2>2, <2>3, VerdictKeeps
<1> QED BY <1>3, <1>4

\* A document within the bounds has been walked to its end.
LEMMA WalkedWell ==
  ASSUME EvidenceInv, walking = 3, NEW i \in {1, 2}, E!Document(i), ~ TooMuch(E!Body(i).doc)
  PROVE  walks[i].ok
BY DEF EvidenceInv, Walked

LEMMA BoundsAre ==
  ASSUME EvidenceInv, NEW i \in {1, 2}
  PROVE  /\ E!Shaping => (E!Bounded(i) => ~ TooMuch(E!Body(i).doc))
         /\ ~ E!Shaping => (E!SmallEnough(i) => ~ TooMuch(E!Body(i).doc))
<1> DEFINE d == E!Body(i).doc
<1>1. MaxShapePaths \in Nat /\ IsFiniteSet(Recordings(d))
  BY Questions, RecordingsFinite DEF EvidenceInv, Asking
<1>2. Count(Recordings(d)) \in Nat
  BY <1>1, CountGrows
<1>3. E!Shaping => (E!Bounded(i) => ~ TooMuch(d))
  BY <1>1, <1>2, SameCardinalities DEF E!Bounded, TooMuch, Count, Recordings
<1>4. ~ E!Shaping => (E!SmallEnough(i) => ~ TooMuch(d))
  BY <1>1, <1>2, SameCardinalities DEF E!SmallEnough, TooMuch, Count, Recordings
<1> QED BY <1>3, <1>4

\* Where no key spells the end of an entry each entry is one row of the text, and the text
\* tells the entries.
LEMMA PlainRows ==
  ASSUME NEW d, E!IsDocument(d), E!Plain(d), NEW entry \in E!Structure(d)
  PROVE  /\ E!Ends(entry) = {Len(entry)}
         /\ E!Row(entry, Len(entry)) = entry
<1>1. PICK a \in E!Leaves(d) : entry = Append(d.path["equivalence"][a], d.node[a].kind)
  BY DEF E!Structure
<1> DEFINE path == d.path["equivalence"][a]
           kind == d.node[a].kind
<1>2. path \in Seq(STRING) /\ kind \in E!Kinds /\ kind \in STRING
  <2>1. a \in DOMAIN d.node /\ E!Leaf(d, a)
    BY DEF E!Leaves
  <2>2. kind \in E!Kinds /\ kind \in STRING
    BY <2>1 DEF E!IsDocument
  <2>3. d.path["equivalence"] \in [DOMAIN d.node -> Seq(STRING)]
    BY DEF E!IsDocument, E!Modes
  <2>4. path \in Seq(STRING)
    BY <2>1, <2>3
  <2> HIDE DEF path, kind
  <2> QED BY <2>2, <2>4
<1>3. \A i \in 1 .. Len(path) : path[i] \notin E!Kinds
  BY <1>2 DEF E!Plain
<1> HIDE DEF path, kind
<1>4. /\ entry \in Seq(STRING) /\ Len(entry) = Len(path) + 1 /\ Len(path) \in Nat
      /\ \A i \in 1 .. Len(path) : entry[i] = path[i]
      /\ entry[Len(path) + 1] = kind
  BY <1>1, <1>2, AppendProperties, LenProperties DEF path, kind
<1>5. DOMAIN entry = 1 .. Len(path) + 1
  BY <1>4, LenProperties
<1>6. E!Ends(entry) = {Len(entry)}
  <2>1. \A i \in 1 .. Len(path) + 1 : entry[i] \in E!Kinds <=> i = Len(path) + 1
    <3> SUFFICES ASSUME NEW i \in 1 .. Len(path) + 1
                 PROVE  entry[i] \in E!Kinds <=> i = Len(path) + 1
      OBVIOUS
    <3>1. i \in 1 .. Len(path) \/ i = Len(path) + 1
      BY <1>4
    <3> QED BY <1>2, <1>3, <1>4, <3>1
  <2>2. Len(path) + 1 \in 1 .. Len(path) + 1
    BY <1>4
  <2> QED BY <1>4, <1>5, <2>1, <2>2 DEF E!Ends
<1>7. \A n \in 1 .. Len(entry) :
        (n = 1 \/ n - 1 \in E!Ends(entry))
          /\ (\A k \in n .. Len(entry) - 1 : k \notin E!Ends(entry)) <=> n = 1
  BY <1>4, <1>6
<1>8. E!Row(entry, Len(entry)) = SubSeq(entry, 1, Len(entry))
  <2>1. (CHOOSE n \in 1 .. Len(entry) :
           /\ n = 1 \/ n - 1 \in E!Ends(entry)
           /\ \A k \in n .. Len(entry) - 1 : k \notin E!Ends(entry)) = 1
    BY <1>4, <1>7
  <2> QED BY <2>1 DEF E!Row
<1>9. SubSeq(entry, 1, Len(entry)) = entry
  <2>1. SubSeq(entry, 1, Len(entry)) \in Seq(STRING)
        /\ Len(SubSeq(entry, 1, Len(entry))) = Len(entry)
        /\ \A i \in 1 .. Len(entry) : SubSeq(entry, 1, Len(entry))[i] = entry[i]
    <3>1. 1 \in Int /\ Len(entry) \in Int /\ \A i \in 1 .. Len(entry) : entry[i] \in STRING
      BY <1>4, ElementOfSeq
    <3>2. /\ SubSeq(entry, 1, Len(entry)) \in Seq(STRING)
          /\ Len(SubSeq(entry, 1, Len(entry)))
               = IF 1 <= Len(entry) THEN Len(entry) - 1 + 1 ELSE 0
          /\ \A i \in 1 .. Len(entry) - 1 + 1 :
               SubSeq(entry, 1, Len(entry))[i] = entry[1 + i - 1]
      BY <3>1, SubSeqProperties
    <3> QED BY <1>4, <3>2
  <2> QED BY <1>4, <2>1, SeqEqual
<1> QED BY <1>6, <1>8, <1>9

LEMMA PlainTextTells ==
  ASSUME NEW d, E!IsDocument(d), E!Plain(d)
  PROVE  E!Structure(d) = {row[2] : row \in E!Key(E!Structure(d))}
<1> DEFINE S == E!Structure(d)
           rows == {row[2] : row \in E!Key(S)}
<1>1. \A entry \in S : E!Ends(entry) = {Len(entry)} /\ E!Row(entry, Len(entry)) = entry
  BY PlainRows
<1> HIDE DEF S
<1>2. E!EndsIn(S) = {<<entry, Len(entry)>> : entry \in S}
  BY <1>1 DEF E!EndsIn
<1>3. rows = {E!Row(end[1], end[2]) : end \in E!EndsIn(S)}
  <2>1. \A x : x \in rows <=> \E row \in E!Key(S) : x = row[2]
    OBVIOUS
  <2>2. \A row : row \in E!Key(S) <=>
          \E end \in E!EndsIn(S) :
            row = <<E!Cardinality(E!EndsBefore(S, end)), E!Row(end[1], end[2])>>
    BY DEF E!Key
  <2> HIDE DEF rows
  <2>3. \A x : x \in rows <=> \E end \in E!EndsIn(S) : x = E!Row(end[1], end[2])
    <3> SUFFICES ASSUME NEW x
                 PROVE  x \in rows <=> \E end \in E!EndsIn(S) : x = E!Row(end[1], end[2])
      OBVIOUS
    <3>1. ASSUME x \in rows PROVE \E end \in E!EndsIn(S) : x = E!Row(end[1], end[2])
      <4>1. PICK row \in E!Key(S) : x = row[2]
        BY <2>1, <3>1
      <4>2. PICK end \in E!EndsIn(S) :
              row = <<E!Cardinality(E!EndsBefore(S, end)), E!Row(end[1], end[2])>>
        BY <2>2
      <4> QED BY <4>1, <4>2
    <3>2. ASSUME NEW end \in E!EndsIn(S), x = E!Row(end[1], end[2]) PROVE x \in rows
      <4> DEFINE row == <<E!Cardinality(E!EndsBefore(S, end)), E!Row(end[1], end[2])>>
      <4>1. row \in E!Key(S)
        BY <2>2
      <4>2. x = row[2]
        BY <3>2
      <4> HIDE DEF row
      <4> QED BY <2>1, <4>1, <4>2
    <3> QED BY <3>1, <3>2
  <2> QED BY <2>3
<1> HIDE DEF rows
<1>4. rows = {E!Row(entry, Len(entry)) : entry \in S}
  <2>1. \A end : end \in E!EndsIn(S) <=> \E entry \in S : end = <<entry, Len(entry)>>
    BY <1>2
  <2>2. \A entry : <<entry, Len(entry)>>[1] = entry /\ <<entry, Len(entry)>>[2] = Len(entry)
    OBVIOUS
  <2>3. \A x : x \in rows <=> \E entry \in S : x = E!Row(entry, Len(entry))
    <3> SUFFICES ASSUME NEW x PROVE x \in rows <=> \E entry \in S : x = E!Row(entry, Len(entry))
      OBVIOUS
    <3>1. ASSUME x \in rows PROVE \E entry \in S : x = E!Row(entry, Len(entry))
      <4>1. PICK end \in E!EndsIn(S) : x = E!Row(end[1], end[2])
        BY <1>3, <3>1
      <4>2. PICK entry \in S : end = <<entry, Len(entry)>>
        BY <2>1
      <4> QED BY <2>2, <4>1, <4>2
    <3>2. ASSUME NEW entry \in S, x = E!Row(entry, Len(entry)) PROVE x \in rows
      <4>1. <<entry, Len(entry)>> \in E!EndsIn(S)
        BY <2>1
      <4> QED BY <1>3, <2>2, <3>2, <4>1
    <3> QED BY <3>1, <3>2
  <2> QED BY <2>3
<1>5. rows = S
  BY <1>1, <1>4
<1> QED BY <1>5 DEF S, rows

LEMMA PlainTextsTell ==
  ASSUME NEW d, E!IsDocument(d), E!Plain(d), NEW e, E!IsDocument(e), E!Plain(e),
         E!Key(E!Structure(d)) = E!Key(E!Structure(e))
  PROVE  E!Structure(d) = E!Structure(e)
BY PlainTextTells

LEMMA CompareKeeps == ASSUME EvidenceInv, E!Compare PROVE EvidenceInv'
<1>1. verdict = "open" /\ walking = 3 /\ UNCHANGED <<asked, walking, stack, out, walks>>
  BY DEF E!Compare
<1>2. ~ E!Walking /\ verdict' \in {"yes", "no"}
  BY <1>1 DEF E!Walking, E!Compare, E!Conclude
<1>3. asked.mode \in {"equivalence", "resource"}
  BY Questions DEF EvidenceInv, Asking
<1>4. \A i \in {1, 2} : walks[i].ok => E!Document(i) /\ walks[i].out = Recordings(E!Body(i).doc)
  BY <1>1 DEF EvidenceInv, Walked
<1>5. E!EquivalenceIsExact'
  <2> SUFFICES ASSUME asked.mode = "equivalence" PROVE E!EquivalenceIsExact'
    BY <1>1 DEF E!EquivalenceIsExact
  <2>1. E!Shaping /\ E!SameKind /\ E!Modellable(1) /\ E!Modellable(2)
    BY <1>1 DEF E!Shaping, EvidenceInv, MayWalk
  <2>2. \A i : Recordings(E!Body(i).doc) = E!Structure(E!Body(i).doc)
    BY <2>1 DEF Recordings
  <2>3. verdict' = "yes" => E!Comparable /\ E!SameText
    <3>1. verdict' = "yes" => walks[1].ok /\ walks[2].ok /\ E!Key(walks[1].out) = E!Key(walks[2].out)
      BY <2>1 DEF E!Compare, E!Conclude
    <3> QED BY <1>4, <2>1, <2>2, <3>1 DEF E!Comparable, E!SameText
  <2>4. verdict' = "no" => ~ (E!Comparable /\ E!SameText /\ E!Bounded(1) /\ E!Bounded(2))
    <3> SUFFICES ASSUME E!Comparable, E!SameText, E!Bounded(1), E!Bounded(2) PROVE verdict' = "yes"
      BY <1>2
    <3>1. walks[1].ok /\ walks[2].ok
      BY <1>1, <2>1, BoundsAre, WalkedWell DEF E!Comparable
    <3>2. E!Key(walks[1].out) = E!Key(walks[2].out)
      BY <1>4, <2>2, <3>1 DEF E!SameText
    <3> QED BY <2>1, <3>1, <3>2 DEF E!Compare, E!Conclude
  <2>5. E!SameText /\ E!Plain(E!Body(1).doc) /\ E!Plain(E!Body(2).doc) => E!SameStructure
    BY Questions, PlainTextsTell DEF EvidenceInv, Asking, E!SameText, E!SameStructure
  <2>6. \A i : E!Body(i)' = E!Body(i)
    BY <1>1 DEF E!Body, E!Response
  <2>7. /\ E!Comparable <=> E!Comparable'
        /\ E!Bounded(1) <=> E!Bounded(1)'
        /\ E!Bounded(2) <=> E!Bounded(2)'
    BY <1>1, <2>6 DEF E!Comparable, E!Bounded, E!SameKind, E!Modellable, E!Document, E!Response
  <2>8. (E!SameText <=> E!SameText') /\ (E!SameStructure <=> E!SameStructure')
        /\ \A i : E!Plain(E!Body(i).doc) <=> E!Plain(E!Body(i).doc)'
    BY <2>6 DEF E!SameText, E!SameStructure
  <2> QED BY <2>3, <2>4, <2>5, <2>7, <2>8 DEF E!EquivalenceIsExact
<1>6. E!ResourceIsProven'
  <2> SUFFICES ASSUME asked.mode = "resource" PROVE E!ResourceIsProven'
    BY <1>1 DEF E!ResourceIsProven
  <2>1. ~ E!Shaping /\ ~ E!CutShort
    BY <1>1 DEF E!Shaping, EvidenceInv, MayWalk
  <2>2. \A i : Recordings(E!Body(i).doc) = E!Anchors(E!Body(i).doc)
    BY <2>1 DEF Recordings
  <2>3. verdict' = "yes" => E!SameAnchor
    <3>1. verdict' = "yes" => walks[1].ok /\ walks[2].ok /\ E!SameField
      BY <2>1 DEF E!Compare, E!Conclude
    <3> QED BY <1>4, <2>2, <3>1 DEF E!SameAnchor, E!SameField
  <2>4. verdict' = "no" => ~ (E!SameAnchor /\ E!SmallEnough(1) /\ E!SmallEnough(2))
    <3> SUFFICES ASSUME E!SameAnchor, E!SmallEnough(1), E!SmallEnough(2) PROVE verdict' = "yes"
      BY <1>2
    <3>1. walks[1].ok /\ walks[2].ok
      BY <1>1, <2>1, BoundsAre, WalkedWell DEF E!SameAnchor
    <3>2. E!SameField
      BY <1>4, <2>2, <3>1 DEF E!SameAnchor, E!SameField
    <3> QED BY <2>1, <3>1, <3>2 DEF E!Compare, E!Conclude
  <2>5. (E!SameAnchor <=> E!SameAnchor') /\ (E!SmallEnough(1) <=> E!SmallEnough(1)')
        /\ (E!SmallEnough(2) <=> E!SmallEnough(2)') /\ (E!CutShort <=> E!CutShort')
    BY <1>1 DEF E!SameAnchor, E!SmallEnough, E!Document, E!Body, E!Response, E!CutShort
  <2> QED BY <1>2, <2>1, <2>3, <2>4, <2>5 DEF E!ResourceIsProven, E!CutShort
<1> QED BY <1>1, <1>2, <1>5, <1>6, VerdictKeeps

LEMMA NothingComparedKeeps == ASSUME EvidenceInv, UNCHANGED E!vars PROVE EvidenceInv'
<1>1. UNCHANGED <<asked, walking, stack, out, walks, verdict>>
  BY DEF E!vars
<1>2. Asking' /\ InBounds' /\ MayWalk'
  BY <1>1 DEF EvidenceInv, Asking, InBounds, MayWalk, Count, E!Shaping, E!SameKind,
              E!Modellable, E!CutShort, E!Response
<1>3. InWalk'
  <2>1. E!Doc' = E!Doc /\ (E!Walking <=> E!Walking') /\ (E!Document(walking) <=> E!Document(walking)')
    BY <1>1 DEF E!Walking, E!Document, E!Doc, E!Body, E!Response
  <2>2. Recordings(E!Doc)' = Recordings(E!Doc)
    BY <1>1, <2>1 DEF Recordings, E!Shaping
  <2> QED BY <1>1, <2>1, <2>2
    DEF EvidenceInv, InWalk, Framed, Frame, Covered, Ahead, RecordOf, E!Record, E!Shaping
<1>4. Walked'
  BY <1>1 DEF EvidenceInv, Walked, E!Document, E!Body, E!Response, Recordings, TooMuch,
              E!Shaping, Count
<1>5. E!EquivalenceIsExact' /\ E!ResourceIsProven'
  BY <1>1 DEF EvidenceInv, E!EquivalenceIsExact, E!ResourceIsProven, E!Comparable,
              E!SameText, E!SameStructure, E!Bounded,
              E!SameAnchor, E!SmallEnough, E!SameKind, E!Modellable, E!Document, E!Body,
              E!Response
<1> QED BY <1>2, <1>3, <1>4, <1>5 DEF EvidenceInv

LEMMA EvidenceInvFollows == ASSUME EvidenceInv PROVE E!ComparisonIsExact
<1>1. E!Recorded = Count(out)
  BY SameCardinalities DEF E!Recorded, Count
<1>2. E!TypeOK
  BY <1>1 DEF EvidenceInv, Asking, Walked, InBounds, E!TypeOK
<1> QED BY <1>2 DEF EvidenceInv, E!ComparisonIsExact

\* Whatever order the fields come in, two responses are called equivalent exactly when the
\* structures of the JSON values they begin with join to one text, all of both compared, and
\* then have one structure unless a key spells the end of an entry; they are called of one
\* resource exactly when their bytes or a value in one field say so. The bounds can turn a
\* yes into a no only (materiallyEquivalent, sameResource).
THEOREM ComparisonsAreExact == E!Spec => []E!ComparisonIsExact
<1>1. E!Init => EvidenceInv
  BY ComparisonStarts
<1>2. EvidenceInv /\ [E!Next]_E!vars => EvidenceInv'
  <2>1. ASSUME EvidenceInv, E!Next PROVE EvidenceInv'
    BY <2>1, AskKeeps, StartWalkKeeps, VisitKeeps, LeaveKeeps, CompareKeeps,
       NothingComparedKeeps DEF E!Next, E!Over
  <2> QED BY <2>1, NothingComparedKeeps
<1>3. EvidenceInv => E!ComparisonIsExact
  BY EvidenceInvFollows
<1> QED BY <1>1, <1>2, <1>3, PTL DEF E!Spec

-----------------------------------------------------------------------------
\* One response is read by its content, and two are compared by all of the JSON values that
\* they begin with, as joined text, or by their bytes.
THEOREM ReadingsAreJustified == C!Spec /\ E!Spec => []ReadingIsJustified
<1>1. C!ReadingIsJustified /\ E!ComparisonIsExact => ReadingIsJustified
  BY DEF ReadingIsJustified
<1> QED BY <1>1, ResponsesAreReadAsTheyAre, ComparisonsAreExact, PTL
=============================================================================
