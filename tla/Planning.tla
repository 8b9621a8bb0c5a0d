------------------------------ MODULE Planning ------------------------------
(***************************************************************************)
(* The planning half of internal/engine: what engine.Run decides to send   *)
(* before it sends anything, and the ledger row it writes for everything   *)
(* it decides not to send.                                                 *)
(*                                                                         *)
(* The first loop walks the operations of the surface for the one check    *)
(* that goes by operation (AuthRequired). Then planOwnership walks the     *)
(* fixtures, for each the operations, for each the identities that do not  *)
(* own the fixture. Nothing runs concurrently: the steps are the bodies of *)
(* the loops, and what can go wrong is an item that is planned against the *)
(* operator's instructions, planned twice, or passed over in silence.      *)
(*                                                                         *)
(* The configuration and the surface are an `input` chosen once. Operation *)
(* identifiers are compared as elements: both spellings of MatchesID name  *)
(* one element. A URL is abstracted to whether Bind can make it.           *)
(***************************************************************************)
EXTENDS Naturals, Sequences, FiniteSets

CONSTANTS
  NOps,        \* len(opts.Surface.Operations)
  NFixtures,   \* len(opts.Resources), fixtures numbered in the order of their ids
  Identities,  \* the configured identities
  Strangers,   \* names a fixture may give that no identity has
  Paths,       \* path templates
  Params,      \* path parameter names
  MaxUnits,    \* MaxOwnershipUnits
  Inputs       \* the configurations and surfaces considered

Ops == 1 .. NOps
Fixtures == 1 .. NFixtures
Methods == {"GET", "OPTIONS", "POST"}   \* HEAD is as GET, any other as POST
Securities == {"unstated", "public", "optional", "required"}
Profiles == {"discovery", "verification", "intrusive"}
Names == Identities \cup Strangers

\* Before the first operation: the zero value of the cursors, and "no operation".
None == 0

AllInputs ==
  [method : [Ops -> Methods],
   path : [Ops -> Paths],
   params : [Ops -> SUBSET Params],        \* RequiredPathParams
   security : [Ops -> Securities],         \* Operation.Security
   authLike : SUBSET Ops,                  \* looksLikeAuthRoute
   refused : SUBSET Ops,                   \* a template Bind refuses (a query in it, say)
   excluded : SUBSET Ops,                  \* ExcludeOperations
   excludeAuth : BOOLEAN,                  \* ExcludeAuthEndpoints
   profile : Profiles,
   values : [Fixtures -> SUBSET Params],   \* the parameters a fixture has a value for
   aimed : [Fixtures -> SUBSET Ops],       \* Fixture.Operations
   owner : [Fixtures -> Names],
   nonOwners : [Fixtures -> SUBSET Names],
   mutation : SUBSET Fixtures]             \* the fixtures with mutation values

ASSUME PlanningAssumption ==
  /\ NOps \in Nat
  /\ NFixtures \in Nat
  /\ MaxUnits \in Nat
  /\ IsFiniteSet(Identities)
  /\ Strangers \cap Identities = {}
  /\ Inputs \subseteq AllInputs

Row == [disp : {"untested", "blocked"},
        cause : {"safety_policy", "no_oracle", "missing_resource", "missing_identity"}]
Untested(cause) == [disp |-> "untested", cause |-> cause]
Blocked(cause) == [disp |-> "blocked", cause |-> cause]

Pairs == Fixtures \X Ops \X Identities
Units == [fixture : Fixtures, op : Ops, attacker : Identities, readOp : Ops \cup {None}]

VARIABLES
  input,
  phase,        \* the loop planning is in
  op,           \* the operation the innermost loop over operations has reached
  fx,           \* the fixture the loop over fixtures has reached
  left,         \* the non-owners the innermost loop has not reached
  addressable,  \* whether the fixture has addressed an operation
  jobs,         \* the operations planned for the declared-authentication check
  units,        \* the planned cross-owner units
  capped,       \* how many units the bound turned away
  opRows,       \* the ledger rows of each operation
  fixtureRows,  \* the rows of each fixture that name no non-owner, by operation
  pairRows      \* the rows of each (fixture, operation, non-owner)

cursor == <<phase, op, fx, left, addressable>>
vars == <<input, phase, op, fx, left, addressable, jobs, units, capped,
          opRows, fixtureRows, pairRows>>

Init ==
  /\ input \in Inputs
  /\ phase = "jobs"
  /\ op = 1
  /\ fx = 1
  /\ left = {}
  /\ addressable = FALSE
  /\ jobs = {}
  /\ units = {}
  /\ capped = 0
  /\ opRows = [o \in Ops |-> <<>>]
  /\ fixtureRows = [f \in Fixtures |-> [o \in Ops \cup {None} |-> <<>>]]
  /\ pairRows = [p \in Pairs |-> <<>>]

-----------------------------------------------------------------------------
(* What an operation and a fixture are to each other.                      *)

IsSafe(o) == input.method[o] \in {"GET", "OPTIONS"}

\* GateProfile of RequiredProfileForMethod.
Permitted(o) ==
  IF IsSafe(o) THEN input.profile \in {"verification", "intrusive"}
               ELSE input.profile = "intrusive"

\* Fixture.Addresses, Fixture.AppliesTo and resource.Bind.
Fills(f, o) == input.params[o] \subseteq input.values[f]
Addresses(f, o) == input.params[o] # {} /\ Fills(f, o)
AppliesTo(f, o) == Addresses(f, o) /\ (input.aimed[f] = {} \/ o \in input.aimed[f])
Binds(f, o) == Fills(f, o) /\ o \notin input.refused

\* AuthRequired.boundURL
HasURL(o) == input.params[o] = {} \/ \E f \in Fixtures : AppliesTo(f, o) /\ Binds(f, o)

\* nonOwners: whom the fixture lists, or everyone, and never its owner.
NonOwners(f) ==
  (IF input.nonOwners[f] # {} THEN input.nonOwners[f] \cap Identities ELSE Identities)
    \ {input.owner[f]}

\* readByPath: the first readable operation of the path, None if there is none.
Readers(o) == {r \in Ops : input.path[r] = input.path[o] /\ input.method[r] = "GET"}
ReadOperation(o) ==
  IF Readers(o) = {} THEN None ELSE CHOOSE r \in Readers(o) : \A s \in Readers(o) : r <= s

-----------------------------------------------------------------------------
(* The loop over operations and checks.                                    *)

\* AuthRequired.Applicable: the row it asks for, <<>> if the check has an oracle.
Inapplicable(o) ==
  IF input.security[o] # "required" THEN <<Untested("no_oracle")>>
  ELSE IF ~HasURL(o) THEN <<Untested("missing_resource")>>
  ELSE <<>>

\* The operator's instructions come first. (ExclusionsOnly: the fault of asking about the
\* excluded operations and not about authentication routes.)
ExclusionsOnly(o) == o \in input.excluded
Skipped(o) == o \in input.excluded \/ (input.excludeAuth /\ o \in input.authLike)

\* Why an operation is not planned, <<>> if it is. (NoContinue: the fault of adding
\* the row and testing on; CauseUnset: that of a row without its cause.)
NoContinue(o) ==
  IF Skipped(o) THEN <<Untested("safety_policy")>> \o Inapplicable(o)
  ELSE IF Inapplicable(o) # <<>> THEN Inapplicable(o)
  ELSE IF ~Permitted(o) THEN <<Blocked("safety_policy")>> ELSE <<>>
CauseUnset(o) == IF Skipped(o) THEN <<Untested("")>> ELSE Inapplicable(o)
JobRefusal(o) ==
  IF Skipped(o) THEN <<Untested("safety_policy")>>
  ELSE IF Inapplicable(o) # <<>> THEN Inapplicable(o)
  ELSE IF ~Permitted(o) THEN <<Blocked("safety_policy")>>
  ELSE <<>>

PlanJob ==
  /\ phase = "jobs"
  /\ op \in Ops
  /\ opRows' = [opRows EXCEPT ![op] = @ \o JobRefusal(op)]
  /\ jobs' = IF JobRefusal(op) = <<>> THEN jobs \cup {op} ELSE jobs
  /\ op' = op + 1
  /\ UNCHANGED <<input, phase, fx, left, addressable, units, capped, fixtureRows, pairRows>>

EndJobs ==
  /\ phase = "jobs"
  /\ op \notin Ops
  /\ phase' = "fixtures"
  /\ UNCHANGED <<input, op, fx, left, addressable, jobs, units, capped,
                 opRows, fixtureRows, pairRows>>

-----------------------------------------------------------------------------
(* planOwnership.                                                          *)

\* The row of a fixture that cannot be used at all.
SkipFixture(row) ==
  /\ fixtureRows' = [fixtureRows EXCEPT ![fx][None] = Append(@, row)]
  /\ fx' = fx + 1
  /\ UNCHANGED <<input, phase, op, left, addressable, jobs, units, capped, opRows, pairRows>>

UnknownOwner ==
  /\ phase = "fixtures"
  /\ fx \in Fixtures
  /\ input.owner[fx] \notin Identities
  /\ SkipFixture(Blocked("missing_identity"))

NobodyToProbeWith ==
  /\ phase = "fixtures"
  /\ fx \in Fixtures
  /\ input.owner[fx] \in Identities
  /\ NonOwners(fx) = {}
  /\ SkipFixture(Untested("missing_identity"))

StartFixture ==
  /\ phase = "fixtures"
  /\ fx \in Fixtures
  /\ input.owner[fx] \in Identities
  /\ NonOwners(fx) # {}
  /\ phase' = "operations"
  /\ op' = 1
  /\ addressable' = FALSE
  /\ UNCHANGED <<input, fx, left, jobs, units, capped, opRows, fixtureRows, pairRows>>

\* An operation the fixture is not for is passed over without a row.
SkipOperation ==
  /\ phase = "operations"
  /\ op \in Ops
  /\ ~AppliesTo(fx, op)
  /\ op' = op + 1
  /\ UNCHANGED <<input, phase, fx, left, addressable, jobs, units, capped,
                 opRows, fixtureRows, pairRows>>

CannotBind ==
  /\ phase = "operations"
  /\ op \in Ops
  /\ AppliesTo(fx, op)
  /\ ~Binds(fx, op)
  /\ fixtureRows' =
       IF input.aimed[fx] # {}
       THEN [fixtureRows EXCEPT ![fx][op] = Append(@, Blocked("missing_resource"))]
       ELSE fixtureRows
  /\ op' = op + 1
  /\ UNCHANGED <<input, phase, fx, left, addressable, jobs, units, capped, opRows, pairRows>>

StartPairs ==
  /\ phase = "operations"
  /\ op \in Ops
  /\ AppliesTo(fx, op)
  /\ Binds(fx, op)
  /\ phase' = "pairs"
  /\ left' = NonOwners(fx)
  /\ addressable' = TRUE
  /\ UNCHANGED <<input, op, fx, jobs, units, capped, opRows, fixtureRows, pairRows>>

\* Why a write cannot be tested, before anybody's permission is asked.
WriteRefusal(f, o) ==
  IF f \notin input.mutation THEN <<Untested("no_oracle")>>
  ELSE IF ReadOperation(o) = None THEN <<Blocked("no_oracle")>>
  ELSE IF ~Binds(f, ReadOperation(o)) THEN <<Blocked("missing_resource")>>
  ELSE <<>>

\* (Unexcluded: the fault of the exclusion list not being asked.)
Unexcluded(f, o) == IF ~IsSafe(o) /\ WriteRefusal(f, o) # <<>> THEN WriteRefusal(f, o)
                    ELSE IF ~Permitted(o) THEN <<Blocked("safety_policy")>> ELSE <<>>
PairRefusal(f, o) ==
  IF ~IsSafe(o) /\ WriteRefusal(f, o) # <<>> THEN WriteRefusal(f, o)
  ELSE IF o \in input.excluded THEN <<Untested("safety_policy")>>
  ELSE IF ~Permitted(o) THEN <<Blocked("safety_policy")>>
  ELSE <<>>

\* (FullPastBound: the fault of a bound that is off by one.)
FullPastBound == Cardinality(units) > MaxUnits
Full == Cardinality(units) >= MaxUnits

\* (CapturedUnit: the fault of a plan that captures the loop's variable.)
CapturedUnit(f, o, a) ==
  [fixture |-> f, op |-> o, attacker |-> (CHOOSE b \in NonOwners(f) : TRUE),
   readOp |-> IF IsSafe(o) THEN None ELSE ReadOperation(o)]
Unit(f, o, a) ==
  [fixture |-> f, op |-> o, attacker |-> a,
   readOp |-> IF IsSafe(o) THEN None ELSE ReadOperation(o)]

\* The body of the loop over non-owners, which come in the order configured: any.
PlanPair(a) ==
  /\ phase = "pairs"
  /\ a \in left
  /\ left' = left \ {a}
  /\ LET refusal == PairRefusal(fx, op) IN
       \/ /\ refusal # <<>>
          /\ pairRows' = [pairRows EXCEPT ![<<fx, op, a>>] = @ \o refusal]
          /\ UNCHANGED <<units, capped>>
       \/ /\ refusal = <<>>
          /\ Full
          /\ capped' = capped + 1
          /\ pairRows' = [pairRows EXCEPT ![<<fx, op, a>>] = Append(@, Untested("safety_policy"))]
          /\ UNCHANGED units
       \/ /\ refusal = <<>>
          /\ ~Full
          /\ units' = units \cup {Unit(fx, op, a)}
          /\ UNCHANGED <<capped, pairRows>>
  /\ UNCHANGED <<input, phase, op, fx, addressable, jobs, opRows, fixtureRows>>

EndPairs ==
  /\ phase = "pairs"
  /\ left = {}
  /\ phase' = "operations"
  /\ op' = op + 1
  /\ UNCHANGED <<input, fx, left, addressable, jobs, units, capped,
                 opRows, fixtureRows, pairRows>>

\* (SilentFixture: the fault of the closing test left out.)
SilentFixture == <<>>
Unaddressed == IF addressable THEN <<>> ELSE <<Untested("missing_resource")>>

EndFixture ==
  /\ phase = "operations"
  /\ op \notin Ops
  /\ fixtureRows' = [fixtureRows EXCEPT ![fx][None] = @ \o Unaddressed]
  /\ phase' = "fixtures"
  /\ fx' = fx + 1
  /\ UNCHANGED <<input, op, left, addressable, jobs, units, capped, opRows, pairRows>>

EndPlanning ==
  /\ phase = "fixtures"
  /\ fx \notin Fixtures
  /\ phase' = "done"
  /\ UNCHANGED <<input, op, fx, left, addressable, jobs, units, capped,
                 opRows, fixtureRows, pairRows>>

Next ==
  \/ PlanJob \/ EndJobs
  \/ UnknownOwner \/ NobodyToProbeWith \/ StartFixture
  \/ SkipOperation \/ CannotBind \/ StartPairs
  \/ \E a \in Identities : PlanPair(a)
  \/ EndPairs \/ EndFixture \/ EndPlanning

Spec == Init /\ [][Next]_vars

-----------------------------------------------------------------------------
TypeOK ==
  /\ input \in Inputs
  /\ phase \in {"jobs", "fixtures", "operations", "pairs", "done"}
  /\ op \in Nat
  /\ fx \in Nat
  /\ left \in SUBSET Identities
  /\ addressable \in BOOLEAN
  /\ jobs \in SUBSET Ops
  /\ units \in SUBSET Units
  /\ capped \in Nat
  /\ opRows \in [Ops -> Seq(Row)]
  /\ fixtureRows \in [Fixtures -> [Ops \cup {None} -> Seq(Row)]]
  /\ pairRows \in [Pairs -> Seq(Row)]

\* How often a (fixture, operation, non-owner) is in the plan or in the ledger.
Accounts(f, o, a) ==
  Len(pairRows[<<f, o, a>>])
    + Cardinality({u \in units : u.fixture = f /\ u.op = o /\ u.attacker = a})

\* "Every operation that is not planned produces a ledger row explaining why", and
\* none is both planned and explained away, or explained twice.
EveryOperationAccounted ==
  phase # "jobs" =>
    \A o \in Ops : Len(opRows[o]) = (IF o \in jobs THEN 0 ELSE 1)

\* The boundaries the operator's fixtures describe: a fixture whose owner is known
\* crossed with the operations it is for and the identities that do not own it.
Boundaries ==
  {p \in Pairs :
     /\ input.owner[p[1]] \in Identities
     /\ p[3] \in NonOwners(p[1])
     /\ AppliesTo(p[1], p[2]) /\ Binds(p[1], p[2])}

\* Each boundary becomes one unit or one row, and nothing else becomes either.
EveryBoundaryAccounted ==
  phase = "done" =>
    \A p \in Pairs : Accounts(p[1], p[2], p[3]) = (IF p \in Boundaries THEN 1 ELSE 0)

\* No fixture is passed over in silence, whatever is wrong with it.
NoFixtureSilent ==
  phase = "done" =>
    \A f \in Fixtures :
      \/ \E o \in Ops \cup {None} : fixtureRows[f][o] # <<>>
      \/ \E o \in Ops, a \in Identities : Accounts(f, o, a) > 0

\* The bound on units holds, and turns work away only when it is reached.
UnitsBounded ==
  /\ Cardinality(units) <= MaxUnits
  /\ capped > 0 => Cardinality(units) = MaxUnits

\* No operation is planned against what the operator said of it: none that is excluded,
\* none that looks like an authentication route where those are to be skipped, none the
\* profile does not permit.
JobsArePermitted ==
  \A o \in jobs :
    /\ o \notin input.excluded
    /\ input.excludeAuth => o \notin input.authLike
    /\ Permitted(o)
    /\ input.security[o] = "required"

\* Nor is a cross-owner unit: its operation is not excluded and the profile permits it,
\* nobody probes what is theirs, and there is no write without values to write and a
\* readable operation to see it by. That authentication routes are to be skipped is not
\* asked of a unit, and neither list is asked about the operation it reads with.
UnitsArePermitted ==
  \A u \in units :
    /\ u.op \notin input.excluded
    /\ IsSafe(u.op) => input.profile # "discovery"
    /\ ~IsSafe(u.op) => /\ input.profile = "intrusive"
                        /\ u.fixture \in input.mutation
                        /\ u.readOp \in Ops
                        /\ input.method[u.readOp] = "GET"
                        /\ input.path[u.readOp] = input.path[u.op]
    /\ u.attacker # input.owner[u.fixture]
    /\ input.params[u.op] # {} /\ Fills(u.fixture, u.op)

\* Nothing leaves planning in silence: operations, boundaries and fixtures are planned or
\* have a row that says why not.
NothingPlannedSilently ==
  /\ EveryOperationAccounted
  /\ EveryBoundaryAccounted
  /\ NoFixtureSilent

\* The plan stays inside its bound; an operation is planned only if every safety control
\* permits it, and a cross-owner unit only if those permit it that planOwnership asks:
\* the exclusion list and the profile, not the skipping of authentication routes.
PlanWithinBounds ==
  /\ TypeOK
  /\ UnitsBounded
  /\ JobsArePermitted
  /\ UnitsArePermitted
=============================================================================
