------------------------ MODULE CrossOwnerWriteProofs ------------------------
(***************************************************************************)
(* Theorems about CrossOwnerWrite, for any number of non-owners, fields    *)
(* and edits by somebody else, on a shared fixture or not.                 *)
(*                                                                         *)
(* Both rest on one fact, that the unit that is neither waiting nor back   *)
(* holds the fixture's lock: between its first view and its last only the  *)
(* other actor, and requests of units that are back, touch the resource.   *)
(***************************************************************************)
EXTENDS CrossOwnerWrite, TLAPS

USE WriteAssumption

-----------------------------------------------------------------------------
(* The inductive invariant.                                                *)

Active(u) == step[u] \notin {"waiting", "returned"}

\* Whoever is between its first step and its return holds the lock.
LockHeld == \A u \in Units : Active(u) => lock = u

\* Nothing is credited before the second view.
CreditedLate ==
  \A u \in Units :
    step[u] \in {"waiting", "gate", "before", "write", "after"} => credited[u] = {}

\* A value that appeared since the unit's first view is its own, or that of somebody the
\* lock does not hold off.
WrittenByUnit ==
  \A u \in Units : \A f \in Fields :
    /\ step[u] \in {"write", "after"} /\ u \notin outdated /\ before[u] # NotAnObject
    /\ document[f] = "written" /\ before[u][f] # "written"
    => Creditable(u, author[f])

\* What is credited was not there in the first view, which is kept to restore it.
CreditedIsNew ==
  \A u \in Units : credited[u] # {} =>
    before[u] # NotAnObject /\ \A f \in credited[u] : before[u][f] # "written"

\* While the unit restores, what is still its own in a field it is credited with is the
\* written value.
LeftIsWritten ==
  \A u \in Units : step[u] \in {"restore", "verify"} =>
    /\ credited[u] # {}
    /\ u \notin outdated => \A f \in credited[u] :
         author[f] = u => document[f] = "written" \/ before[u][f] = "absent"

\* A request that timed out is one of a unit that is back: with no credit after a write,
\* with a failure after a restoration.
InFlightLate ==
  \A u \in Units : inFlight[u] # "none" =>
    /\ step[u] = "returned"
    /\ inFlight[u] = "restoration" => failed[u]
    /\ inFlight[u] # "restoration" => credited[u] = {}

IInv ==
  /\ TypeOK
  /\ LockHeld
  /\ CreditedLate
  /\ WrittenByUnit
  /\ CreditedIsNew
  /\ LeftIsWritten
  /\ InFlightLate
  /\ RestoredOrReported

-----------------------------------------------------------------------------
(* The first state, and what the unit's steps are made of.                 *)

LEMMA Initially == Init => IInv
BY DEF Init, IInv, TypeOK, Document, Values, Steps, Rows, Active, LockHeld, CreditedLate,
       WrittenByUnit, CreditedIsNew, LeftIsWritten, InFlightLate, RestoredOrReported

\* A document is never the opaque view: a mutation has a field.
LEMMA ViewsDiffer == NotAnObject \notin Document
<1> SUFFICES ASSUME NotAnObject \in Document PROVE FALSE
  OBVIOUS
<1>1. PICK f \in Fields : TRUE
  OBVIOUS
<1>2. NotAnObject[f] = "opaque" /\ NotAnObject[f] \in Values
  BY DEF NotAnObject, Document
<1> QED
  BY <1>2 DEF Values

\* A submission changes the world as its author lets it: the fields that change become the
\* author's, and none comes to hold the written value unless that was sent.
LEMMA SubmitEffect ==
  ASSUME TypeOK, NEW sent, NEW by, NEW u \in Units, Submit(sent, by),
         DOMAIN sent \subseteq Fields,
         \A f \in DOMAIN sent : sent[f] \in Values,
         \A f \in DOMAIN sent : by[f] \in {"owner", u}
  PROVE  /\ document' \in Document /\ copy' \in Document
         /\ author' \in [Fields -> {"owner", "other"} \cup Units]
         /\ edits' = edits
         /\ \A f \in Fields :
              \/ document'[f] = document[f] /\ author'[f] = author[f]
              \/ /\ f \in DOMAIN sent /\ author'[f] = by[f]
                 /\ document'[f] = "written" => sent[f] = "written"
<1>1. PICK kept \in SUBSET DOMAIN sent :
        \E asSent \in SUBSET kept :
          LET now == [f \in Fields |-> IF f \notin kept THEN document[f]
                                      ELSE IF sent[f] # "written" \/ f \in asSent THEN sent[f]
                                      ELSE "normalised"]
          IN /\ Becomes(now)
             /\ author' = [f \in Fields |-> IF now[f] # document[f] THEN by[f] ELSE author[f]]
             /\ UNCHANGED edits
  BY DEF Submit
<1>2. PICK asSent \in SUBSET kept :
          LET now == [f \in Fields |-> IF f \notin kept THEN document[f]
                                      ELSE IF sent[f] # "written" \/ f \in asSent THEN sent[f]
                                      ELSE "normalised"]
          IN /\ Becomes(now)
             /\ author' = [f \in Fields |-> IF now[f] # document[f] THEN by[f] ELSE author[f]]
             /\ UNCHANGED edits
  BY <1>1
<1> DEFINE now == [f \in Fields |-> IF f \notin kept THEN document[f]
                                   ELSE IF sent[f] # "written" \/ f \in asSent THEN sent[f]
                                   ELSE "normalised"]
<1>3. /\ document' = now /\ copy' \in {copy, document} /\ edits' = edits
      /\ author' = [f \in Fields |-> IF now[f] # document[f] THEN by[f] ELSE author[f]]
  BY <1>2 DEF Becomes
<1>4. now \in Document
  BY DEF TypeOK, Document, Values
<1>5. \A f \in Fields : now[f] # document[f] =>
        f \in DOMAIN sent /\ (now[f] = "written" => sent[f] = "written")
  OBVIOUS
<1>6. author' \in [Fields -> {"owner", "other"} \cup Units]
  <2> HIDE DEF now
  <2> QED BY <1>3, <1>5 DEF TypeOK
<1> HIDE DEF now
<1> QED
  BY <1>3, <1>4, <1>5, <1>6 DEF TypeOK

\* The ways a unit's step ends, and what they write.
LEMMA ReturnEffect ==
  ASSUME TypeOK, NEW u \in Units, NEW from, NEW said \in Rows, Return(u, from, said)
  PROVE  /\ step[u] = from /\ step' = [step EXCEPT ![u] = "returned"]
         /\ lock' = "free" /\ row' \in [Units -> Rows]
         /\ before' = [before EXCEPT ![u] = NotAnObject]
         /\ before' \in [Units -> Document \cup {NotAnObject}]
BY DEF Return, Goto, Unlocked, TypeOK

LEMMA ConcludeEffect ==
  ASSUME TypeOK, NEW u \in Units, NEW from, NEW failure \in BOOLEAN, Conclude(u, from, failure)
  PROVE  /\ step[u] = from /\ step' = [step EXCEPT ![u] = "returned"]
         /\ lock' = "free" /\ row' \in [Units -> Rows]
         /\ failed' = [failed EXCEPT ![u] = failure]
         /\ finding' \in [Units -> BOOLEAN] /\ surfaced' \in [Units -> BOOLEAN]
         /\ UNCHANGED <<before, credited>>
BY DEF Conclude, Goto, Unlocked, TypeOK, Rows

\* The type of a state in which one unit has moved and what it wrote is of its type.
LEMMA MovedType ==
  ASSUME TypeOK, NEW u \in Units, NEW to \in Steps, step' = [step EXCEPT ![u] = to],
         document' \in Document, copy' \in Document,
         author' \in [Fields -> {"owner", "other"} \cup Units], edits' = edits,
         inFlight' \in [Units -> {"none", "write", "restoration", "landed"}],
         outdated' \subseteq Units, lock' \in {"free"} \cup Units,
         before' \in [Units -> Document \cup {NotAnObject}],
         credited' \in [Units -> SUBSET Fields],
         row' \in [Units -> Rows], finding' \in [Units -> BOOLEAN],
         failed' \in [Units -> BOOLEAN], surfaced' \in [Units -> BOOLEAN]
  PROVE  TypeOK'
BY DEF TypeOK

-----------------------------------------------------------------------------
(* What a unit's step leaves alone.                                        *)

\* The others: they are waiting or back, and nothing becomes theirs.
Apart(u) ==
  \A v \in Units \ {u} :
    /\ step'[v] = step[v] /\ before'[v] = before[v] /\ credited'[v] = credited[v]
    /\ failed'[v] = failed[v] /\ inFlight'[v] = inFlight[v]
    /\ v \in outdated' <=> v \in outdated
    /\ step[v] \in {"waiting", "returned"}
    /\ \A f \in Fields : author'[f] = v => author[f] = v

\* The parts of the invariant that are about the unit that moves.
OwnPart(u) ==
  /\ Active(u) => lock = u
  /\ step[u] \in {"waiting", "gate", "before", "write", "after"} => credited[u] = {}
  /\ \A f \in Fields :
       /\ step[u] \in {"write", "after"} /\ u \notin outdated /\ before[u] # NotAnObject
       /\ document[f] = "written" /\ before[u][f] # "written"
       => Creditable(u, author[f])
  /\ credited[u] # {} =>
       before[u] # NotAnObject /\ \A f \in credited[u] : before[u][f] # "written"
  /\ step[u] \in {"restore", "verify"} =>
       /\ credited[u] # {}
       /\ u \notin outdated => \A f \in credited[u] :
            author[f] = u => document[f] = "written" \/ before[u][f] = "absent"
  /\ inFlight[u] # "none" =>
       /\ step[u] = "returned"
       /\ inFlight[u] = "restoration" => failed[u]
       /\ inFlight[u] # "restoration" => credited[u] = {}
  /\ step[u] = "returned" /\ ~failed[u] /\ u \notin outdated =>
       \A f \in credited[u] : author[f] = u => before[u][f] = "absent"

LEMMA InvariantIsOwnParts == IInv <=> TypeOK /\ \A u \in Units : OwnPart(u)
BY DEF IInv, OwnPart, LockHeld, CreditedLate, WrittenByUnit, CreditedIsNew, LeftIsWritten,
  InFlightLate, RestoredOrReported

LEMMA OthersKeep ==
  ASSUME IInv, NEW u \in Units, Apart(u), TypeOK', OwnPart(u)'
  PROVE  IInv'
<1>1. ASSUME NEW v \in Units, v # u PROVE OwnPart(v)'
  <2>1. /\ step'[v] = step[v] /\ before'[v] = before[v] /\ credited'[v] = credited[v]
        /\ failed'[v] = failed[v] /\ inFlight'[v] = inFlight[v]
        /\ v \in outdated' <=> v \in outdated
        /\ step[v] \in {"waiting", "returned"}
        /\ \A f \in Fields : author'[f] = v => author[f] = v
    BY <1>1 DEF Apart
  <2>2. OwnPart(v) /\ credited[v] \subseteq Fields
    BY InvariantIsOwnParts DEF IInv, TypeOK
  <2> QED BY <2>1, <2>2 DEF OwnPart, Active
<1>2. \A v \in Units : OwnPart(v)'
  BY <1>1
<1> QED
  BY <1>2 DEF IInv, OwnPart, LockHeld, CreditedLate, WrittenByUnit, CreditedIsNew, LeftIsWritten,
    InFlightLate, RestoredOrReported

LEMMA ActiveAlone ==
  ASSUME IInv, NEW u \in Units, Active(u)
  PROVE  /\ \A v \in Units \ {u} : step[v] \in {"waiting", "returned"}
         /\ inFlight[u] = "none" /\ lock = u
BY DEF IInv, LockHeld, InFlightLate, Active

-----------------------------------------------------------------------------
(* The unit's steps.                                                       *)

\* An active unit that returns without a conclusion before it was credited with anything.
LEMMA ReturnKeeps ==
  ASSUME IInv, NEW u \in Units, NEW from \in {"gate", "before", "write", "after"},
         NEW said \in Rows, Return(u, from, said), document' \in Document, copy' \in Document,
         author' \in [Fields -> {"owner", "other"} \cup Units], edits' = edits,
         \A f \in Fields : author'[f] = author[f] \/ author'[f] \in {"owner", u},
         NEW what \in {"none", "write"}, inFlight' = [inFlight EXCEPT ![u] = what],
         outdated' \subseteq Units, \A v \in Units \ {u} : v \in outdated' <=> v \in outdated,
         credited' = [credited EXCEPT ![u] = {}], UNCHANGED <<finding, failed, surfaced>>
  PROVE  IInv'
<1>1. /\ step[u] = from /\ step' = [step EXCEPT ![u] = "returned"]
      /\ lock' = "free" /\ row' \in [Units -> Rows]
      /\ before' = [before EXCEPT ![u] = NotAnObject]
      /\ before' \in [Units -> Document \cup {NotAnObject}]
  BY ReturnEffect DEF IInv
<1>2. inFlight' \in [Units -> {"none", "write", "restoration", "landed"}]
      /\ credited' \in [Units -> SUBSET Fields]
  BY DEF IInv, TypeOK
<1>3. step'[u] = "returned" /\ credited'[u] = {} /\ inFlight'[u] = what
  BY <1>1 DEF IInv, TypeOK
<1>4. TypeOK'
  BY <1>1, <1>2, MovedType DEF IInv, TypeOK, Steps
<1>5. Apart(u)
  BY <1>1, ActiveAlone DEF Apart, Active, IInv, TypeOK
<1>6. OwnPart(u)'
  BY <1>3 DEF OwnPart, Active
<1> QED
  BY <1>4, <1>5, <1>6, OthersKeep

LEMMA LockStep == ASSUME IInv, NEW u \in Units, Lock(u) PROVE IInv'
<1>1. /\ step[u] = "waiting" /\ step' = [step EXCEPT ![u] = "gate"] /\ lock = "free" /\ lock' = u
      /\ UNCHANGED <<document, copy, author, edits, inFlight, outdated, before, credited, row,
                     finding, surfaced, failed>>
  BY DEF Lock, Goto, FixtureFree, world, network, result
<1>2. step'[u] = "gate" /\ credited[u] = {} /\ inFlight[u] = "none"
  BY <1>1 DEF IInv, TypeOK, CreditedLate, InFlightLate
<1>3. TypeOK'
  BY <1>1, MovedType DEF IInv, TypeOK, Steps
<1>4. Apart(u)
  BY <1>1 DEF Apart, IInv, TypeOK, LockHeld, Active
<1>5. OwnPart(u)'
  BY <1>1, <1>2 DEF OwnPart, Active
<1> QED
  BY <1>3, <1>4, <1>5, OthersKeep

LEMMA GateStep == ASSUME IInv, NEW u \in Units, Gate(u) PROVE IInv'
<1>1. UNCHANGED <<document, copy, author, edits, inFlight, outdated>>
  BY DEF Gate, world, network
<1>2. CASE Block(u, "gate", "unusable")
  <2>1. step[u] = "gate" /\ credited[u] = {} /\ inFlight[u] = "none"
    BY <1>2, ActiveAlone DEF Block, Return, Goto, IInv, CreditedLate, Active
  <2>2. credited' = [credited EXCEPT ![u] = {}] /\ inFlight' = [inFlight EXCEPT ![u] = "none"]
    BY <1>1, <1>2, <2>1 DEF Block, IInv, TypeOK
  <2> QED BY <1>1, <1>2, <2>2, ReturnKeeps DEF Block, Rows, IInv, TypeOK
<1>3. CASE Goto(u, "gate", "before") /\ UNCHANGED <<lock, before, credited, result, failed>>
  <2>1. /\ step[u] = "gate" /\ step' = [step EXCEPT ![u] = "before"]
        /\ UNCHANGED <<lock, before, credited, row, finding, surfaced, failed>>
    BY <1>3 DEF Goto, result
  <2>2. step'[u] = "before" /\ credited[u] = {} /\ lock = u /\ inFlight[u] = "none"
    BY <2>1, ActiveAlone DEF IInv, TypeOK, CreditedLate, Active
  <2>3. TypeOK'
    BY <1>1, <2>1, MovedType DEF IInv, TypeOK, Steps
  <2>4. Apart(u)
    BY <1>1, <2>1, ActiveAlone DEF Apart, Active, IInv, TypeOK
  <2>5. OwnPart(u)'
    BY <1>1, <2>1, <2>2 DEF OwnPart, Active
  <2> QED
    BY <2>3, <2>4, <2>5, OthersKeep
<1> QED
  BY <1>2, <1>3 DEF Gate

\* A unit whose owner is shown something is outdated unless it is the resource, or opaque.
LEMMA ShownEffect ==
  ASSUME IInv, NEW u \in Units, NEW view \in Views, Shown(u, view)
  PROVE  /\ outdated' \subseteq Units /\ \A v \in Units \ {u} : v \in outdated' <=> v \in outdated
         /\ outdated \subseteq outdated'
         /\ u \notin outdated' => view \in {document, NotAnObject}
         /\ view \in Document \cup {NotAnObject}
BY DEF Shown, Views, IInv, TypeOK

LEMMA ReadBeforeStep == ASSUME IInv, NEW u \in Units, ReadBefore(u) PROVE IInv'
<1>1. UNCHANGED <<document, copy, author, edits, inFlight>>
  BY DEF ReadBefore, world
<1>2. ASSUME NEW cause \in Rows, Block(u, "before", cause), UNCHANGED outdated PROVE IInv'
  <2>1. step[u] = "before" /\ credited[u] = {} /\ inFlight[u] = "none"
    BY <1>2, ActiveAlone DEF Block, Return, Goto, IInv, CreditedLate, Active
  <2>2. credited' = [credited EXCEPT ![u] = {}] /\ inFlight' = [inFlight EXCEPT ![u] = "none"]
    BY <1>1, <1>2, <2>1 DEF Block, IInv, TypeOK
  <2> QED BY <1>1, <1>2, <2>2, ReturnKeeps DEF Block, IInv, TypeOK
<1>3. ASSUME NEW view \in Views, Goto(u, "before", "write"), before' = [before EXCEPT ![u] = view],
             Shown(u, view), UNCHANGED <<lock, credited, result, failed>>
      PROVE  IInv'
  <2>1. /\ step[u] = "before" /\ step' = [step EXCEPT ![u] = "write"]
        /\ UNCHANGED <<lock, credited, row, finding, surfaced, failed>>
    BY <1>3 DEF Goto, result
  <2>2. step'[u] = "write" /\ credited[u] = {} /\ lock = u /\ before'[u] = view
        /\ inFlight[u] = "none"
    BY <1>3, <2>1, ActiveAlone DEF IInv, TypeOK, CreditedLate, Active
  <2>3. /\ outdated' \subseteq Units /\ \A v \in Units \ {u} : v \in outdated' <=> v \in outdated
        /\ u \notin outdated' => view \in {document, NotAnObject}
        /\ view \in Document \cup {NotAnObject}
    BY <1>3, ShownEffect
  <2>4. before' \in [Units -> Document \cup {NotAnObject}]
    BY <1>3, <2>3 DEF IInv, TypeOK
  <2>5. TypeOK'
    BY <1>1, <2>1, <2>3, <2>4, MovedType DEF IInv, TypeOK, Steps
  <2>6. Apart(u)
    BY <1>1, <1>3, <2>1, <2>3, ActiveAlone DEF Apart, Active, IInv, TypeOK
  <2>7. OwnPart(u)'
    BY <1>1, <2>1, <2>2, <2>3 DEF OwnPart, Active
  <2> QED
    BY <2>5, <2>6, <2>7, OthersKeep
<1>4. CASE \/ Block(u, "before", "transport_error") /\ UNCHANGED outdated
           \/ Block(u, "before", "missing_resource") /\ UNCHANGED outdated
  BY <1>2, <1>4 DEF Rows
<1> QED
  BY <1>3, <1>4 DEF ReadBefore

\* What the write stores is the unit's own.
LEMMA MutationEffect ==
  ASSUME IInv, NEW u \in Units, Submit(Mutation, MutationAuthor(u))
  PROVE  /\ document' \in Document /\ copy' \in Document
         /\ author' \in [Fields -> {"owner", "other"} \cup Units]
         /\ edits' = edits
         /\ \A f \in Fields : \/ document'[f] = document[f] /\ author'[f] = author[f]
                              \/ author'[f] = u
<1>1. /\ DOMAIN Mutation = Fields /\ \A f \in Fields : Mutation[f] \in Values
      /\ \A f \in Fields : MutationAuthor(u)[f] = u
  BY DEF Mutation, MutationAuthor, Values
<1>2. /\ document' \in Document /\ copy' \in Document
      /\ author' \in [Fields -> {"owner", "other"} \cup Units]
      /\ edits' = edits
      /\ \A f \in Fields :
           \/ document'[f] = document[f] /\ author'[f] = author[f]
           \/ /\ f \in DOMAIN Mutation /\ author'[f] = MutationAuthor(u)[f]
              /\ document'[f] = "written" => Mutation[f] = "written"
  BY <1>1, SubmitEffect DEF IInv
<1> QED
  BY <1>1, <1>2

LEMMA WriteStep == ASSUME IInv, NEW u \in Units, Write(u) PROVE IInv'
<1>1. outdated' = outdated
  BY DEF Write
<1>2. step[u] = "write" /\ credited[u] = {} /\ inFlight[u] = "none" /\ lock = u
  BY ActiveAlone DEF Write, Block, Return, Goto, IInv, CreditedLate, Active
<1>3. CASE /\ Submit(Mutation, MutationAuthor(u)) /\ UNCHANGED inFlight
           /\ Block(u, "write", "transport_error")
  <2>1. credited' = [credited EXCEPT ![u] = {}] /\ inFlight' = [inFlight EXCEPT ![u] = "none"]
    BY <1>2, <1>3 DEF Block, IInv, TypeOK
  <2>2. /\ document' \in Document /\ copy' \in Document
        /\ author' \in [Fields -> {"owner", "other"} \cup Units]
        /\ edits' = edits
        /\ \A f \in Fields : \/ document'[f] = document[f] /\ author'[f] = author[f]
                             \/ author'[f] = u
    BY <1>3, MutationEffect
  <2> QED BY <1>1, <1>3, <2>1, <2>2, ReturnKeeps DEF Block, Rows, IInv, TypeOK
<1>4. CASE Block(u, "write", "transport_error") /\ TimesOut(u, "write")
  <2>1. credited' = [credited EXCEPT ![u] = {}] /\ inFlight' = [inFlight EXCEPT ![u] = "write"]
    BY <1>2, <1>4 DEF Block, TimesOut, IInv, TypeOK
  <2>2. UNCHANGED <<document, copy, author, edits>>
    BY <1>4 DEF TimesOut, world
  <2> QED BY <1>1, <1>4, <2>1, <2>2, ReturnKeeps DEF Block, Rows, IInv, TypeOK
<1>5. CASE /\ Submit(Mutation, MutationAuthor(u)) /\ UNCHANGED inFlight
           /\ Goto(u, "write", "after") /\ UNCHANGED <<lock, before, credited, result, failed>>
  <2>1. /\ document' \in Document /\ copy' \in Document
        /\ author' \in [Fields -> {"owner", "other"} \cup Units]
        /\ edits' = edits
        /\ \A f \in Fields : \/ document'[f] = document[f] /\ author'[f] = author[f]
                             \/ author'[f] = u
    BY <1>5, MutationEffect
  <2>2. /\ step' = [step EXCEPT ![u] = "after"]
        /\ UNCHANGED <<inFlight, lock, before, credited, row, finding, surfaced, failed>>
    BY <1>5 DEF Goto, result
  <2>3. step'[u] = "after"
    BY <2>2 DEF IInv, TypeOK
  <2>4. TypeOK'
    BY <1>1, <2>1, <2>2, MovedType DEF IInv, TypeOK, Steps
  <2>5. Apart(u)
    BY <1>1, <1>2, <2>1, <2>2, ActiveAlone DEF Apart, Active, IInv, TypeOK
  <2>6. ASSUME NEW f \in Fields, u \notin outdated, before[u] # NotAnObject,
               document'[f] = "written", before[u][f] # "written"
        PROVE  Creditable(u, author[f])'
    BY <1>2, <2>1, <2>2, <2>6 DEF IInv, WrittenByUnit, Creditable
  <2>7. OwnPart(u)'
    BY <1>1, <1>2, <2>2, <2>3, <2>6 DEF OwnPart, Active
  <2> QED
    BY <2>4, <2>5, <2>7, OthersKeep
<1> QED
  BY <1>3, <1>4, <1>5 DEF Write

\* What the comparison of the two views credits was not in the first; and if neither was
\* outdated it is there now, put there by the unit or past the lock.
LEMMA CreditedIsOwn ==
  ASSUME IInv, NEW u \in Units, step[u] = "after", NEW view \in Views, Shown(u, view),
         NEW f \in Credited(before[u], view)
  PROVE  /\ f \in Fields /\ before[u] # NotAnObject /\ before[u][f] # "written"
         /\ u \notin outdated' => document[f] = "written" /\ Creditable(u, author[f])
<1>1. before[u] # NotAnObject /\ view # NotAnObject /\ f \in Fields
      /\ view[f] = "written" /\ before[u][f] # "written"
  BY DEF Credited
<1>2. ASSUME u \notin outdated' PROVE view = document /\ u \notin outdated
  BY <1>1, <1>2, ShownEffect
<1> QED
  BY <1>1, <1>2 DEF IInv, WrittenByUnit

LEMMA ReadAfterStep == ASSUME IInv, NEW u \in Units, ReadAfter(u) PROVE IInv'
<1>1. UNCHANGED <<document, copy, author, edits, inFlight>>
  BY DEF ReadAfter, world
<1>2. ASSUME NEW cause \in Rows, Block(u, "after", cause), UNCHANGED outdated PROVE IInv'
  <2>1. step[u] = "after" /\ credited[u] = {} /\ inFlight[u] = "none"
    BY <1>2, ActiveAlone DEF Block, Return, Goto, IInv, CreditedLate, Active
  <2>2. credited' = [credited EXCEPT ![u] = {}] /\ inFlight' = [inFlight EXCEPT ![u] = "none"]
    BY <1>1, <1>2, <2>1 DEF Block, IInv, TypeOK
  <2> QED BY <1>1, <1>2, <2>2, ReturnKeeps DEF Block, IInv, TypeOK
<1>3. ASSUME NEW view \in Views, Shown(u, view),
             credited' = [credited EXCEPT ![u] = Credited(before[u], view)],
             IF credited'[u] = {}
             THEN Return(u, "after", "boundaryHeld")
             ELSE Goto(u, "after", "restore") /\ UNCHANGED <<row, before, lock>>,
             UNCHANGED <<finding, failed, surfaced>>
      PROVE  IInv'
  <2>1. step[u] = "after" /\ lock = u /\ inFlight[u] = "none"
    BY <1>3, ActiveAlone DEF Return, Goto, IInv, Active
  <2>2. /\ credited'[u] = Credited(before[u], view)
        /\ \A f \in credited'[u] :
              /\ f \in Fields /\ before[u] # NotAnObject /\ before[u][f] # "written"
              /\ u \notin outdated' => document[f] = "written"
    BY <1>3, <2>1, CreditedIsOwn DEF IInv, TypeOK
  <2>3. credited' \in [Units -> SUBSET Fields]
    BY <1>3, <2>2 DEF IInv, TypeOK
  <2>4. /\ outdated' \subseteq Units /\ \A v \in Units \ {u} : v \in outdated' <=> v \in outdated
    BY <1>3, ShownEffect
  <2>5. CASE credited'[u] = {}
    <3>1. Return(u, "after", "boundaryHeld")
      BY <1>3, <2>5
    <3>2. credited' = [credited EXCEPT ![u] = {}] /\ inFlight' = [inFlight EXCEPT ![u] = "none"]
      BY <1>1, <1>3, <2>1, <2>2, <2>5 DEF IInv, TypeOK
    <3> QED BY <1>1, <1>3, <2>4, <3>1, <3>2, ReturnKeeps DEF Rows, IInv, TypeOK
  <2>6. CASE credited'[u] # {}
    <3>1. step' = [step EXCEPT ![u] = "restore"] /\ UNCHANGED <<row, before, lock>>
      BY <1>3, <2>6 DEF Goto
    <3>2. TypeOK'
      BY <1>1, <1>3, <2>3, <2>4, <3>1, MovedType DEF IInv, TypeOK, Steps
    <3>3. Apart(u)
      BY <1>1, <1>3, <2>1, <2>4, <3>1, ActiveAlone DEF Apart, Active, IInv, TypeOK
    <3>4. step'[u] = "restore"
      BY <3>1 DEF IInv, TypeOK
    <3>5. OwnPart(u)'
      BY <1>1, <2>1, <2>2, <2>6, <3>1, <3>4 DEF OwnPart, Active
    <3> QED BY <3>2, <3>3, <3>5, OthersKeep
  <2> QED BY <2>5, <2>6
<1>4. CASE \/ Block(u, "after", "transport_error") /\ UNCHANGED outdated
           \/ Block(u, "after", "indeterminate_outcome") /\ UNCHANGED outdated
  BY <1>2, <1>4 DEF Rows
<1> QED
  BY <1>3, <1>4 DEF ReadAfter

\* The unit concludes with a failure, or with nothing of its own left but where there was
\* no field.
LEMMA ConcludeKeeps ==
  ASSUME IInv, NEW u \in Units, NEW from \in {"restore", "verify"}, NEW failure \in BOOLEAN,
         Conclude(u, from, failure), document' \in Document, copy' \in Document,
         author' \in [Fields -> {"owner", "other"} \cup Units], edits' = edits,
         \A f \in Fields : author'[f] = author[f] \/ author'[f] \in {"owner", u},
         NEW what \in {"none", "restoration"}, inFlight' = [inFlight EXCEPT ![u] = what],
         what = "restoration" => failure,
         outdated' \subseteq Units, \A v \in Units \ {u} : v \in outdated' <=> v \in outdated,
         ~ failure /\ u \notin outdated' =>
           \A f \in credited[u] : author'[f] = u => before[u][f] = "absent"
  PROVE  IInv'
<1>1. /\ step[u] = from /\ step' = [step EXCEPT ![u] = "returned"]
      /\ lock' = "free" /\ row' \in [Units -> Rows]
      /\ failed' = [failed EXCEPT ![u] = failure]
      /\ finding' \in [Units -> BOOLEAN] /\ surfaced' \in [Units -> BOOLEAN]
      /\ UNCHANGED <<before, credited>>
  BY ConcludeEffect DEF IInv
<1>2. step'[u] = "returned" /\ failed'[u] = failure /\ inFlight'[u] = what
  BY <1>1 DEF IInv, TypeOK
<1>3. inFlight' \in [Units -> {"none", "write", "restoration", "landed"}]
      /\ failed' \in [Units -> BOOLEAN]
  BY <1>1 DEF IInv, TypeOK
<1>4. TypeOK'
  BY <1>1, <1>3, MovedType DEF IInv, TypeOK, Steps
<1>5. Apart(u)
  BY <1>1, ActiveAlone DEF Apart, Active, IInv, TypeOK
<1>6. OwnPart(u)
  BY InvariantIsOwnParts
<1>7. OwnPart(u)'
  BY <1>1, <1>2, <1>6 DEF OwnPart, Active
<1> QED
  BY <1>4, <1>5, <1>7, OthersKeep

\* What the restoration stores is the owner's, but for a null, and never the written value.
LEMMA RestorationEffect ==
  ASSUME IInv, NEW u \in Units, credited[u] # {}, Submit(Restoration(u), RestorationAuthor(u))
  PROVE  /\ document' \in Document /\ copy' \in Document
         /\ author' \in [Fields -> {"owner", "other"} \cup Units]
         /\ edits' = edits
         /\ \A f \in Fields :
              \/ document'[f] = document[f] /\ author'[f] = author[f]
              \/ /\ f \in credited[u] /\ document'[f] # "written"
                 /\ author'[f] = IF before[u][f] = "absent" THEN u ELSE "owner"
<1>1. /\ before[u] \in Document /\ credited[u] \subseteq Fields
      /\ \A f \in credited[u] : before[u][f] # "written"
  BY DEF IInv, TypeOK, CreditedIsNew
<1>2. /\ DOMAIN Restoration(u) = credited[u]
      /\ \A f \in credited[u] : Restoration(u)[f] = IF before[u][f] = "absent" THEN "null"
                                                                      ELSE before[u][f]
      /\ \A f \in credited[u] : RestorationAuthor(u)[f] = IF before[u][f] = "absent" THEN u
                                                                              ELSE "owner"
  BY DEF Restoration, Restored, RestorationAuthor
<1>3. \A f \in credited[u] : Restoration(u)[f] \in Values /\ Restoration(u)[f] # "written"
  BY <1>1, <1>2 DEF Document, Values
<1>4. /\ document' \in Document /\ copy' \in Document
      /\ author' \in [Fields -> {"owner", "other"} \cup Units]
      /\ edits' = edits
      /\ \A f \in Fields :
           \/ document'[f] = document[f] /\ author'[f] = author[f]
           \/ /\ f \in DOMAIN Restoration(u) /\ author'[f] = RestorationAuthor(u)[f]
              /\ document'[f] = "written" => Restoration(u)[f] = "written"
  BY <1>1, <1>2, <1>3, SubmitEffect DEF IInv
<1> QED
  BY <1>2, <1>3, <1>4

LEMMA RestoreStep == ASSUME IInv, NEW u \in Units, Restore(u) PROVE IInv'
<1>1. /\ step[u] = "restore" /\ lock = u /\ inFlight[u] = "none" /\ credited[u] # {}
      /\ outdated' = outdated
  BY ActiveAlone DEF Restore, Conclude, Goto, IInv, Active, LeftIsWritten
<1>2. CASE Conclude(u, "restore", TRUE) /\ TimesOut(u, "restoration")
  <2>1. UNCHANGED <<document, copy, author, edits>>
        /\ inFlight' = [inFlight EXCEPT ![u] = "restoration"]
    BY <1>2 DEF TimesOut, world
  <2> QED BY <1>1, <1>2, <2>1, ConcludeKeeps DEF IInv, TypeOK
<1>3. ASSUME Submit(Restoration(u), RestorationAuthor(u))
      PROVE  /\ document' \in Document /\ copy' \in Document
             /\ author' \in [Fields -> {"owner", "other"} \cup Units]
             /\ edits' = edits
             /\ \A f \in Fields :
                  \/ document'[f] = document[f] /\ author'[f] = author[f]
                  \/ /\ f \in credited[u] /\ document'[f] # "written"
                     /\ author'[f] = IF before[u][f] = "absent" THEN u ELSE "owner"
  BY <1>1, <1>3, RestorationEffect
<1>4. CASE /\ Submit(Restoration(u), RestorationAuthor(u)) /\ UNCHANGED inFlight
           /\ Conclude(u, "restore", TRUE)
  <2>1. inFlight' = [inFlight EXCEPT ![u] = "none"]
    BY <1>1, <1>4 DEF IInv, TypeOK
  <2>2. \A f \in Fields : author'[f] = author[f] \/ author'[f] \in {"owner", u}
    BY <1>3, <1>4
  <2> QED BY <1>1, <1>3, <1>4, <2>1, <2>2, ConcludeKeeps DEF IInv, TypeOK
<1>5. CASE /\ Submit(Restoration(u), RestorationAuthor(u)) /\ UNCHANGED inFlight
           /\ Goto(u, "restore", "verify") /\ UNCHANGED <<lock, before, credited, result, failed>>
  <2>1. /\ step' = [step EXCEPT ![u] = "verify"]
        /\ UNCHANGED <<inFlight, lock, before, credited, row, finding, surfaced, failed>>
    BY <1>5 DEF Goto, result
  <2>2. step'[u] = "verify"
    BY <2>1 DEF IInv, TypeOK
  <2>3. TypeOK'
    BY <1>1, <1>3, <1>5, <2>1, MovedType DEF IInv, TypeOK, Steps
  <2>4. Apart(u)
    BY <1>1, <1>3, <1>5, <2>1, ActiveAlone DEF Apart, Active, IInv, TypeOK
  <2>5. OwnPart(u) /\ credited[u] \subseteq Fields
    BY InvariantIsOwnParts DEF IInv, TypeOK
  <2>6. ASSUME u \notin outdated, NEW f \in credited[u], author'[f] = u
        PROVE  document'[f] = "written" \/ before[u][f] = "absent"
    BY <1>1, <1>3, <1>5, <2>5, <2>6 DEF OwnPart
  <2>7. OwnPart(u)'
    BY <1>1, <2>1, <2>2, <2>5, <2>6 DEF OwnPart, Active
  <2> QED
    BY <2>3, <2>4, <2>7, OthersKeep
<1> QED
  BY <1>2, <1>4, <1>5 DEF Restore

LEMMA VerifyStep == ASSUME IInv, NEW u \in Units, Verify(u) PROVE IInv'
<1>1. UNCHANGED <<document, copy, author, edits, inFlight>>
  BY DEF Verify, world
<1>2. step[u] = "verify" /\ inFlight[u] = "none"
  BY ActiveAlone DEF Verify, Conclude, Goto, Active
<1>3. inFlight' = [inFlight EXCEPT ![u] = "none"]
  BY <1>1, <1>2 DEF IInv, TypeOK
<1>4. CASE Conclude(u, "verify", TRUE) /\ UNCHANGED outdated
  BY <1>1, <1>3, <1>4, ConcludeKeeps DEF IInv, TypeOK
<1>5. ASSUME NEW view \in Views, Conclude(u, "verify", ~Back(u, view)), Shown(u, view) PROVE IInv'
  <2>1. /\ outdated' \subseteq Units /\ \A v \in Units \ {u} : v \in outdated' <=> v \in outdated
        /\ outdated \subseteq outdated'
        /\ u \notin outdated' => view \in {document, NotAnObject}
    BY <1>5, ShownEffect
  <2>2. ASSUME Back(u, view), u \notin outdated', NEW f \in credited[u], author[f] = u
        PROVE  before[u][f] = "absent"
    <3>1. document[f] = Restored(u, f)
      BY <2>1, <2>2 DEF Back
    <3>2. before[u][f] # "written" /\ (document[f] = "written" \/ before[u][f] = "absent")
      BY <1>2, <2>1, <2>2 DEF IInv, LeftIsWritten, CreditedIsNew
    <3> QED BY <3>1, <3>2 DEF Restored
  <2>3. (~Back(u, view)) \in BOOLEAN
    OBVIOUS
  <2> QED
    BY <1>1, <1>3, <1>5, <2>1, <2>2, <2>3, ConcludeKeeps DEF IInv, TypeOK
<1> QED
  BY <1>4, <1>5 DEF Verify

-----------------------------------------------------------------------------
(* What happens to the resource past the lock.                             *)

\* A unit that is back without a credit, or with a failure.
Over(v) == step[v] = "returned" /\ (credited[v] = {} \/ failed[v])

\* No unit moves. A field that changes becomes nobody's who still has something to say of
\* it; if it changes to the written value, somebody's whom the lock does not hold off.
LEMMA PastTheLock ==
  ASSUME IInv, TypeOK', UNCHANGED <<lock, step, before, credited, failed, outdated>>,
         InFlightLate', \A v \in Units : inFlight[v] = "landed" => inFlight'[v] = "landed",
         \A f \in Fields :
           \/ document'[f] = document[f] /\ author'[f] = author[f]
           \/ /\ \A v \in Units : author'[f] = v => Over(v)
              /\ document'[f] = "written" =>
                   \/ author'[f] = "other"
                   \/ author'[f] \in Units /\ inFlight'[author'[f]] = "landed"
  PROVE  IInv'
<1>1. LockHeld' /\ CreditedLate' /\ CreditedIsNew'
  BY DEF IInv, LockHeld, CreditedLate, CreditedIsNew, Active
<1>2. WrittenByUnit'
  <2>1. ASSUME NEW u \in Units, NEW f \in Fields, step[u] \in {"write", "after"}, u \notin outdated,
               before[u] # NotAnObject, document'[f] = "written", before[u][f] # "written"
        PROVE  Creditable(u, author[f])'
    <3>1. CASE document'[f] = document[f] /\ author'[f] = author[f]
      BY <2>1, <3>1 DEF IInv, WrittenByUnit, Creditable
    <3>2. CASE ~ (document'[f] = document[f] /\ author'[f] = author[f])
      BY <2>1, <3>2 DEF Creditable
    <3> QED BY <3>1, <3>2
  <2> QED BY <2>1 DEF WrittenByUnit
<1>3. LeftIsWritten'
  <2>1. ASSUME NEW u \in Units, step[u] \in {"restore", "verify"}, u \notin outdated,
               NEW f \in credited[u], author'[f] = u
        PROVE  document'[f] = "written" \/ before[u][f] = "absent"
    <3>1. f \in Fields /\ ~ Over(u)
      BY <2>1 DEF IInv, TypeOK, Over
    <3> QED BY <2>1, <3>1 DEF IInv, LeftIsWritten
  <2>2. \A u \in Units : step[u] \in {"restore", "verify"} => credited[u] # {}
    BY DEF IInv, LeftIsWritten
  <2> QED BY <2>1, <2>2 DEF LeftIsWritten
<1>4. RestoredOrReported'
  <2>1. ASSUME NEW u \in Units, step[u] = "returned", ~failed[u], u \notin outdated,
               NEW f \in credited[u], author'[f] = u
        PROVE  before[u][f] = "absent"
    <3>1. f \in Fields /\ ~ Over(u)
      BY <2>1 DEF IInv, TypeOK, Over
    <3> QED BY <2>1, <3>1 DEF IInv, RestoredOrReported
  <2> QED BY <2>1 DEF RestoredOrReported
<1> QED
  BY <1>1, <1>2, <1>3, <1>4 DEF IInv

\* Somebody else's edit may look like a write, but the value is then the other actor's.
LEMMA EditStep == ASSUME IInv, NEW g \in Fields, Edit(g) PROVE IInv'
<1>1. PICK v \in {"edited", "written"} : Becomes([document EXCEPT ![g] = v])
  BY DEF Edit
<1>2. /\ edits < MaxEdits /\ edits' = edits + 1
      /\ document' = [document EXCEPT ![g] = v] /\ copy' \in {copy, document}
      /\ author' = [author EXCEPT ![g] = "other"]
      /\ UNCHANGED <<inFlight, outdated, lock, step, before, credited, row, finding, surfaced, failed>>
  BY <1>1 DEF Edit, Becomes, network, result
<1>3. \A f \in Fields : \/ document'[f] = document[f] /\ author'[f] = author[f]
                        \/ author'[f] = "other"
  BY <1>2 DEF IInv, TypeOK, Document
<1>4. TypeOK'
  <2>1. document' \in Document /\ copy' \in Document
    BY <1>2 DEF IInv, TypeOK, Document, Values
  <2>2. edits' \in 0 .. MaxEdits
    BY <1>2 DEF IInv, TypeOK
  <2> QED BY <1>2, <2>1, <2>2 DEF IInv, TypeOK
<1>5. InFlightLate'
  BY <1>2 DEF IInv, InFlightLate
<1> QED
  BY <1>2, <1>3, <1>4, <1>5, PastTheLock

\* A request that lands late is of a unit that is back: without a credit if it is its
\* write, with a failure if it is its restoration.
LEMMA LandStep == ASSUME IInv, NEW u \in Units, Land(u) PROVE IInv'
<1>1. /\ UNCHANGED <<outdated, lock, step, before, credited, row, finding, surfaced, failed>>
      /\ inFlight[u] \in {"write", "restoration"}
  BY DEF Land, result
<1>2. Over(u)
  BY <1>1 DEF IInv, InFlightLate, Over
<1>3. CASE /\ inFlight[u] = "write" /\ Submit(Mutation, MutationAuthor(u))
           /\ inFlight' = [inFlight EXCEPT ![u] = "landed"]
  <2>1. /\ document' \in Document /\ copy' \in Document
        /\ author' \in [Fields -> {"owner", "other"} \cup Units]
        /\ edits' = edits
        /\ \A f \in Fields : \/ document'[f] = document[f] /\ author'[f] = author[f]
                             \/ author'[f] = u
    BY <1>3, MutationEffect
  <2>2. inFlight'[u] = "landed" /\ TypeOK'
    BY <1>1, <1>3, <2>1 DEF IInv, TypeOK
  <2>3. InFlightLate'
    BY <1>1, <1>3 DEF IInv, TypeOK, InFlightLate
  <2>4. \A v \in Units : inFlight[v] = "landed" => inFlight'[v] = "landed"
    BY <1>3 DEF IInv, TypeOK
  <2> QED
    BY <1>1, <1>2, <2>1, <2>2, <2>3, <2>4, PastTheLock
<1>4. CASE /\ inFlight[u] = "restoration" /\ Submit(Restoration(u), RestorationAuthor(u))
           /\ inFlight' = [inFlight EXCEPT ![u] = "none"]
  <2>1. CASE credited[u] # {}
    <3>1. /\ document' \in Document /\ copy' \in Document
          /\ author' \in [Fields -> {"owner", "other"} \cup Units]
          /\ edits' = edits
          /\ \A f \in Fields :
               \/ document'[f] = document[f] /\ author'[f] = author[f]
               \/ document'[f] # "written" /\ author'[f] \in {u, "owner"}
      BY <1>4, <2>1, RestorationEffect
    <3>2. TypeOK'
      BY <1>1, <1>4, <3>1 DEF IInv, TypeOK
    <3>3. InFlightLate'
      BY <1>1, <1>4 DEF IInv, TypeOK, InFlightLate
    <3>4. \A v \in Units : inFlight[v] = "landed" => inFlight'[v] = "landed"
      BY <1>4 DEF IInv, TypeOK
    <3>5. "owner" \notin Units
      OBVIOUS
    <3> QED
      BY <1>1, <1>2, <3>1, <3>2, <3>3, <3>4, <3>5, PastTheLock
  <2>2. CASE credited[u] = {}
    <3>1. DOMAIN Restoration(u) = {}
      BY <2>2 DEF Restoration
    <3>2. /\ document' \in Document /\ copy' \in Document
          /\ author' \in [Fields -> {"owner", "other"} \cup Units]
          /\ edits' = edits
          /\ \A f \in Fields :
               \/ document'[f] = document[f] /\ author'[f] = author[f]
               \/ /\ f \in DOMAIN Restoration(u) /\ author'[f] = RestorationAuthor(u)[f]
                  /\ document'[f] = "written" => Restoration(u)[f] = "written"
      BY <1>4, <3>1, SubmitEffect DEF IInv
    <3>3. TypeOK'
      BY <1>1, <1>4, <3>2 DEF IInv, TypeOK
    <3>4. InFlightLate'
      BY <1>1, <1>4 DEF IInv, TypeOK, InFlightLate
    <3>5. \A v \in Units : inFlight[v] = "landed" => inFlight'[v] = "landed"
      BY <1>4 DEF IInv, TypeOK
    <3> QED
      BY <1>1, <3>1, <3>2, <3>3, <3>4, <3>5, PastTheLock
  <2> QED BY <2>1, <2>2
<1> QED
  BY <1>3, <1>4 DEF Land

LEMMA StepKeeps == IInv /\ [Next]_vars => IInv'
<1> SUFFICES ASSUME IInv, [Next]_vars PROVE IInv'
  OBVIOUS
<1>1. CASE UNCHANGED vars
  BY <1>1 DEF vars, IInv, TypeOK, LockHeld, Active, CreditedLate, WrittenByUnit, Creditable,
    CreditedIsNew, LeftIsWritten, InFlightLate, RestoredOrReported
<1> QED
  BY <1>1, LockStep, GateStep, ReadBeforeStep, WriteStep, ReadAfterStep, RestoreStep,
    VerifyStep, LandStep, EditStep DEF Next, UnitStep, Returned

-----------------------------------------------------------------------------
(* The theorems.                                                           *)

\* The inductive invariant holds throughout.
THEOREM Invariance == Spec => []IInv
<1> QED BY Initially, StepKeeps, PTL DEF Spec

\* Every variable of the write check keeps its type.
THEOREM TypeCorrect == Spec => []TypeOK
<1>1. IInv => TypeOK
  BY DEF IInv
<1> QED BY <1>1, Invariance, PTL

\* A unit that returns without a restoration failure, and whose owner was shown nothing
\* outdated, leaves nothing of its write in the fields it was credited with, but the null
\* it wrote where there was no field.
THEOREM LeftIsReported == Spec => []RestoredOrReported
<1>1. IInv => RestoredOrReported
  BY DEF IInv
<1> QED BY <1>1, Invariance, PTL

\* A credit is given in the step that compares the views.
LEMMA CreditStep ==
  IInv /\ [Next]_vars => \A u \in Units : \A f \in credited'[u] \ credited[u] :
                          u \in outdated' \/ Creditable(u, author[f])
<1> SUFFICES ASSUME IInv, [Next]_vars, NEW u \in Units, NEW f \in credited'[u] \ credited[u],
                    u \notin outdated'
             PROVE  Creditable(u, author[f])
  OBVIOUS
<1>1. PICK v \in Units : ReadAfter(v) /\ ~ UNCHANGED credited
  BY DEF Next, vars, UnitStep, Lock, Gate, ReadBefore, Write, Restore, Verify, Land, Edit, Returned,
    Block, Conclude
<1>2. PICK view \in Views : /\ credited' = [credited EXCEPT ![v] = Credited(before[v], view)]
                            /\ step[v] = "after" /\ Shown(v, view)
  BY <1>1 DEF ReadAfter, Block, Return, Goto
<1>3. v = u /\ f \in Credited(before[u], view)
  BY <1>2 DEF IInv, TypeOK
<1> QED
  BY <1>2, <1>3, CreditedIsOwn

\* A field is credited to a unit only if the value was put there since its first view by
\* the unit itself or by somebody whom the lock does not hold off, the other actor or a
\* write that landed after its timeout; or if the owner was shown an outdated version.
THEOREM CreditsAreDue == Spec => CreditIsDue
<1> QED BY Invariance, CreditStep, PTL DEF Spec, CreditIsDue
=============================================================================
