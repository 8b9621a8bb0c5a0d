-------------------------- MODULE CrossOwnerWrite --------------------------
(***************************************************************************)
(* internal/check/crossowner_mutate.go and mutation.go: one fixture, the   *)
(* cross-owner write units planned for it, an application that may refuse, *)
(* discard, normalise or half apply a write, requests that are lost or     *)
(* land after their timeout, a cache or a replica that may answer a read   *)
(* with an older version, and another actor who edits the same resource,   *)
(* to a value of their own or to the very value the units write.           *)
(*                                                                         *)
(* A unit reads as the owner, writes as the non-owner, reads as the owner  *)
(* again, and if the owner's view now carries what was written where it    *)
(* did not before, restores those fields as the owner and reads once more. *)
(*                                                                         *)
(* A field's value is abstracted to where it came from: as it was, the one *)
(* configured to be written, what the application made of that one,        *)
(* another actor's, JSON null, or no such field. Which of two identities   *)
(* is dead is module CrossOwnerRead's subject; here the gate may refuse,   *)
(* and a read may fail, at any time.                                       *)
(***************************************************************************)
EXTENDS Naturals

CONSTANTS
  Units,     \* the non-owners that write to the fixture
  Fields,    \* the fields of fixture.mutation.values
  Initial,   \* what the resource may be when the scan comes to it
  Shared,    \* the fixture's crossOwnerAccess is allowed
  MaxEdits   \* bound: how often the other actor edits the resource

ASSUME WriteAssumption ==
  /\ Fields # {}
  /\ Initial \subseteq [Fields -> {"original", "written", "absent"}]
  /\ Shared \in BOOLEAN
  /\ MaxEdits \in Nat
  /\ Units \cap {"free", "owner", "other"} = {}

\* "written" compares equal to the configured value; the rest do not.
Values == {"original", "written", "normalised", "edited", "null", "absent"}

Document == [Fields -> Values]

\* The owner's view when it is no JSON object.
NotAnObject == [f \in Fields |-> "opaque"]

VARIABLES
  document,  \* the resource, as the application stores it
  copy,      \* an older version of it, that a cache or a replica may still answer with
  author,    \* observation only: whose value each field holds
  edits,     \* how often the other actor has edited
  inFlight,  \* what became of a unit's request that timed out before it was stored
  outdated,  \* observation only: the units whose owner was shown an older version
  lock,      \* the fixture's lock: the unit that holds it, or "free"
  step,      \* where each unit is
  before,    \* the owner's first view, per unit
  credited,  \* mutationApplied(...).Before, per unit: the fields it names
  row,       \* the unit's row
  finding,   \* whether the unit raised a (confirmed) finding
  failed,    \* restoreOutcome.toolFailure # ""
  surfaced   \* Result.ToolFailure # ""

vars == <<document, copy, author, edits, inFlight, outdated, lock, step, before,
          credited, row, finding, failed, surfaced>>

world == <<document, copy, author, edits>>
network == <<inFlight, outdated>>
result == <<row, finding, surfaced>>

Steps == {"waiting", "gate", "before", "write", "after", "restore", "verify", "returned"}

\* "boundaryHeld" and "changed" are executed; the others are causes of a blocked row.
Rows == {"none", "boundaryHeld", "changed", "unusable", "transport_error",
         "missing_resource", "indeterminate_outcome"}

\* A field may already hold the value that will be written, or not exist.
Init ==
  /\ document \in Initial
  /\ copy = document
  /\ author = [f \in Fields |-> "owner"]
  /\ edits = 0
  /\ inFlight = [u \in Units |-> "none"]
  /\ outdated = {}
  /\ lock = "free"
  /\ step = [u \in Units |-> "waiting"]
  /\ before = [u \in Units |-> NotAnObject]
  /\ credited = [u \in Units |-> {}]
  /\ row = [u \in Units |-> "none"]
  /\ finding = [u \in Units |-> FALSE]
  /\ failed = [u \in Units |-> FALSE]
  /\ surfaced = [u \in Units |-> FALSE]

\* The resource changes. A cache or a replica may have been filled at any time before, so
\* it keeps what it had or what there was until now.
Becomes(now) ==
  /\ document' = now
  /\ copy' \in IF now = document THEN {copy} ELSE {copy, document}

\* Somebody else changes a field: to a value of their own, or to the configured one.
Edit(f) ==
  /\ edits < MaxEdits
  /\ \E u \in Units : step[u] # "returned"
  /\ edits' = edits + 1
  /\ \E v \in {"edited", "written"} \ {document[f]} : Becomes([document EXCEPT ![f] = v])
  /\ author' = [author EXCEPT ![f] = "other"]
  /\ UNCHANGED <<network, lock, step, before, credited, result, failed>>

-----------------------------------------------------------------------------
(* Requests.                                                               *)

\* The non-owner's write, or the owner's restoration, reaches the application: it
\* stores any part of it, and of what is to be written it may make something else. `by`
\* is then the author of what differs.
Submit(sent, by) ==
  \E kept \in SUBSET DOMAIN sent :
    \E asSent \in SUBSET kept :
      LET now == [f \in Fields |-> IF f \notin kept THEN document[f]
                                  ELSE IF sent[f] # "written" \/ f \in asSent THEN sent[f]
                                  ELSE "normalised"]
      IN /\ Becomes(now)
         /\ author' = [f \in Fields |-> IF now[f] # document[f] THEN by[f] ELSE author[f]]
         /\ UNCHANGED edits

\* What reading as the owner may show: the resource as it is, an older version of it, or
\* something that is no object. A read may also fail, or be answered by a refusal.
Views == {document, copy, NotAnObject}
Shown(u, view) == outdated' = IF view = copy /\ copy # document THEN outdated \cup {u} ELSE outdated

\* The client's timeout ends a request that the application has not stored yet.
TimesOut(u, what) == inFlight' = [inFlight EXCEPT ![u] = what] /\ UNCHANGED world

-----------------------------------------------------------------------------
(* A unit.                                                                 *)

Goto(u, from, to) ==
  /\ step[u] = from
  /\ step' = [step EXCEPT ![u] = to]

\* The engine's deferred unlock. (LockKept: the fault of one that is not deferred.)
LockKept == lock
Unlocked == "free"

\* A unit that returns without a credit has no more use for its first view.
Return(u, from, said) ==
  /\ Goto(u, from, "returned")
  /\ row' = [row EXCEPT ![u] = said]
  /\ before' = [before EXCEPT ![u] = NotAnObject]
  /\ lock' = Unlocked

Block(u, from, cause) ==
  /\ Return(u, from, cause)
  /\ UNCHANGED <<credited, finding, failed, surfaced>>

\* The engine's lock on the fixture, held until the unit returns. (NoLock: the
\* fault of not waiting for it.)
NoLock == TRUE
FixtureFree == lock = "free"

Lock(u) ==
  /\ Goto(u, "waiting", "gate")
  /\ FixtureFree
  /\ lock' = u
  /\ UNCHANGED <<world, network, before, credited, result, failed>>

\* identitiesUsable
Gate(u) ==
  /\ \/ Block(u, "gate", "unusable")
     \/ Goto(u, "gate", "before") /\ UNCHANGED <<lock, before, credited, result, failed>>
  /\ UNCHANGED <<world, network>>

\* Step 1, the owner's view before the write.
ReadBefore(u) ==
  /\ \/ Block(u, "before", "transport_error") /\ UNCHANGED outdated
     \/ Block(u, "before", "missing_resource") /\ UNCHANGED outdated
     \/ /\ Goto(u, "before", "write")
        /\ \E view \in Views : before' = [before EXCEPT ![u] = view] /\ Shown(u, view)
        /\ UNCHANGED <<lock, credited, result, failed>>
  /\ UNCHANGED <<world, inFlight>>

\* What the unit sends, and who is then the author.
Mutation == [f \in Fields |-> "written"]
MutationAuthor(u) == [f \in Fields |-> u]

\* Step 2, the non-owner's write. Its status is not evidence and is not kept. The answer
\* to a write that was applied may be lost, and a write that timed out may yet land.
Write(u) ==
  /\ \/ /\ \/ Block(u, "write", "transport_error")
           \/ Goto(u, "write", "after") /\ UNCHANGED <<lock, before, credited, result, failed>>
        /\ Submit(Mutation, MutationAuthor(u))
        /\ UNCHANGED inFlight
     \/ Block(u, "write", "transport_error") /\ TimesOut(u, "write")
  /\ UNCHANGED outdated

\* mutationApplied: a field is credited when the owner now sees the written value
\* and did not before. (SeenAfter: the fault of comparing the second view alone.)
SeenAfter(was, now) ==
  IF NotAnObject \in {was, now} THEN {} ELSE {f \in Fields : now[f] = "written"}
Credited(was, now) ==
  IF NotAnObject \in {was, now} THEN {}
  ELSE {f \in Fields : now[f] = "written" /\ was[f] # "written"}

\* Step 3, the owner's view after it. A view without a credited field, whether the
\* write was refused, discarded, normalised or the view unreadable as an object, is
\* an enforced boundary to the report.
ReadAfter(u) ==
  /\ \/ Block(u, "after", "transport_error") /\ UNCHANGED outdated
     \/ Block(u, "after", "indeterminate_outcome") /\ UNCHANGED outdated
     \/ \E view \in Views :
          /\ Shown(u, view)
          /\ credited' = [credited EXCEPT ![u] = Credited(before[u], view)]
          /\ IF credited'[u] = {}
             THEN Return(u, "after", "boundaryHeld")
             ELSE Goto(u, "after", "restore") /\ UNCHANGED <<row, before, lock>>
          /\ UNCHANGED <<finding, failed, surfaced>>
  /\ UNCHANGED <<world, inFlight>>

\* The value a credited field is given back. There is none for a field that was
\* absent: encoding/json writes null for it.
Restored(u, f) == IF before[u][f] = "absent" THEN "null" ELSE before[u][f]
Restoration(u) == [f \in credited[u] |-> Restored(u, f)]

\* What is left of a write of u after its restoration: a null is still u's doing.
RestorationAuthor(u) == [f \in credited[u] |-> IF before[u][f] = "absent" THEN u ELSE "owner"]

\* The unit's result. On a shared fixture the restoration's failure goes into the
\* row's detail only.
Conclude(u, from, failure) ==
  /\ Goto(u, from, "returned")
  /\ failed' = [failed EXCEPT ![u] = failure]
  /\ row' = [row EXCEPT ![u] = "changed"]
  /\ finding' = [finding EXCEPT ![u] = ~Shared]
  /\ surfaced' = [surfaced EXCEPT ![u] = failure /\ ~Shared]
  /\ lock' = Unlocked
  /\ UNCHANGED <<before, credited>>

\* The credited fields are written back as the owner; the status is not looked at.
Restore(u) ==
  /\ \/ /\ \/ Conclude(u, "restore", TRUE)
           \/ Goto(u, "restore", "verify") /\ UNCHANGED <<lock, before, credited, result, failed>>
        /\ Submit(Restoration(u), RestorationAuthor(u))
        /\ UNCHANGED inFlight
     \/ Conclude(u, "restore", TRUE) /\ TimesOut(u, "restoration")
  /\ UNCHANGED outdated

\* A request that timed out is stored after all, when its unit has returned and given the
\* fixture back. It may also never be.
Land(u) ==
  /\ \/ /\ inFlight[u] = "write"
        /\ Submit(Mutation, MutationAuthor(u))
        /\ inFlight' = [inFlight EXCEPT ![u] = "landed"]
     \/ /\ inFlight[u] = "restoration"
        /\ Submit(Restoration(u), RestorationAuthor(u))
        /\ inFlight' = [inFlight EXCEPT ![u] = "none"]
  /\ UNCHANGED <<outdated, lock, step, before, credited, result, failed>>

\* valuesPresent. (Assumed: the fault of taking the restoring request's success for
\* a restoration.)
Assumed(u, view) == TRUE
Back(u, view) == view # NotAnObject /\ \A f \in credited[u] : view[f] = Restored(u, f)

Verify(u) ==
  /\ \/ Conclude(u, "verify", TRUE) /\ UNCHANGED outdated
     \/ \E view \in Views : Conclude(u, "verify", ~Back(u, view)) /\ Shown(u, view)
  /\ UNCHANGED <<world, inFlight>>

UnitStep(u) ==
  \/ Lock(u) \/ Gate(u) \/ ReadBefore(u) \/ Write(u) \/ ReadAfter(u) \/ Restore(u) \/ Verify(u)

Returned == (\A u \in Units : step[u] = "returned") /\ UNCHANGED vars

Next ==
  \/ \E u \in Units : UnitStep(u) \/ Land(u)
  \/ \E f \in Fields : Edit(f)
  \/ Returned

\* The client's timeout ends every request, and a unit waiting for the lock gets it:
\* finitely many units ever want it.
Fairness == \A u \in Units : WF_vars(UnitStep(u))

Spec == Init /\ [][Next]_vars /\ Fairness

-----------------------------------------------------------------------------
TypeOK ==
  /\ document \in Document
  /\ copy \in Document
  /\ author \in [Fields -> {"owner", "other"} \cup Units]
  /\ edits \in 0 .. MaxEdits
  /\ inFlight \in [Units -> {"none", "write", "restoration", "landed"}]
  /\ outdated \subseteq Units
  /\ lock \in {"free"} \cup Units
  /\ step \in [Units -> Steps]
  /\ before \in [Units -> Document \cup {NotAnObject}]
  /\ credited \in [Units -> SUBSET Fields]
  /\ row \in [Units -> Rows]
  /\ finding \in [Units -> BOOLEAN]
  /\ failed \in [Units -> BOOLEAN]
  /\ surfaced \in [Units -> BOOLEAN]

\* Whose doing a value may be that is credited to u: its own, or that of somebody the
\* fixture's lock does not hold off, the other actor or a write that landed too late.
Creditable(u, by) == by = u \/ by = "other" \/ (by \in Units /\ inFlight[by] = "landed")

\* "Only a change visible to the owner proves the write landed": a unit is credited with a
\* field only if the value was put there since its first view, and by its own write; not
\* with a value the resource had before, and not with another unit's, whose requests lie
\* on the other side of the fixture's lock. The comparison is of values alone, so three
\* cases are excepted: somebody else saved the same value, another unit's write timed out
\* and landed after that unit had returned, or the owner was shown an outdated version.
CreditIsDue ==
  [][\A u \in Units : \A f \in credited'[u] \ credited[u] :
       u \in outdated' \/ Creditable(u, author[f])]_vars

\* A restoration said to be verified leaves nothing of the write in the fields that were
\* credited, but for the null left where there was no field; unless the owner was shown
\* an outdated version, which the comparison takes for the resource.
RestoredOrReported ==
  \A u \in Units : step[u] = "returned" /\ ~failed[u] /\ u \notin outdated =>
    \A f \in credited[u] : (author[f] = u) => (before[u][f] = "absent")

\* "What is promised is that the report says which of those happened, because
\* silently leaving a resource modified is the kind of side effect that makes a
\* team stop running a security tool": a unit that concludes anything while its
\* write is still there, and whose owner saw the resource as it is, says so as
\* run-level tool state.
LeftModifiedIsSurfaced ==
  \A u \in Units \ outdated :
    row[u] \in {"boundaryHeld", "changed"} /\ (\E f \in Fields : author[f] = u) => surfaced[u]

\* "toolFailure is set when the resource was left modified. It is surfaced as
\* run-level tool state rather than buried in a detail string."
FailedRestorationIsSurfaced ==
  \A u \in Units : step[u] = "returned" /\ failed[u] => surfaced[u]

\* Every unit returns, whatever is lost or refused, so the fixture's lock is always
\* given back to the next.
UnitsReturn == <>(\A u \in Units : step[u] = "returned")
=============================================================================
