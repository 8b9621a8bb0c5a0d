----------------------------- MODULE Accounting -----------------------------
(***************************************************************************)
(* What the assessment engine promises its reader, with no goroutine, lock *)
(* or cancellation in sight: every planned unit of work is accounted for   *)
(* exactly once, a unit once accounted for stays so, and the report is     *)
(* published after the last of them and is published eventually.           *)
(*                                                                         *)
(* Module Engine implements this specification (EngineProofs proves the    *)
(* safety half for every number of units, the run "engine" checks it all). *)
(***************************************************************************)
CONSTANT Units

VARIABLES
  accounted,   \* the units that have their ledger row
  published    \* the report has been assembled

vars == <<accounted, published>>

Init ==
  /\ accounted = {}
  /\ published = FALSE

\* Several units may be accounted for in one step: cancellation accounts for
\* every unit that was not reached.
Account(S) ==
  /\ ~published
  /\ S # {}
  /\ S \cap accounted = {}
  /\ accounted' = accounted \cup S
  /\ UNCHANGED published

Publish ==
  /\ ~published
  /\ accounted = Units
  /\ published' = TRUE
  /\ UNCHANGED accounted

Next ==
  \/ \E S \in SUBSET Units : Account(S)
  \/ Publish

\* Every step accounts for units that were not, or publishes.
Safety == Init /\ [][Next]_vars

Spec == Safety /\ WF_vars(Next)
=============================================================================
