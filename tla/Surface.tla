------------------------------- MODULE Surface -------------------------------
(***************************************************************************)
(* What widens the surface the specification declares: a discovery pass    *)
(* (module Discovery) and the facts of framework adapters (module          *)
(* Adapters). The scan runs one after the other; they share no state.      *)
(***************************************************************************)
EXTENDS Discovery, Sequences

CONSTANTS Adapters, Ops, Names, Id, Abs, MaxFacts, Inputs, Documents
VARIABLES
  input, phase, at, cancelled, wrote, unread, draft, documents, dropped, failures, unmerged,
  ops, merges, unmatched, discovered

adapterVars == <<input, phase, at, cancelled, wrote, unread, draft, documents, dropped,
                 failures, unmerged, ops, merges, unmatched, discovered>>

A == INSTANCE Adapters

ASSUME AdaptersConstants == A!AdaptersAssumption

-----------------------------------------------------------------------------
\* Adapters and their facts are accounted for one by one, up to the expectations they lead to.
FactsAccounted == A!FactsAccounted

\* What the specification declares is never turned into its opposite by one fact, and an
\* expectation is lost only where a conflict is on record.
NeverOverwritten == A!NeverOverwritten
=============================================================================
