--------------------------------- MODULE Run ---------------------------------
(***************************************************************************)
(* A scan, what it sends and what it leaves behind: the run directory      *)
(* (module Store), the stages of runScan with their exit codes (module     *)
(* Pipeline), the report (module Reporting) and the client every stage's   *)
(* requests pass (module Client). What one hands to another is the input   *)
(* of that module; they share no state.                                    *)
(***************************************************************************)
EXTENDS Store

CONSTANTS WellKnownPaths, Thresholds, MaxFindings
VARIABLES
  cfg, reachable, stage, probe, answers, requests, registered, surface, fidelity, files, res,
  shown, exit, interrupted

scan == <<cfg, reachable, stage, probe, answers, requests, registered, surface, fidelity,
          files, res, shown, exit, interrupted>>

P == INSTANCE Pipeline

ASSUME PipelineConstants == P!PipelineAssumption

CONSTANTS Units, Identities, Engines, Paths, RankOrder, Inputs
VARIABLES input, reporting, ledger, controls, found, standing, assembled, doc, summary

account == <<input, reporting, ledger, controls, found, standing, assembled, doc, summary>>

R == INSTANCE Reporting WITH phase <- reporting, res <- assembled

ASSUME ReportingConstants == R!ReportingAssumption

CONSTANTS
  Callers, Urls, UrlsOf, Entries, AllowPrivate, Addresses, Kind, Literals, Resolutions, Lengths,
  MaxBodyBytes, TruncationTail, Paced, MaxRequests
VARIABLES at, url, left, candidates, trace, result, tick, closed, cancelled, recorded

client == <<at, url, left, candidates, trace, result, tick, closed, cancelled, recorded>>

L == INSTANCE Client WITH step <- at

ASSUME ClientConstants == L!ClientAssumption

-----------------------------------------------------------------------------
\* An exit code means what exit.go says it means, and the stages come in the order their
\* results are used in.
ScanIsConsistent == P!ScanIsConsistent

\* A run the scope policy kept from its target is never described as one that found no
\* specification there.
RefusalIsNotAbsence == P!RefusalIsNotAbsence

\* The client stays inside the scope, whoever names the URL and whatever is resolved.
NeverLeavesScope == L!NeverLeavesScope

\* Every count, credit and warning of the report follows from the rows of its ledger.
ReportFollowsLedger == R!ReportFollowsLedger
=============================================================================
