--------------------------- MODULE Classification ---------------------------
(***************************************************************************)
(* internal/outcome: what one HTTP response says about access.             *)
(*                                                                         *)
(* A response is cut down to what the classification asks of it; the text  *)
(* of a message is the vocabulary it falls into. Classify is a function;   *)
(* the behaviours of this module send it one response each.                *)
(***************************************************************************)
EXTENDS Naturals

CONSTANTS
  Responses,  \* the responses considered
  Mapped      \* Signals: a pointer is configured, and maps these codes

Codes == {"none", "denied", "not found", "other"}     \* what the pointer finds in the body
Texts == {"none", "denial", "not found", "plain"}     \* the message fields, by vocabulary

Response ==
  [status : 100 .. 599,
   body : {"empty", "object", "json", "opaque"},  \* JSON and an object, JSON only, or neither
   type : {"json", "html", "other"},              \* the Content-Type
   code : Codes,
   failed : BOOLEAN,                              \* success: false
   text : Texts,
   payload : BOOLEAN]                             \* content beyond the error envelope

\* Only an object has fields, and only an object is read for its envelope.
WellFormed(r) ==
  r.body # "object" => ~r.failed /\ r.text = "none" /\ ~r.payload /\ r.code = "none"

ClassificationAssumption ==
  /\ Responses \subseteq {r \in Response : WellFormed(r)}
  /\ Mapped \subseteq {"denied", "not found"}

Outcomes == {"allowed", "denied", "not found", "rate limited", "error", "indeterminate"}
Undecided == "undecided"

Success(r) == r.status \in 200 .. 299

\* classifyByOperatorSignal: a mapped code, wherever it appears.
ByOperatorSignal(r) ==
  IF r.body # "empty" /\ r.code \in Mapped THEN r.code ELSE Undecided

\* classifyByEnvelope: a refusal delivered with a success status. Refusal next to content
\* is ambiguous. (PayloadIgnored: the fault of reading any denial message as a denial.)
PayloadIgnored(r) ==
  IF ~Success(r) \/ r.body # "object" \/ r.type # "json" THEN Undecided
  ELSE CASE r.text = "not found" -> "not found"
         [] r.text = "denial" \/ (r.failed /\ r.text # "not found") -> "denied"
         [] OTHER -> Undecided
ByEnvelope(r) ==
  IF ~Success(r) \/ r.body # "object" \/ r.type # "json" THEN Undecided
  ELSE CASE r.payload /\ (r.failed \/ r.text = "denial") -> "indeterminate"
         [] ~r.payload /\ r.text = "not found" -> "not found"
         [] ~r.payload /\ (r.text = "denial" \/ (r.failed /\ r.text # "not found")) -> "denied"
         [] OTHER -> Undecided

\* classifyByStatus (NothingElse: the fault of a switch without its default; Forbidding:
\* that of every client error taken for a refusal.)
NothingElse(r) == IF r.status \in {401, 403, 404} THEN "denied" ELSE ""
ByStatus(r) ==
  CASE r.status \in {401, 403, 404} -> "denied"
    [] r.status = 429 -> "rate limited"
    [] r.status \in {405, 408} \/ r.status >= 500 -> "error"
    [] Success(r) -> "allowed"
    [] OTHER -> "indeterminate"
Forbidding(r) == IF r.status \in 400 .. 499 THEN "denied" ELSE ByStatus(r)

\* (EnvelopeFirst: the fault of asking the body's wording before the operator's mapping.)
FirstDecided(a, b, c) == IF a # Undecided THEN a ELSE IF b # Undecided THEN b ELSE c
EnvelopeFirst(r) == FirstDecided(ByEnvelope(r), ByOperatorSignal(r), ByStatus(r))
ClientErrorsDeny(r) == FirstDecided(ByOperatorSignal(r), ByEnvelope(r), Forbidding(r))
Classify(r) == FirstDecided(ByOperatorSignal(r), ByEnvelope(r), ByStatus(r))

-----------------------------------------------------------------------------
VARIABLES response, outcome
vars == <<response, outcome>>

Init ==
  /\ response \in Responses
  /\ outcome = Undecided

Decide ==
  /\ outcome = Undecided
  /\ outcome' = Classify(response)
  /\ UNCHANGED response

Decided ==
  /\ outcome # Undecided
  /\ UNCHANGED vars

Next == Decide \/ Decided

Spec == Init /\ [][Next]_vars

-----------------------------------------------------------------------------
TypeOK ==
  /\ response \in Responses
  /\ outcome \in Outcomes \cup {Undecided}

\* A target cannot talk its way out of a success: whatever envelope fields it bolts onto a
\* response that carries content and is read as a success, no denial comes of it.
ContentIsNeverDenied ==
  outcome = "allowed" /\ response.payload =>
    \A failed \in BOOLEAN, text \in Texts :
      Classify([response EXCEPT !.failed = failed, !.text = text]) \notin {"denied", "not found"}

\* Nothing but the operator's mapping, a refusing status or a body that holds a refusal and
\* nothing else is read as a refusal.
RefusalIsStated ==
  outcome \in {"denied", "not found"} =>
    \/ response.code \in Mapped
    \/ response.status \in {401, 403, 404}
    \/ Success(response) /\ ~response.payload /\ (response.failed \/ response.text # "plain")

\* The operator's mapping wins over the body's wording and over the status, and a code that
\* is not mapped changes nothing.
MappingDecides ==
  outcome # Undecided =>
    /\ response.code \in Mapped => outcome = response.code
    /\ response.code \notin Mapped => Classify([response EXCEPT !.code = "none"]) = outcome

\* How a response is read follows from its status, its content and the operator's mapping,
\* never from wording put next to content.
ReadingIsJustified ==
  /\ TypeOK
  /\ ContentIsNeverDenied
  /\ RefusalIsStated
  /\ MappingDecides
=============================================================================
