-------------------------------- MODULE Checks --------------------------------
(***************************************************************************)
(* From the plan to a conclusion: planning (module Planning), the          *)
(* declared-authentication check (module AuthRequired), and what it and    *)
(* every other check read one response with (module Classification) and    *)
(* compare two with (module Evidence). What one hands to another is the    *)
(* input of that module; they share no state.                              *)
(***************************************************************************)
EXTENDS Planning

CONSTANTS Unrouted, Lengths
VARIABLES routed, open, unknown, limited, alive, known, deploys, at, seen, result

check == <<routed, open, unknown, limited, alive, known, deploys, at, seen, result>>

A == INSTANCE AuthRequired

ASSUME AuthRequiredConstants == A!AuthRequiredAssumption

CONSTANTS Responses, Mapped
VARIABLES response, outcome

reading == <<response, outcome>>

C == INSTANCE Classification

ASSUME ClassificationConstants == C!ClassificationAssumption

CONSTANTS Captured, JsonTypes, Values, MaxShapeDepth, MaxShapePaths, Before(_, _), Comparisons
VARIABLES asked, walking, stack, out, walks, verdict

comparing == <<asked, walking, stack, out, walks, verdict>>

E == INSTANCE Evidence WITH Responses <- Captured, reading <- walking

ASSUME EvidenceConstants == E!EvidenceAssumption

-----------------------------------------------------------------------------
\* What the declared-authentication check says of an operation rests on answers that show it.
VerdictIsFounded == A!VerdictIsFounded

\* How a response is read follows from its status, its content and the operator's mapping,
\* never from wording put next to content. Two responses are of one kind only if the JSON
\* values they begin with have structures that join to one text, all of both compared in
\* whichever order their fields come, and are one structure unless a key spells the end of
\* an entry; they are of one resource only by the same bytes or the same value in one field.
ReadingIsJustified == C!ReadingIsJustified /\ E!ComparisonIsExact
=============================================================================
