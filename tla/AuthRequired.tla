---------------------------- MODULE AuthRequired ----------------------------
(***************************************************************************)
(* The declared-authentication check, internal/check/authrequired.go: from *)
(* the catch-all baseline to the finding, one action per request. It asks  *)
(* whether an operation that declares it requires authentication serves a  *)
(* caller without a credential.                                            *)
(*                                                                         *)
(* The target is the environment: it guards the operation or not, may be   *)
(* deployed anew between two requests, answers paths it does not know with *)
(* a 404, a page or pages of varying length, limits rates for a while, and *)
(* puts a cache in front that says so. What a response says is decided by  *)
(* module Classification; `content` is what it really holds, which the     *)
(* check sees only through status, type, length and structure.             *)
(***************************************************************************)
EXTENDS Naturals, FiniteSets

CONSTANTS
  Unrouted,    \* how the target answers unknown paths: among "refuse", "page", "shifting"
  Lengths      \* how long the resource may be: 2 is about as long as the page

AuthRequiredAssumption ==
  /\ Unrouted \subseteq {"refuse", "page", "shifting"}
  /\ Lengths \subseteq {1, 2}

\* No code is mapped, and the responses of this module are classified one by one.
Reading == INSTANCE Classification WITH
  Responses <- {}, Mapped <- {}, response <- 0, outcome <- 0

Answer(status, type, content, len, cached) ==
  [status |-> status, type |-> type, content |-> content, len |-> len, cached |-> cached,
   body |-> IF content = "none" THEN "empty" ELSE IF type = "html" THEN "opaque" ELSE "object",
   code |-> "none", failed |-> FALSE, text |-> "none", payload |-> content # "none"]
Lost == [lost |-> TRUE]
Classify(a) == IF a = Lost THEN "error" ELSE Reading!Classify(a)

Resources(cached) == {Answer(200, "json", "resource", len, cached) : len \in Lengths}
Page(len, cached) == Answer(200, "json", "page", len, cached)

VARIABLES
  routed,     \* whether the operation exists at all: it may be declared and not deployed
  open,       \* whether the operation serves anonymous callers
  unknown,    \* how unknown paths are answered
  limited,    \* the rate limiter holds
  alive,      \* the configured identity's credential is accepted
  known,      \* what Control knows of the identity: none, unresolved, good or bad
  deploys,    \* bound: how often the target has changed
  at,         \* the request the check is about to make
  seen,       \* the answer to each request made
  result      \* what Run returns

target == <<routed, open, unknown, limited, alive>>
vars == <<routed, open, unknown, limited, alive, known, deploys, at, seen, result>>

MaxDeploys == 2
Steps == {"baseline 1", "baseline 2", "primary", "repeat", "garbage", "control"}
Gaps == {"authenticated control", "catch-all baseline", "credential probe"}
Results ==
  [disp : {"none", "executed", "blocked"},
   cause : {"none", "transport_error", "rate_limited", "indeterminate_outcome"},
   state : {"none", "suspected", "confirmed"},
   gaps : SUBSET Gaps,                                  \* Verification.Unavailable
   credential : {"silent", "rejected", "accepted"},     \* what is said of a malformed one
   used : BOOLEAN]                                      \* ControlsUsed
Running == [disp |-> "none", cause |-> "none", state |-> "none", gaps |-> {},
            credential |-> "silent", used |-> FALSE]

Init ==
  /\ routed \in BOOLEAN /\ open \in BOOLEAN /\ limited = FALSE /\ alive \in BOOLEAN
  /\ unknown \in Unrouted
  /\ known \in {"none", "unresolved", "good", "bad"}
  /\ known \in {"none", "unresolved"} => ~alive
  /\ deploys = 0
  /\ at = "baseline 1"
  /\ seen = [s \in {} |-> Lost]
  /\ result = Running

-----------------------------------------------------------------------------
(* The target.                                                             *)

\* It is redeployed, the limiter starts or stops, or the credential expires.
Change ==
  /\ deploys < MaxDeploys
  /\ at # "done"
  /\ deploys' = deploys + 1
  /\ \/ open' = ~open /\ UNCHANGED <<routed, limited, alive>>
     \/ limited' = ~limited /\ UNCHANGED <<routed, open, alive>>
     \/ alive /\ alive' = FALSE /\ UNCHANGED <<routed, open, limited>>
  /\ UNCHANGED <<unknown, known, at, seen, result>>

UnroutedAnswers(cached) ==
  CASE unknown = "refuse" -> {Answer(404, "json", "none", 0, FALSE)}
    [] unknown = "page" -> {Page(2, c) : c \in cached}
    [] unknown = "shifting" -> {Page(len, c) : len \in {2, 3}, c \in cached}

Refusals ==
  {Answer(401, "json", "none", 0, FALSE), Answer(404, "json", "none", 0, FALSE),
   Answer(302, "html", "none", 0, FALSE), Answer(200, "html", "login", 3, FALSE),
   Answer(200, "json", "guest", 1, FALSE)}

Failing == {Lost, Answer(503, "html", "none", 0, FALSE)}

\* The answer to a path that does not exist.
BaselineAnswers ==
  IF limited THEN {Answer(429, "json", "none", 0, FALSE)} ELSE UnroutedAnswers({FALSE}) \cup Failing

\* The answer to a request for the operation; a cache may replay an earlier success.
OperationAnswers(served) ==
  IF limited THEN {Answer(429, "json", "none", 0, FALSE)}
  ELSE Failing \cup (CASE ~routed -> UnroutedAnswers(BOOLEAN)
                       [] routed /\ served -> Resources(FALSE)
                       [] OTHER -> Refusals)
       \cup (IF routed THEN Resources(TRUE) ELSE {})

-----------------------------------------------------------------------------
(* The check.                                                              *)

Sees(step, a) == seen' = [s \in DOMAIN seen \cup {step} |-> IF s = step THEN a ELSE seen[s]]

Ends(r) ==
  /\ at' = "done"
  /\ result' = r
Goes(step) ==
  /\ at' = step
  /\ UNCHANGED result
Environment == UNCHANGED <<target, deploys>>

Blocked(cause) == [Running EXCEPT !.disp = "blocked", !.cause = cause]
Clean == [Running EXCEPT !.disp = "executed"]

\* fingerprint.matches: status, type and, within a tolerance, length.
Matches(a, b) == a.status = b.status /\ a.type = b.type /\ a.len = b.len

\* The two probes of paths that cannot exist; one that fails ends the check.
Baseline(step, then) ==
  /\ at = step
  /\ \E a \in BaselineAnswers :
       /\ Sees(step, a)
       /\ IF a = Lost THEN Ends(Blocked("transport_error")) ELSE Goes(then)
  /\ Environment /\ UNCHANGED known

\* The baseline is established when the second probe matches the first.
Established == Matches(seen["baseline 1"], seen["baseline 2"])

\* The discriminators of a success, in the order they are asked: catch-all, HTML, cache.
Discriminate(a) ==
  IF Established /\ Matches(seen["baseline 2"], a) THEN Clean
  ELSE IF a.type = "html" \/ a.cached THEN Blocked("indeterminate_outcome") ELSE Running

\* What the answer to the first anonymous request leads to; Running when the check goes on.
Judge(a) ==
  CASE a = Lost -> Blocked("transport_error")
    [] Classify(a) = "rate limited" -> Blocked("rate_limited")
    [] Classify(a) = "error" -> Blocked("transport_error")
    [] Classify(a) = "indeterminate" -> Blocked("indeterminate_outcome")
    [] Classify(a) \in {"denied", "not found"} -> Clean
    [] OTHER -> Discriminate(a)

Primary ==
  /\ at = "primary"
  /\ \E a \in OperationAnswers(open) :
       /\ Sees("primary", a)
       /\ IF Judge(a) = Running THEN Goes("repeat") ELSE Ends(Judge(a))
  /\ Environment /\ UNCHANGED known

\* The repetition must be a success too. (LastAnswerCounts: the fault of believing a refusal
\* that follows a success.)
LastAnswerCounts(a) ==
  CASE Classify(a) = "allowed" -> Running
    [] a = Lost -> Blocked("transport_error")
    [] OTHER -> Clean
Confirmation(a) ==
  CASE Classify(a) = "allowed" -> Running
    [] a = Lost -> Blocked("transport_error")
    [] OTHER -> Blocked("indeterminate_outcome")

Repeat ==
  /\ at = "repeat"
  /\ \E a \in OperationAnswers(open) :
       /\ Sees("repeat", a)
       /\ IF Confirmation(a) = Running THEN Goes("garbage") ELSE Ends(Confirmation(a))
  /\ Environment /\ UNCHANGED known

\* A request with a malformed credential, whatever it brings.
Garbage ==
  /\ at = "garbage"
  /\ \E a \in OperationAnswers(open) : Sees("garbage", a)
  /\ Goes("control")
  /\ Environment /\ UNCHANGED known

Usable == known = "good"

\* materiallyEquivalent: status, type and structure, which guests' documents share.
Shape(a) == IF a.content = "guest" THEN "resource" ELSE a.content
Equivalent(a, b) ==
  a.status = b.status /\ a.type = b.type /\ a.type = "json" /\ Shape(a) = Shape(b) /\ Shape(a) # "none"

\* The comparison with the control's answer c. (StatusIsEnough: the fault of comparing the
\* status only.)
StatusIsEnough(c) == c # Lost /\ Classify(c) = "allowed" /\ ~c.cached
Corroborates(c) ==
  c # Lost /\ Classify(c) = "allowed" /\ ~c.cached /\ Equivalent(seen["primary"], c)

\* The control that counts as used: one that got an uncached answer. (UsedWhenRefused: the
\* fault of recording it only on the path that notes a suspicion.)
UsedWhenRefused(c) == c # Lost /\ ~c.cached /\ Classify(c) # "allowed"
CountsAsUsed(c) == c # Lost /\ ~c.cached

\* (RawOutcome: the fault of publishing the classification for the claim.)
RawOutcome(g) == Classify(g)
CredentialClaim(g) ==
  IF g = Lost THEN "silent" ELSE IF Classify(g) = "allowed" THEN "accepted" ELSE "rejected"

\* The finding, given the control's answer (Lost when there was none). (FailureClears: the
\* fault of letting a refused control make the operation look protected.)
FailureClears(c) == IF c # Lost /\ Classify(c) = "denied" THEN Clean
                    ELSE [Running EXCEPT !.disp = "executed", !.state = "suspected"]
Finding(c) ==
  [disp |-> "executed", cause |-> "none",
   state |-> IF Corroborates(c) THEN "confirmed" ELSE "suspected",
   gaps |-> (IF Corroborates(c) THEN {} ELSE {"authenticated control"})
            \cup (IF Established THEN {} ELSE {"catch-all baseline"})
            \cup (IF seen["garbage"] = Lost THEN {"credential probe"} ELSE {}),
   credential |-> CredentialClaim(seen["garbage"]),
   used |-> CountsAsUsed(c)]

\* NoteSuspicious asks the canary when the identity was refused.
Noted(c) ==
  IF c # Lost /\ ~c.cached /\ Classify(c) # "allowed" /\ ~alive THEN {"good", "bad"} ELSE {known}

Control ==
  /\ at = "control"
  /\ IF Usable
     THEN \E c \in OperationAnswers(open \/ alive) :
            Sees("control", c) /\ Ends(Finding(c)) /\ known' \in Noted(c)
     ELSE Ends(Finding(Lost)) /\ UNCHANGED <<seen, known>>
  /\ Environment

Returned ==
  /\ at = "done"
  /\ UNCHANGED vars

Run ==
  \/ Baseline("baseline 1", "baseline 2") \/ Baseline("baseline 2", "primary")
  \/ Primary \/ Repeat \/ Garbage \/ Control

Next == Run \/ Change \/ Returned

\* Every request returns, with an answer or when the client's time limit passes.
Spec == Init /\ [][Next]_vars /\ WF_vars(Run)

-----------------------------------------------------------------------------
TypeOK ==
  /\ routed \in BOOLEAN /\ open \in BOOLEAN /\ limited \in BOOLEAN /\ alive \in BOOLEAN
  /\ unknown \in Unrouted
  /\ known \in {"none", "unresolved", "good", "bad"}
  /\ deploys \in 0 .. MaxDeploys
  /\ at \in Steps \cup {"done"}
  /\ DOMAIN seen \subseteq Steps
  /\ result \in Results
  /\ result = Running <=> at # "done"

Got(step, content) == step \in DOMAIN seen /\ seen[step] # Lost /\ seen[step].content = content

\* An operation that served the resource to a caller without credentials is never recorded
\* as executed and clean, whatever the target did between the requests, unless the resource
\* is as long as the page unknown paths get: the code then takes it for that page.
CleanMeansRefused ==
  result.disp = "executed" /\ result.state = "none" =>
    ~(Got("primary", "resource") /\ seen["primary"].len # 2)

\* The probes of unknown paths were answered as unknown paths are, and these alike.
Untroubled ==
  unknown # "shifting" /\ \A s \in {"baseline 1", "baseline 2"} : seen[s].status \notin {429, 503}

\* A confirmed finding that names no gap, of a target with a steady answer to unknown paths,
\* was never raised on a page, a login form or a cached answer: the anonymous caller and the
\* identity were both served the resource, or a guest's document of its shape.
ConfirmedIsTrue ==
  result.state = "confirmed" /\ result.gaps = {} /\ Untroubled =>
    \A s \in {"primary", "control"} :
      (Got(s, "resource") \/ Got(s, "guest")) /\ ~seen[s].cached

\* A finding was seen twice, and none of its successes is HTML; what is confirmed can be
\* withdrawn later, because the control it rests on is recorded.
FindingIsCorroborated ==
  result.state # "none" =>
    /\ \A s \in {"primary", "repeat"} : Classify(seen[s]) = "allowed"
    /\ seen["primary"].type # "html" /\ ~seen["primary"].cached
    /\ result.state = "confirmed" => result.used

\* What the check says of an operation rests on answers that show it: clean on a refusal,
\* suspected on two successes, confirmed on what the identity was served as well.
VerdictIsFounded ==
  /\ TypeOK
  /\ CleanMeansRefused
  /\ ConfirmedIsTrue
  /\ FindingIsCorroborated

\* Once two anonymous requests have succeeded, the check ends in a finding: no state of the
\* credential, and nothing the target answers it, makes the operation look protected.
NothingClearsASuccess == at = "garbage" ~> result.state # "none"
=============================================================================
