----------------------------- MODULE Discovery -----------------------------
(***************************************************************************)
(* One discovery pass (internal/discovery): Run and Merge.                 *)
(*                                                                         *)
(* The pass reads the target's root document, robots.txt, the scripts the  *)
(* root names and the well-known documents, in this order, through one     *)
(* budget, and collects the paths they mention into one bounded set. Merge *)
(* then sets the paths against the operations already known.               *)
(*                                                                         *)
(* The target is the adversary: each answer is any answer. What a body     *)
(* mentions is a set of references; how it is parsed is left out, but not  *)
(* how much of it a parser takes.                                          *)
(***************************************************************************)
EXTENDS Naturals, FiniteSets

CONSTANTS
  Paths,       \* paths on the target's own origin
  Others,      \* references to other origins
  Scripts,     \* scripts on the own origin that the root may name
  Probes,      \* how many well-known documents are probed
  Operations,  \* the surface known before: [served, template, instances]
  MaxRequests, MaxScriptRefs, MaxScripts, MaxBytes, MaxCandidates, PerSource, PerHeader

Refs == Paths \cup Others
Sources == {"link", "robots", "script", "wellknown"}
Largest == 2  \* bytes of a body the client cut short; any other has one

ASSUME DiscoveryAssumption ==
  /\ Paths \cap Others = {} /\ Scripts \cap Others = {}
  /\ IsFiniteSet(Refs) /\ IsFiniteSet(Scripts)
  /\ Probes \in Nat
  /\ Operations \subseteq [served : Paths, template : Paths, instances : SUBSET Paths]
  /\ {MaxRequests, MaxScriptRefs, MaxScripts, MaxBytes, MaxCandidates, PerSource, PerHeader}
       \subseteq Nat \ {0}

VARIABLES
  enable,    \* Options.Enable
  stage,     \* what Run does next
  requests,  \* budget.requests
  bytes,     \* budget.bytes
  exhausted, \* whether budget.exhausted names a budget
  contacted, \* the origins requests were sent to
  answered,  \* whether any request was
  current,   \* the origin of the root document to be read, and the hop
  root,      \* what it gave to read scripts from
  left,      \* the scripts or the probes still to be requested
  items,     \* collector.items: the sources of each candidate
  truncated, \* collector.truncated
  attempt,   \* the Attempt of each source
  missed,    \* why something was passed over, the rest of a cut body aside
  merged     \* what Merge returned

budget == <<requests, bytes, exhausted, contacted, answered>>
collected == <<items, truncated, attempt, missed>>
vars == <<enable, stage, budget, current, root, left, collected, merged>>

NotRun == [ran |-> FALSE, problem |-> FALSE, truncated |-> FALSE, found |-> 0]
NoMerge == [corroborated |-> {}, undocumented |-> {}, offOrigin |-> {}]

Init ==
  /\ enable \in SUBSET Sources \ {{}}
  /\ stage = "root"
  /\ requests = 0 /\ bytes = 0 /\ exhausted = FALSE
  /\ contacted = {} /\ answered = FALSE
  /\ current = [origin |-> "own", hop |-> 0]
  /\ root = [read |-> FALSE, markup |-> FALSE, scripts |-> {}]
  /\ left = 0
  /\ items = [r \in {} |-> {}]
  /\ truncated = FALSE
  /\ attempt = [s \in Sources |-> NotRun]
  /\ missed = {}
  /\ merged = NoMerge

-----------------------------------------------------------------------------
(* One request.                                                            *)

CanRequest == requests < MaxRequests /\ bytes < MaxBytes

\* Origin.Equal. (OnlyTheOwnOrigin: the fault of comparing prefixes, which another host's
\* name may share.)
LooksAlike(origin) == TRUE
SameOrigin(origin) == origin = "own"

Bodies == [refs : SUBSET Refs, cut : BOOLEAN]
Size(body) == IF body.cut THEN Largest ELSE 1

Cut(condition, reason) == IF condition THEN {reason} ELSE {}

\* get when no request is made: another origin, or a budget that is spent.
\* (TruncationIsReported: the fault of a budget that refuses without remembering it.)
RefuseQuietly(origin) ==
  /\ ~ SameOrigin(origin) \/ ~ CanRequest
  /\ missed' = missed \cup Cut(SameOrigin(origin), "budget")
  /\ UNCHANGED budget
Refuse(origin) ==
  /\ ~ SameOrigin(origin) \/ ~ CanRequest
  /\ exhausted' = (exhausted \/ SameOrigin(origin))
  /\ missed' = missed \cup Cut(SameOrigin(origin), "budget")
  /\ UNCHANGED <<requests, bytes, contacted, answered>>

Send(origin, cost, ok) ==
  /\ SameOrigin(origin) /\ CanRequest
  /\ requests' = requests + 1
  /\ bytes' = bytes + cost
  /\ contacted' = contacted \cup {origin}
  /\ answered' = (answered \/ ok)
  /\ UNCHANGED exhausted

\* get that gives no response, and get that does.
Fails(origin) == Refuse(origin) \/ (Send(origin, 0, FALSE) /\ UNCHANGED missed)
Answers(origin, body) == Send(origin, Size(body), TRUE)

-----------------------------------------------------------------------------
(* The collector.                                                          *)

\* What a parser with a limit may return of what is there.
Take(refs, limit) ==
  IF Cardinality(refs) <= limit THEN {refs} ELSE {S \in SUBSET refs : Cardinality(S) = limit}

\* (WithinLimits: the fault of counting a source's own candidates only.)
RoomPerSource(new) == Take(new, MaxCandidates)
Room(new) == Take(new, MaxCandidates - Cardinality(DOMAIN items))

\* add and addOffOrigin for each reference: a candidate that is known gains a source, and
\* a new one is kept while there is room.
Collect(refs, kind, because) ==
  \E kept \in Room(refs \ DOMAIN items) :
    LET now == (refs \cap DOMAIN items) \cup kept IN
      /\ items' = [r \in DOMAIN items \cup kept |->
                     (IF r \in DOMAIN items THEN items[r] ELSE {})
                       \cup (IF r \in now THEN {kind} ELSE {})]
      /\ truncated' = (truncated \/ refs \ DOMAIN items # kept)
      /\ missed' = missed \cup because
           \cup (IF refs \ DOMAIN items # kept THEN {"candidates"} ELSE {})

\* By how much the step makes the collection grow.
New == Cardinality(DOMAIN items' \ DOMAIN items)

Record(s, r) == attempt' = [attempt EXCEPT ![s] = r]

-----------------------------------------------------------------------------
(* The root document, and the Link headers of its answers.                 *)

After == [root |-> "robots", robots |-> "scripts", scripts |-> "wellknown", wellknown |-> "merge"]
Reads == "link" \in enable \/ "script" \in enable

SkipRoot ==
  /\ stage = "root" /\ ~ Reads
  /\ stage' = After.root
  /\ UNCHANGED <<enable, budget, current, root, left, collected, merged>>

RootUnread ==
  /\ stage = "root" /\ Reads
  /\ Fails(current.origin)
  /\ Record("link", [attempt["link"] EXCEPT !.problem = TRUE])
  /\ stage' = After.root
  /\ UNCHANGED <<enable, current, root, left, items, truncated, merged>>

\* The links of one answer, whether or not that source is enabled.
Links(body, because) ==
  /\ \E taken \in Take(body.refs, PerHeader) :
       Collect(taken, "link", Cut(taken # body.refs, "links") \cup because)
  /\ Record("link", [attempt["link"] EXCEPT !.ran = TRUE, !.found = @ + New])

\* ScriptSources takes a page's references, own and foreign and repeated ones alike, up to
\* the limit, and keeps no note that there are more.
ScriptSources ==
  {r \in [taken : SUBSET (Scripts \cup Others), more : BOOLEAN] :
     Cardinality(r.taken) <= MaxScriptRefs /\ (r.more => r.taken # {})}

\* A page that is not a redirect ends the reading, whatever its status.
RootPage ==
  /\ stage = "root" /\ Reads
  /\ \E body \in Bodies, markup \in BOOLEAN, named \in ScriptSources :
       /\ ~ markup => named = [taken |-> {}, more |-> FALSE]
       /\ Answers(current.origin, body)
       /\ Links(body, Cut(named.more, "references"))
       /\ root' = [read |-> TRUE, markup |-> markup, scripts |-> named.taken]
  /\ stage' = After.root
  /\ UNCHANGED <<enable, current, left, merged>>

\* (TypeOK: the fault of following redirects for as long as they come.)
LastHopNever == FALSE
LastHop == current.hop = 1

\* A redirect on the own origin is followed once. One that leads elsewhere is recorded, not
\* followed.
RootRedirect ==
  /\ stage = "root" /\ Reads
  /\ \E body \in Bodies, location \in {"own", "other", "none"} :
       /\ Answers(current.origin, body)
       /\ Links(body, {})
       /\ IF location = "none" \/ LastHop
            THEN stage' = After.root /\ UNCHANGED current
          ELSE IF SameOrigin(location)
            THEN current' = [origin |-> location, hop |-> current.hop + 1] /\ UNCHANGED stage
          ELSE stage' = "redirected" /\ UNCHANGED current
  /\ UNCHANGED <<enable, root, left, merged>>

RecordRedirect ==
  /\ stage = "redirected"
  /\ \E o \in Others : Collect({o}, "html", {})
  /\ stage' = After.root
  /\ UNCHANGED <<enable, budget, current, root, left, attempt, merged>>

-----------------------------------------------------------------------------
(* robots.txt                                                              *)

Skip(s, source) ==
  /\ stage = s /\ source \notin enable
  /\ stage' = After[s]
  /\ UNCHANGED <<enable, budget, current, root, left, collected, merged>>

RobotsUnread ==
  /\ stage = "robots" /\ "robots" \in enable
  /\ \/ /\ Fails("own")
        /\ Record("robots", [NotRun EXCEPT !.problem = TRUE])
     \/ /\ \E body \in Bodies : Answers("own", body)  \* another status, or not text
        /\ UNCHANGED missed
        /\ Record("robots", [NotRun EXCEPT !.ran = TRUE, !.problem = TRUE])
  /\ stage' = After.robots
  /\ UNCHANGED <<enable, current, root, left, items, truncated, merged>>

\* robots.txt names paths of its own origin only, and counts each.
RobotsRead ==
  /\ stage = "robots" /\ "robots" \in enable
  /\ \E body \in Bodies : \E taken \in Take(body.refs \cap Paths, PerSource) :
       LET cut == taken # body.refs \cap Paths
       IN /\ Answers("own", body)
          /\ Collect(taken, "robots", Cut(cut, "robots"))
          /\ Record("robots", [ran |-> TRUE, problem |-> FALSE, truncated |-> cut,
                               found |-> Cardinality(taken)])
  /\ stage' = After.robots
  /\ UNCHANGED <<enable, current, root, left, merged>>

-----------------------------------------------------------------------------
(* The scripts the root document names.                                    *)

Own == {s \in root.scripts : SameOrigin(IF s \in Scripts THEN "own" ELSE "other")}

ScriptsNone ==
  /\ stage = "scripts" /\ "script" \in enable
  /\ Own = {}
  /\ Collect(root.scripts, "html", {})
  /\ Record("script", [NotRun EXCEPT !.ran = root.read /\ root.markup, !.problem = TRUE])
  /\ stage' = After.scripts
  /\ UNCHANGED <<enable, budget, current, root, left, merged>>

Selected(s) == Take(s, MaxScripts)

ScriptsChosen ==
  /\ stage = "scripts" /\ "script" \in enable
  /\ Own # {}
  /\ \E chosen \in Selected(Own) :
       /\ left' = Cardinality(chosen)
       /\ Collect(root.scripts \cap Others, "html", Cut(chosen # Own, "scripts"))
       /\ Record("script", [NotRun EXCEPT !.truncated = chosen # Own])
  /\ stage' = "fetching"
  /\ UNCHANGED <<enable, budget, current, root, merged>>

ScriptOrigin == IF Own \subseteq Scripts THEN {"own"} ELSE {"own", "other"}

\* (PassEnds: the fault of requesting a script again until it is served.)
ScriptRetried ==
  /\ stage = "fetching" /\ left > 0
  /\ \E o \in ScriptOrigin : Fails(o)
  /\ Record("script", [attempt["script"] EXCEPT !.problem = TRUE])
  /\ UNCHANGED <<enable, stage, current, root, left, items, truncated, merged>>

ScriptUnread ==
  /\ stage = "fetching" /\ left > 0
  /\ \/ /\ \E o \in ScriptOrigin : Fails(o)
        /\ Record("script", [attempt["script"] EXCEPT !.problem = TRUE])
     \/ /\ \E o \in ScriptOrigin, body \in Bodies : Answers(o, body)  \* another status
        /\ UNCHANGED missed
        /\ Record("script", [attempt["script"] EXCEPT !.ran = TRUE])
  /\ left' = left - 1
  /\ UNCHANGED <<enable, stage, current, root, items, truncated, merged>>

ScriptRead ==
  /\ stage = "fetching" /\ left > 0
  /\ \E o \in ScriptOrigin, body \in Bodies : \E taken \in Take(body.refs \cap Paths, PerSource) :
       LET cut == taken # body.refs \cap Paths \/ body.cut
       IN /\ Answers(o, body)
          /\ Collect(taken, "script", Cut(cut, "script"))
          /\ Record("script", [attempt["script"] EXCEPT !.ran = TRUE, !.truncated = @ \/ cut,
                                                        !.found = @ + New])
  /\ left' = left - 1
  /\ UNCHANGED <<enable, stage, current, root, merged>>

ScriptsDone ==
  /\ stage = "fetching" /\ left = 0
  /\ Record("script", [attempt["script"] EXCEPT !.problem = @ \/ attempt["script"].truncated])
  /\ stage' = After.scripts
  /\ UNCHANGED <<enable, budget, current, root, left, items, truncated, missed, merged>>

-----------------------------------------------------------------------------
(* The well-known documents.                                               *)

WellKnownStart ==
  /\ stage = "wellknown" /\ "wellknown" \in enable
  /\ stage' = "probing"
  /\ left' = Probes
  /\ UNCHANGED <<enable, budget, current, root, collected, merged>>

\* (SourceSaysWhy: the fault of marking the source consulted before the request.)
ProbeMarked ==
  /\ stage = "probing" /\ left > 0
  /\ \/ Fails("own")
     \/ (\E body \in Bodies : Answers("own", body)) /\ UNCHANGED missed
  /\ Record("wellknown", [attempt["wellknown"] EXCEPT !.ran = TRUE])
  /\ left' = left - 1
  /\ UNCHANGED <<enable, stage, current, root, items, truncated, merged>>

ProbeUnread ==
  /\ stage = "probing" /\ left > 0
  /\ \/ /\ Fails("own")
        /\ Record("wellknown", [attempt["wellknown"] EXCEPT !.problem = TRUE])
     \/ /\ \E body \in Bodies : Answers("own", body)
        /\ UNCHANGED missed
        /\ Record("wellknown", [attempt["wellknown"] EXCEPT !.ran = TRUE])
  /\ left' = left - 1
  /\ UNCHANGED <<enable, stage, current, root, items, truncated, merged>>

\* extractJSONURLs takes paths and absolute URLs, each up to the limit, and drops what the
\* two scans say of being cut short.
ProbeRead ==
  /\ stage = "probing" /\ left > 0
  /\ \E body \in Bodies :
       \E paths \in Take(body.refs \cap Paths, PerSource),
          urls \in Take(body.refs \cap Others, PerSource) :
         /\ Answers("own", body)
         /\ Collect(paths \cup urls, "wellknown",
                    Cut(paths \cup urls # body.refs, "wellknown"))
         /\ Record("wellknown", [attempt["wellknown"] EXCEPT !.ran = TRUE, !.found = @ + New])
  /\ left' = left - 1
  /\ UNCHANGED <<enable, stage, current, root, merged>>

Reason(a) == [a EXCEPT !.problem = @ \/ ~ a.ran]

ProbesDone ==
  /\ stage = "probing" /\ left = 0
  /\ Record("wellknown", Reason(attempt["wellknown"]))
  /\ stage' = After.wellknown
  /\ UNCHANGED <<enable, budget, current, root, left, items, truncated, missed, merged>>

-----------------------------------------------------------------------------
(* What is made of it.                                                     *)

\* Result.Incomplete and, the same way, its limitations.
Incomplete ==
  \/ exhausted \/ truncated
  \/ \E s \in enable : attempt[s].truncated

\* (DocumentedIsNotRediscovered: the fault of looking operations up by the template the
\* specification spells.)
ByTemplate(p) == {o \in Operations : o.template = p}
ByPath(p) == {o \in Operations : o.served = p \/ o.template = p}

Matched(p) == IF ByPath(p) # {} THEN ByPath(p) ELSE {o \in Operations : p \in o.instances}

Merge ==
  /\ stage = "merge"
  /\ LET own == DOMAIN items \cap Paths IN
       merged' = [corroborated |-> UNION {Matched(p) \X {p} : p \in own},
                  undocumented |-> {p \in own : Matched(p) = {}},
                  offOrigin |-> DOMAIN items \cap Others]
  /\ stage' = "done"
  /\ UNCHANGED <<enable, budget, current, root, left, collected>>

Over == stage = "done" /\ UNCHANGED vars

Steps ==
  \/ SkipRoot \/ RootUnread \/ RootPage \/ RootRedirect \/ RecordRedirect
  \/ Skip("robots", "robots") \/ RobotsUnread \/ RobotsRead
  \/ Skip("scripts", "script") \/ ScriptsNone \/ ScriptsChosen
  \/ ScriptUnread \/ ScriptRead \/ ScriptsDone
  \/ Skip("wellknown", "wellknown") \/ WellKnownStart
  \/ ProbeUnread \/ ProbeRead \/ ProbesDone
  \/ Merge

Next == Steps \/ Over
Spec == Init /\ [][Next]_vars /\ WF_vars(Steps)

-----------------------------------------------------------------------------
TypeOK ==
  /\ enable \in SUBSET Sources \ {{}}
  /\ stage \in {"root", "redirected", "robots", "scripts", "fetching", "wellknown", "probing", "merge", "done"}
  /\ requests \in Nat /\ bytes \in Nat /\ exhausted \in BOOLEAN
  /\ contacted \subseteq {"own", "other"} /\ answered \in BOOLEAN
  /\ current \in [origin : {"own", "other"}, hop : 0 .. 1]
  /\ root \in [read : BOOLEAN, markup : BOOLEAN, scripts : SUBSET (Scripts \cup Others)]
  /\ left \in 0 .. (IF MaxScripts > Probes THEN MaxScripts ELSE Probes)
  /\ DOMAIN items \subseteq Refs
  /\ \A r \in DOMAIN items : items[r] \subseteq Sources \cup {"html"}
  /\ truncated \in BOOLEAN
  /\ attempt \in [Sources -> [ran : BOOLEAN, problem : BOOLEAN, truncated : BOOLEAN, found : Nat]]
  /\ missed \subseteq {"budget", "candidates", "links", "references", "robots", "scripts",
                       "script", "wellknown"}
  /\ merged.undocumented \subseteq Paths /\ merged.offOrigin \subseteq Others

\* Whatever the target's redirects, scripts and links name, requests go to its own origin
\* only.
OnlyTheOwnOrigin == contacted \subseteq {"own"}

\* The target cannot make discovery do more than its limits say: requests, bytes but for
\* the body that crosses the line, candidates from all sources together.
WithinLimits ==
  /\ requests <= MaxRequests
  /\ bytes < MaxBytes + Largest
  /\ Cardinality(DOMAIN items) <= MaxCandidates

\* A pass that a budget, the candidate limit, the limit of robots.txt, the limit on scripts
\* to fetch or a limit within a fetched script cut short never passes for a finished one, in
\* whichever order the sources spent it. What leaves no mark in the result is not claimed:
\* script references of the root page beyond MaxScriptRefs, Link headers beyond PerHeader,
\* literals of a well-known document beyond PerSource, and the bodies of the root page, of
\* robots.txt and of well-known documents that the client cut.
TruncationIsReported ==
  stage = "done" /\ missed \cap {"budget", "candidates", "robots", "scripts", "script"} # {} =>
    Incomplete

\* A source that was not consulted says why, and none claims to have been consulted when
\* the target answered nothing.
SourceSaysWhy ==
  stage = "done" =>
    /\ \A s \in enable : ~ attempt[s].ran => attempt[s].problem
    /\ ~ answered => \A s \in enable : ~ attempt[s].ran

\* A path an operation serves is never listed as undocumented, nor one that fits its
\* template.
DocumentedIsNotRediscovered ==
  \A o \in Operations : ({o.served} \cup o.instances) \cap merged.undocumented = {}

\* Neither the target's answers nor its redirects take a pass beyond what the operator
\* authorised.
StaysWithinBounds ==
  /\ TypeOK
  /\ OnlyTheOwnOrigin
  /\ WithinLimits

\* The report of a pass says what it cut short, of what TruncationIsReported names, and what
\* it could not ask, and lists nothing as undocumented that is documented.
PassIsReported ==
  /\ TruncationIsReported
  /\ SourceSaysWhy
  /\ DocumentedIsNotRediscovered

\* Every pass ends, whatever the target answers.
PassEnds == <>(stage = "done")
=============================================================================
