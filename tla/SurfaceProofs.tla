---------------------------- MODULE SurfaceProofs ----------------------------
(***************************************************************************)
(* Theorems about Surface, for every instance of its parts.                *)
(*                                                                         *)
(* Discovery: any limits above zero and any finite stock of paths, foreign *)
(* references, scripts and operations. What the target offers is           *)
(* arbitrary, so the limits must hold at every place where something of it *)
(* is kept. The reports at the end of a pass rest on what each stage       *)
(* leaves behind it (PassInv): a reason for what it missed, in the attempt *)
(* of its own source, which no later stage rewrites.                       *)
(*                                                                         *)
(* Adapters: any registry of distinct adapters, any specification and any  *)
(* documents. The properties speak of what is finished; AdaptersInv says   *)
(* the same of the adapters collected so far (CollectedSoFar), of the      *)
(* facts read so far of the document in hand (DraftIsUsable), and of the   *)
(* facts merged so far (MergedSoFar, ExpectationsSourced).                 *)
(***************************************************************************)
EXTENDS Surface, FiniteSetTheorems, TLAPS

-----------------------------------------------------------------------------
(*                                Discovery                                *)
-----------------------------------------------------------------------------
USE DiscoveryAssumption

-----------------------------------------------------------------------------
(* The inductive invariant.                                                *)

BudgetKept ==
  /\ requests \in 0 .. MaxRequests
  /\ bytes \in Nat /\ bytes < MaxBytes + Largest
  /\ exhausted \in BOOLEAN /\ answered \in BOOLEAN
  /\ contacted \subseteq {"own"}

CollectorKept ==
  /\ DOMAIN items \subseteq Refs
  /\ \A r \in DOMAIN items : items[r] \subseteq Sources \cup {"html"}
  /\ Cardinality(DOMAIN items) <= MaxCandidates
  /\ truncated \in BOOLEAN

Attempts == [ran : BOOLEAN, problem : BOOLEAN, truncated : BOOLEAN, found : Nat]
Stages == {"root", "redirected", "robots", "scripts", "fetching", "wellknown", "probing", "merge",
           "done"}
\* What is missed at the root page for good.
Unmarked == {"references"}
Reasons == {"budget", "candidates", "links", "robots", "scripts", "script",
            "wellknown"} \cup Unmarked

\* No redirect that is followed leaves the own origin.
ProgressTyped ==
  /\ enable \in SUBSET Sources \ {{}}
  /\ stage \in Stages
  /\ current \in [origin : {"own"}, hop : 0 .. 1]
  /\ root \in [read : BOOLEAN, markup : BOOLEAN, scripts : SUBSET (Scripts \cup Others)]
  /\ left \in 0 .. (IF MaxScripts > Probes THEN MaxScripts ELSE Probes)
  /\ attempt \in [Sources -> Attempts]
  /\ missed \subseteq Reasons

\* The stages at which a source has had its turn.
Beyond(s) ==
  CASE s = "link" -> Stages \ {"root"}
    [] s = "robots" -> Stages \ {"root", "redirected", "robots"}
    [] s = "script" -> {"wellknown", "probing", "merge", "done"}
    [] s = "wellknown" -> {"merge", "done"}

\* A source that has had its turn ran or says why not, and a source of which scripts are
\* still to be fetched has that before it.
TurnsExplained ==
  /\ \A s \in enable : stage \in Beyond(s) => attempt[s].ran \/ attempt[s].problem
  /\ stage = "fetching" =>
       /\ "script" \in enable
       /\ attempt["script"].ran \/ attempt["script"].problem \/ left > 0

\* Where the target has answered nothing, nothing was read.
SilenceIsEmpty == ~ answered => ~ root.read /\ \A s \in Sources : ~ attempt[s].ran

\* What was missed is marked where the report looks for it, and by its own stage.
CutsMarked ==
  /\ "budget" \in missed => exhausted
  /\ "candidates" \in missed => truncated
  /\ "robots" \in missed =>
       /\ "robots" \in enable /\ stage \in Beyond("robots")
       /\ attempt["robots"].truncated
  /\ missed \cap {"scripts", "script"} # {} =>
       /\ "script" \in enable /\ stage \in {"fetching"} \cup Beyond("script")
       /\ attempt["script"].truncated

MergeSound ==
  /\ merged.undocumented \subseteq Paths /\ merged.offOrigin \subseteq Others
  /\ DocumentedIsNotRediscovered

PassInv ==
  /\ BudgetKept
  /\ CollectorKept
  /\ ProgressTyped
  /\ TurnsExplained
  /\ SilenceIsEmpty
  /\ CutsMarked
  /\ MergeSound

-----------------------------------------------------------------------------
(* The limits, and the first state.                                        *)

LEMMA Limits ==
  /\ MaxRequests \in Nat \ {0} /\ MaxScripts \in Nat \ {0} /\ MaxBytes \in Nat \ {0}
  /\ MaxCandidates \in Nat \ {0} /\ PerSource \in Nat \ {0} /\ PerHeader \in Nat \ {0}
  /\ Probes \in Nat
BY DEF DiscoveryAssumption

LEMMA RefsFinite ==
  ASSUME NEW S, S \subseteq Refs \/ S \subseteq Scripts
  PROVE  IsFiniteSet(S) /\ Cardinality(S) \in Nat
<1>1. IsFiniteSet(S)
  BY FS_Subset DEF DiscoveryAssumption
<1> QED
  BY <1>1, FS_CardinalityType

LEMMA PassStarts == Init => PassInv
<1> SUFFICES ASSUME Init PROVE PassInv
  OBVIOUS
<1>1. BudgetKept
  <2>1. requests \in 0 .. MaxRequests /\ bytes \in Nat /\ bytes < MaxBytes + Largest
    BY Limits DEF Init, Largest
  <2>2. exhausted \in BOOLEAN /\ answered \in BOOLEAN /\ contacted \subseteq {"own"}
    BY DEF Init
  <2> QED
    BY <2>1, <2>2 DEF BudgetKept
<1>2. CollectorKept
  <2>1. DOMAIN items = {} /\ truncated \in BOOLEAN
    BY DEF Init
  <2>2. Cardinality(DOMAIN items) = 0
    BY <2>1, FS_EmptySet
  <2> QED
    BY <2>1, <2>2, Limits DEF CollectorKept
<1>3. ProgressTyped
  BY Limits DEF Init, ProgressTyped, Stages, NotRun, Attempts
<1>4. TurnsExplained /\ SilenceIsEmpty /\ CutsMarked
  BY DEF Init, TurnsExplained, SilenceIsEmpty, CutsMarked, NotRun, Beyond, Stages, Sources
<1>5. MergeSound
  BY DEF Init, MergeSound, NoMerge, DocumentedIsNotRediscovered
<1> QED
  BY <1>1, <1>2, <1>3, <1>4, <1>5 DEF PassInv

-----------------------------------------------------------------------------
(* One request. A request that is made fits in what is left of the budget, *)
(* but for the body that crosses the line, and a refusal is remembered.    *)

LEMMA SendEffect ==
  ASSUME BudgetKept, NEW origin, NEW cost \in 0 .. Largest, NEW ok \in BOOLEAN,
         Send(origin, cost, ok)
  PROVE  /\ BudgetKept' /\ exhausted' = exhausted
         /\ answered' = (answered \/ ok)
BY Limits DEF BudgetKept, Send, SameOrigin, CanRequest, Largest

LEMMA AnswersEffect ==
  ASSUME BudgetKept, NEW origin, NEW body \in Bodies, Answers(origin, body)
  PROVE  BudgetKept' /\ exhausted' = exhausted /\ answered'
<1>1. Size(body) \in 0 .. Largest
  BY DEF Size, Largest
<1>2. Send(origin, Size(body), TRUE)
  BY DEF Answers
<1>3. BudgetKept' /\ exhausted' = exhausted /\ answered' = (answered \/ TRUE)
  BY <1>1, <1>2, SendEffect
<1> QED
  BY <1>3

LEMMA FailsEffect ==
  ASSUME BudgetKept, NEW origin, Fails(origin)
  PROVE  /\ BudgetKept' /\ (exhausted => exhausted') /\ answered' = answered
         /\ missed' \subseteq missed \cup {"budget"} /\ missed \subseteq missed'
         /\ "budget" \in missed' => exhausted' \/ "budget" \in missed
<1>1. CASE Refuse(origin)
  BY <1>1 DEF Refuse, BudgetKept, Cut
<1>2. CASE Send(origin, 0, FALSE) /\ UNCHANGED missed
  <2>1. 0 \in 0 .. Largest /\ FALSE \in BOOLEAN
    BY DEF Largest
  <2>2. BudgetKept' /\ exhausted' = exhausted /\ answered' = (answered \/ FALSE)
    BY <1>2, <2>1, SendEffect
  <2>3. answered' = answered
    BY <2>2 DEF BudgetKept
  <2> QED
    BY <1>2, <2>2, <2>3
<1> QED
  BY <1>1, <1>2 DEF Fails

-----------------------------------------------------------------------------
(* The collector.                                                          *)

\* What a parser takes is some of what is there, and no more than its limit.
LEMMA TakeFacts ==
  ASSUME NEW S, NEW limit \in Nat, NEW T \in Take(S, limit),
         S \subseteq Refs \/ S \subseteq Scripts
  PROVE  T \subseteq S /\ Cardinality(T) <= limit
BY RefsFinite DEF Take

\* Something is taken where there is something and room for it.
LEMMA TakeSome ==
  ASSUME NEW S, S \subseteq Refs \/ S \subseteq Scripts, S # {}, NEW limit \in Nat \ {0},
         NEW T \in Take(S, limit)
  PROVE  Cardinality(T) \in 1 .. limit
<1>1. Cardinality(S) \in Nat \ {0}
  BY RefsFinite, FS_EmptySet
<1>2. T \subseteq S /\ Cardinality(T) <= limit
  BY TakeFacts
<1>3. T = S \/ Cardinality(T) = limit
  BY DEF Take
<1> QED
  BY <1>1, <1>2, <1>3

\* Together the sources never hold more candidates than the limit, and a candidate that
\* found no room leaves a mark.
LEMMA CollectEffect ==
  ASSUME CollectorKept, NEW refs \in SUBSET Refs, NEW kind \in Sources \cup {"html"},
         NEW because, Collect(refs, kind, because)
  PROVE  /\ CollectorKept' /\ (truncated => truncated') /\ New \in Nat
         /\ missed' \subseteq missed \cup because \cup {"candidates"}
         /\ "candidates" \in missed' =>
              truncated' \/ "candidates" \in missed \/ "candidates" \in because
<1> DEFINE known == DOMAIN items
           fresh == refs \ known
           room == MaxCandidates - Cardinality(known)
<1>1. known \subseteq Refs /\ fresh \subseteq Refs
  BY DEF CollectorKept
<1>2. IsFiniteSet(known) /\ Cardinality(known) \in Nat /\ room \in Nat
  BY <1>1, RefsFinite, Limits DEF CollectorKept
<1>3. PICK kept \in Take(fresh, room) :
        /\ items' = [r \in known \cup kept |->
                       (IF r \in known THEN items[r] ELSE {})
                         \cup (IF r \in (refs \cap known) \cup kept THEN {kind} ELSE {})]
        /\ truncated' = (truncated \/ fresh # kept)
        /\ missed' = missed \cup because \cup (IF fresh # kept THEN {"candidates"} ELSE {})
  BY DEF Collect, Room
<1>4. kept \subseteq fresh /\ Cardinality(kept) <= room
  <2> HIDE DEF fresh, room
  <2> QED BY <1>1, <1>2, TakeFacts
<1>5. IsFiniteSet(kept) /\ Cardinality(kept) \in Nat
  BY <1>1, <1>4, RefsFinite
<1>6. Cardinality(known \cup kept) <= MaxCandidates
  <2>1. known \cap kept = {}
    BY <1>4
  <2>2. Cardinality(known \cup kept) = Cardinality(known) + Cardinality(kept) - Cardinality({})
    BY <1>2, <1>5, <2>1, FS_Union
  <2> HIDE DEF known
  <2> QED
    BY <1>2, <1>4, <1>5, <2>2, FS_EmptySet, Limits
<1>7. DOMAIN items' = known \cup kept
  BY <1>3
<1>8. \A r \in DOMAIN items' : items'[r] \subseteq Sources \cup {"html"}
  BY <1>3, <1>7 DEF CollectorKept
<1>9. truncated' \in BOOLEAN /\ (truncated => truncated') /\ (fresh # kept => truncated')
  <2> HIDE DEF fresh
  <2> QED BY <1>3 DEF CollectorKept
<1>10. CollectorKept'
  BY <1>1, <1>4, <1>6, <1>7, <1>8, <1>9 DEF CollectorKept
<1>11. New \in Nat
  <2>1. DOMAIN items' \ DOMAIN items \subseteq Refs
    BY <1>1, <1>4, <1>7
  <2> QED
    BY <2>1, RefsFinite DEF New
<1> QED
  BY <1>3, <1>9, <1>10, <1>11

-----------------------------------------------------------------------------
(* One source's turn. A step is of one source, rewrites no attempt but     *)
(* that source's and puts no other source behind the pass.                 *)

TurnOf(s) ==
  /\ \A t \in Sources \ {s} : stage' \in Beyond(t) <=> stage \in Beyond(t)
  /\ stage \in Beyond(s) => stage' \in Beyond(s)
  /\ "fetching" \in {stage, stage'} => s = "script"

\* What the step makes of the source's attempt is true of it.
Explained(s, a) ==
  /\ s \in enable /\ stage' \in Beyond(s) => a.ran \/ a.problem
  /\ stage' = "fetching" => s \in enable /\ (a.ran \/ a.problem \/ left' > 0)
  /\ ~ answered' => ~ a.ran /\ ~ root'.read

\* What the step misses it marks.
Marked(s, a) ==
  /\ "budget" \in missed' => exhausted'
  /\ "candidates" \in missed' => truncated'
  /\ "robots" \in missed' /\ (s = "robots" \/ "robots" \notin missed) =>
       /\ s = "robots" /\ s \in enable /\ stage' \in Beyond(s)
       /\ a.truncated
  /\ missed' \cap {"scripts", "script"} # {}
     /\ (s = "script" \/ missed \cap {"scripts", "script"} = {}) =>
       /\ s = "script" /\ s \in enable /\ stage' \in {"fetching"} \cup Beyond(s)
       /\ a.truncated

LEMMA Turns ==
  /\ stage \in {"root", "redirected"} /\ stage' \in {"root", "redirected", "robots"}
       /\ (stage' = "root" => stage = "root") => TurnOf("link")
  /\ stage = "robots" /\ stage' = "scripts" => TurnOf("robots")
  /\ stage \in {"scripts", "fetching"} /\ stage' \in {"fetching", "wellknown"}
       => TurnOf("script")
  /\ stage \in {"wellknown", "probing"} /\ stage' \in {"probing", "merge"}
       => TurnOf("wellknown")
BY DEF TurnOf, Beyond, Sources, Stages

LEMMA TurnKeeps ==
  ASSUME PassInv, NEW s \in Sources, NEW a \in Attempts, TurnOf(s),
         attempt' = [attempt EXCEPT ![s] = a],
         UNCHANGED <<enable, merged>>,
         BudgetKept', CollectorKept', ProgressTyped',
         exhausted => exhausted', truncated => truncated', answered => answered',
         Explained(s, a), Marked(s, a)
  PROVE  PassInv'
<1>1. /\ attempt'[s] = a
      /\ \A t \in Sources : t # s => attempt'[t] = attempt[t]
  BY DEF PassInv, ProgressTyped
<1>2. TurnsExplained'
  <2>1. ASSUME NEW t \in enable, stage' \in Beyond(t)
        PROVE  attempt'[t].ran \/ attempt'[t].problem
    <3>1. t \in Sources
      BY DEF PassInv, ProgressTyped
    <3>2. CASE t = s
      BY <1>1, <2>1, <3>2 DEF Explained
    <3>3. CASE t # s
      BY <1>1, <2>1, <3>1, <3>3 DEF PassInv, TurnsExplained, TurnOf
    <3> QED
      BY <3>2, <3>3
  <2>2. ASSUME stage' = "fetching"
        PROVE  /\ "script" \in enable
               /\ attempt'["script"].ran \/ attempt'["script"].problem \/ left' > 0
    BY <1>1, <2>2 DEF Explained, TurnOf
  <2> QED
    BY <2>1, <2>2 DEF TurnsExplained, Beyond
<1>3. SilenceIsEmpty'
  BY <1>1 DEF PassInv, SilenceIsEmpty, Explained
<1>4. CutsMarked'
  <2>1. "robots" \in missed' =>
          /\ "robots" \in enable /\ stage' \in Beyond("robots")
          /\ attempt'["robots"].truncated
    BY <1>1 DEF PassInv, CutsMarked, Marked, TurnOf, Sources
  <2>2. missed' \cap {"scripts", "script"} # {} =>
          /\ "script" \in enable /\ stage' \in {"fetching"} \cup Beyond("script")
          /\ attempt'["script"].truncated
    <3>1. CASE s = "script"
      BY <1>1, <3>1 DEF Marked
    <3>2. CASE s # "script"
      BY <1>1, <3>2 DEF PassInv, CutsMarked, Marked, TurnOf, Sources
    <3> QED
      BY <3>1, <3>2
  <2> QED
    BY <2>1, <2>2 DEF CutsMarked, Marked, Beyond
<1>5. MergeSound'
  BY DEF PassInv, MergeSound, DocumentedIsNotRediscovered
<1> QED
  BY <1>2, <1>3, <1>4, <1>5 DEF PassInv

\* A step that records nothing of its source leaves the attempt as it is.
LEMMA QuietTurnKeeps ==
  ASSUME PassInv, NEW s \in Sources, TurnOf(s),
         UNCHANGED <<enable, merged, attempt, budget, root>>,
         CollectorKept', ProgressTyped', truncated => truncated',
         "fetching" \notin {stage, stage'},
         stage' \in Beyond(s) => stage \in Beyond(s) \/ s \notin enable,
         missed' \subseteq missed \cup {"candidates"},
         "candidates" \in missed' => truncated'
  PROVE  PassInv'
<1> DEFINE a == attempt[s]
<1>1. a \in Attempts /\ attempt' = [attempt EXCEPT ![s] = a]
  BY DEF PassInv, ProgressTyped
<1>2. BudgetKept' /\ exhausted' = exhausted /\ answered' = answered
  BY DEF PassInv, BudgetKept, budget
<1>3. Explained(s, a)
  BY <1>2 DEF PassInv, TurnsExplained, SilenceIsEmpty, Explained
<1>4. Marked(s, a)
  <2>1. /\ "budget" \in missed' => exhausted'
        /\ "robots" \in missed' => "robots" \in missed
        /\ missed' \cap {"scripts", "script"} # {} => missed \cap {"scripts", "script"} # {}
    BY <1>2 DEF PassInv, CutsMarked
  <2> QED
    BY <2>1 DEF PassInv, CutsMarked, Marked, TurnOf
<1> HIDE DEF a
<1> QED
  BY <1>1, <1>2, <1>3, <1>4, TurnKeeps

-----------------------------------------------------------------------------
(* The root document.                                                      *)

LEMMA AttemptTyped ==
  ASSUME PassInv, NEW s \in Sources
  PROVE  /\ attempt[s] \in Attempts
         /\ \A a \in Attempts : [attempt EXCEPT ![s] = a] \in [Sources -> Attempts]
         /\ [NotRun EXCEPT !.problem = TRUE] \in Attempts
BY DEF PassInv, ProgressTyped, Attempts, NotRun

LEMMA SkipKeeps ==
  PassInv /\ (SkipRoot \/ Skip("robots", "robots") \/ Skip("scripts", "script")
             \/ Skip("wellknown", "wellknown")) => PassInv'
<1> SUFFICES ASSUME PassInv, SkipRoot \/ Skip("robots", "robots") \/ Skip("scripts", "script")
                            \/ Skip("wellknown", "wellknown")
             PROVE  PassInv'
  OBVIOUS
<1>1. UNCHANGED <<enable, budget, current, root, left, collected, merged>>
  BY DEF SkipRoot, Skip
<1>2. CollectorKept' /\ truncated' = truncated /\ missed' = missed /\ attempt' = attempt
  BY <1>1 DEF collected, PassInv, CollectorKept
<1>3. "candidates" \in missed => truncated
  BY DEF PassInv, CutsMarked
<1>4. PICK s \in Sources :
        /\ TurnOf(s) /\ s \notin enable /\ stage' \in {"robots", "scripts", "wellknown", "merge"}
        /\ stage # "fetching"
  BY Turns DEF SkipRoot, Reads, Skip, After, Sources
<1>5. ProgressTyped'
  BY <1>1, <1>2, <1>4 DEF PassInv, ProgressTyped, Stages
<1> QED
  BY <1>1, <1>2, <1>3, <1>4, <1>5, QuietTurnKeeps

LEMMA RootUnreadKeeps == PassInv /\ RootUnread => PassInv'
<1> SUFFICES ASSUME PassInv, RootUnread PROVE PassInv'
  OBVIOUS
<1> DEFINE a == [attempt["link"] EXCEPT !.problem = TRUE]
<1>1. /\ stage = "root" /\ stage' = "robots" /\ Fails(current.origin)
      /\ attempt' = [attempt EXCEPT !["link"] = a]
      /\ UNCHANGED <<enable, current, root, left, items, truncated, merged>>
  BY DEF RootUnread, Record, After
<1>2. a \in Attempts /\ a.problem /\ a.ran = attempt["link"].ran
  BY AttemptTyped DEF Attempts, Sources
<1>3. /\ BudgetKept' /\ (exhausted => exhausted') /\ answered' = answered
      /\ missed' \subseteq missed \cup {"budget"}
      /\ "budget" \in missed' => exhausted' \/ "budget" \in missed
  BY <1>1, FailsEffect DEF PassInv
<1>4. CollectorKept' /\ ProgressTyped'
  BY <1>1, <1>2, <1>3, AttemptTyped
  DEF PassInv, CollectorKept, ProgressTyped, Stages, Reasons, Sources
<1>5. TurnOf("link")
  BY <1>1, Turns
<1>6. Explained("link", a)
  <2> HIDE DEF a
  <2> QED BY <1>1, <1>2, <1>3 DEF PassInv, SilenceIsEmpty, Explained, Sources
<1>7. Marked("link", a)
  BY <1>1, <1>3 DEF PassInv, CutsMarked, Marked
<1> HIDE DEF a
<1> QED
  BY <1>1, <1>2, <1>3, <1>4, <1>5, <1>6, <1>7, TurnKeeps DEF Sources

LEMMA LinksEffect ==
  ASSUME PassInv, NEW body \in Bodies, NEW because \in SUBSET Unmarked, Links(body, because)
  PROVE  /\ CollectorKept' /\ (truncated => truncated')
         /\ missed' \subseteq missed \cup Unmarked \cup {"links", "candidates"}
         /\ "candidates" \in missed' => truncated'
         /\ \E a \in Attempts : a.ran /\ attempt' = [attempt EXCEPT !["link"] = a]
<1>1. PICK taken \in Take(body.refs, PerHeader) :
        Collect(taken, "link", Cut(taken # body.refs, "links") \cup because)
  BY DEF Links
<1>2. taken \in SUBSET Refs /\ "link" \in Sources
  BY TakeFacts, Limits DEF Bodies, Sources
<1> DEFINE why == Cut(taken # body.refs, "links") \cup because
<1>3. why \subseteq {"links"} \cup Unmarked /\ "candidates" \notin why
  BY DEF Cut, Unmarked
<1>4. /\ CollectorKept' /\ (truncated => truncated') /\ New \in Nat
      /\ missed' \subseteq missed \cup why \cup {"candidates"}
      /\ "candidates" \in missed' =>
           truncated' \/ "candidates" \in missed \/ "candidates" \in why
  <2>1. Collect(taken, "link", why)
    BY <1>1
  <2> HIDE DEF why
  <2> QED BY <2>1, <1>2, CollectEffect DEF PassInv
<1> HIDE DEF why
<1>5. "candidates" \in missed' => truncated'
  BY <1>3, <1>4 DEF PassInv, CutsMarked
<1> DEFINE a == [attempt["link"] EXCEPT !.ran = TRUE, !.found = attempt["link"].found + New]
<1>6. a \in Attempts /\ a.ran
  <2>1. attempt["link"] \in Attempts /\ attempt["link"].found + New \in Nat
    BY <1>2, <1>4, AttemptTyped DEF Attempts
  <2> HIDE DEF New
  <2> QED BY <2>1 DEF Attempts
<1>7. attempt' = [attempt EXCEPT !["link"] = a]
  BY DEF Links, Record
<1> QED
  BY <1>3, <1>4, <1>5, <1>6, <1>7

LEMMA RootReadKeeps == PassInv /\ (RootPage \/ RootRedirect) => PassInv'
<1> SUFFICES ASSUME PassInv, RootPage \/ RootRedirect PROVE PassInv'
  OBVIOUS
<1>1. PICK body \in Bodies, because \in SUBSET Unmarked :
        Answers(current.origin, body) /\ Links(body, because)
  <2>1. CASE RootPage
    <3>1. PICK body \in Bodies, markup \in BOOLEAN, named \in ScriptSources :
            /\ Answers(current.origin, body)
            /\ Links(body, Cut(named.more, "references"))
      BY <2>1 DEF RootPage
    <3>2. Cut(named.more, "references") \in SUBSET Unmarked
      BY DEF Cut, Unmarked
    <3> QED
      BY <3>1, <3>2
  <2>2. CASE RootRedirect
    BY <2>2 DEF RootRedirect
  <2> QED
    BY <2>1, <2>2
<1>2. BudgetKept' /\ exhausted' = exhausted /\ answered'
  BY <1>1, AnswersEffect DEF PassInv
<1>3. /\ CollectorKept' /\ (truncated => truncated')
      /\ missed' \subseteq missed \cup Unmarked \cup {"links", "candidates"}
      /\ "candidates" \in missed' => truncated'
  BY <1>1, LinksEffect
<1>4. PICK a \in Attempts : a.ran /\ attempt' = [attempt EXCEPT !["link"] = a]
  BY <1>1, LinksEffect
<1>5. /\ stage = "root" /\ stage' \in {"root", "redirected", "robots"}
      /\ UNCHANGED <<enable, left, merged>>
  BY DEF RootPage, RootRedirect, After
<1>6. current' \in [origin : {"own"}, hop : 0 .. 1]
  <2>1. CASE RootPage
    BY <2>1 DEF RootPage, PassInv, ProgressTyped
  <2>2. CASE RootRedirect
    BY <2>2 DEF RootRedirect, SameOrigin, LastHop, PassInv, ProgressTyped
  <2> QED
    BY <2>1, <2>2
<1>7. root' \in [read : BOOLEAN, markup : BOOLEAN, scripts : SUBSET (Scripts \cup Others)]
  <2>1. CASE RootPage
    <3>1. PICK markup \in BOOLEAN, named \in ScriptSources :
            root' = [read |-> TRUE, markup |-> markup, scripts |-> named.taken]
      BY <2>1 DEF RootPage
    <3>2. named.taken \in SUBSET (Scripts \cup Others)
      BY DEF ScriptSources
    <3> QED
      BY <3>1, <3>2
  <2>2. CASE RootRedirect
    BY <2>2 DEF RootRedirect, PassInv, ProgressTyped
  <2> QED
    BY <2>1, <2>2
<1>8. ProgressTyped'
  BY <1>3, <1>4, <1>5, <1>6, <1>7, AttemptTyped
  DEF PassInv, ProgressTyped, Stages, Reasons, Sources
<1>9. TurnOf("link")
  BY <1>5, Turns
<1>10. Explained("link", a) /\ Marked("link", a)
  BY <1>2, <1>3, <1>4, <1>5 DEF PassInv, CutsMarked, Explained, Marked, Unmarked
<1> QED
  BY <1>2, <1>3, <1>4, <1>5, <1>8, <1>9, <1>10, TurnKeeps DEF Sources

LEMMA RecordRedirectKeeps == PassInv /\ RecordRedirect => PassInv'
<1> SUFFICES ASSUME PassInv, RecordRedirect PROVE PassInv'
  OBVIOUS
<1>1. /\ stage = "redirected" /\ stage' = "robots"
      /\ UNCHANGED <<enable, budget, current, root, left, attempt, merged>>
  BY DEF RecordRedirect, After
<1>2. PICK o \in Others : Collect({o}, "html", {})
  BY DEF RecordRedirect
<1>3. {o} \in SUBSET Refs /\ "html" \in Sources \cup {"html"}
  BY DEF Refs
<1>4. /\ CollectorKept' /\ (truncated => truncated')
      /\ missed' \subseteq missed \cup {} \cup {"candidates"}
      /\ "candidates" \in missed' => truncated' \/ "candidates" \in missed \/ "candidates" \in {}
  BY <1>2, <1>3, CollectEffect DEF PassInv
<1>5. "candidates" \in missed' => truncated'
  BY <1>4 DEF PassInv, CutsMarked
<1>6. ProgressTyped'
  BY <1>1, <1>4 DEF PassInv, ProgressTyped, Stages, Reasons
<1>7. TurnOf("link")
  BY <1>1, Turns
<1>8. stage \in Beyond("link")
  BY <1>1 DEF Beyond, Stages
<1> QED
  BY <1>1, <1>4, <1>5, <1>6, <1>7, <1>8, QuietTurnKeeps DEF Sources

-----------------------------------------------------------------------------
(* A request that comes to nothing, for any source: it fails, or what it   *)
(* gives is not read.                                                      *)

GivesNothing(s, a, origin) ==
  \/ /\ Fails(origin)
     /\ a.problem /\ (a.ran => attempt[s].ran)
  \/ /\ \E body \in Bodies : Answers(origin, body)
     /\ UNCHANGED missed
     /\ a.ran

LEMMA UnreadKeeps ==
  ASSUME PassInv, NEW s \in Sources, NEW a \in Attempts, NEW origin,
         TurnOf(s), attempt' = [attempt EXCEPT ![s] = a],
         UNCHANGED <<enable, current, root, items, truncated, merged>>,
         stage' \in Stages, left' \in 0 .. (IF MaxScripts > Probes THEN MaxScripts ELSE Probes),
         GivesNothing(s, a, origin),
         s = "robots" => "robots" \notin missed,
         s = "script" => /\ stage' = "fetching" /\ "script" \in enable
                         /\ attempt[s].truncated => a.truncated
  PROVE  PassInv'
<1>1. /\ BudgetKept' /\ (exhausted => exhausted')
      /\ missed' \subseteq missed \cup {"budget"}
      /\ "budget" \in missed' => exhausted'
      /\ answered => answered'
      /\ ~ answered' => answered' = answered /\ (a.ran => attempt[s].ran)
      /\ a.ran \/ a.problem
  <2>1. CASE Fails(origin) /\ a.problem /\ (a.ran => attempt[s].ran)
    BY <2>1, FailsEffect DEF PassInv, CutsMarked
  <2>2. CASE (\E body \in Bodies : Answers(origin, body)) /\ UNCHANGED missed /\ a.ran
    <3>1. BudgetKept' /\ exhausted' = exhausted /\ answered'
      BY <2>2, AnswersEffect DEF PassInv
    <3> QED
      BY <2>2, <3>1 DEF PassInv, CutsMarked
  <2> QED
    BY <2>1, <2>2 DEF GivesNothing
<1>2. CollectorKept' /\ ProgressTyped'
  BY <1>1, AttemptTyped DEF PassInv, CollectorKept, ProgressTyped, Reasons
<1>3. Explained(s, a)
  BY <1>1 DEF PassInv, SilenceIsEmpty, Explained, TurnOf
<1>4. Marked(s, a)
  <2>1. /\ "robots" \in missed' => "robots" \in missed
        /\ missed' \cap {"scripts", "script"} # {} => missed \cap {"scripts", "script"} # {}
        /\ "candidates" \in missed' => truncated'
    BY <1>1 DEF PassInv, CutsMarked
  <2> QED
    BY <1>1, <2>1 DEF PassInv, CutsMarked, Marked
<1> QED
  BY <1>1, <1>2, <1>3, <1>4, TurnKeeps

\* An answer that is read, for any source: it is collected and its cuts are marked.
LEMMA ReadKeeps ==
  ASSUME PassInv, NEW s \in Sources, NEW a \in Attempts, NEW origin, NEW body \in Bodies,
         NEW refs \in SUBSET Refs, NEW because \in SUBSET (Reasons \ {"budget", "candidates"}),
         TurnOf(s), attempt' = [attempt EXCEPT ![s] = a], a.ran,
         Answers(origin, body), Collect(refs, s, because),
         UNCHANGED <<enable, current, root, merged>>,
         stage' \in Stages, left' \in 0 .. (IF MaxScripts > Probes THEN MaxScripts ELSE Probes),
         "robots" \in because => s = "robots" /\ s \in enable /\ a.truncated,
         s = "robots" => "robots" \notin missed /\ stage' \in Beyond("robots"),
         because \cap {"scripts", "script"} # {} => s = "script" /\ a.truncated,
         s = "script" => /\ stage' = "fetching" /\ "script" \in enable
                         /\ attempt[s].truncated => a.truncated
  PROVE  PassInv'
<1>1. BudgetKept' /\ exhausted' = exhausted /\ answered'
  BY AnswersEffect DEF PassInv
<1>2. /\ CollectorKept' /\ (truncated => truncated')
      /\ missed' \subseteq missed \cup because \cup {"candidates"}
      /\ "candidates" \in missed' =>
           truncated' \/ "candidates" \in missed \/ "candidates" \in because
  BY CollectEffect DEF PassInv
<1>3. ProgressTyped'
  BY <1>2, AttemptTyped DEF PassInv, ProgressTyped, Reasons
<1>4. Explained(s, a)
  BY <1>1 DEF Explained, TurnOf
<1>5. Marked(s, a)
  <2>1. "budget" \in missed' => exhausted'
    BY <1>1, <1>2 DEF PassInv, CutsMarked
  <2>2. "candidates" \in missed' => truncated'
    BY <1>2 DEF PassInv, CutsMarked
  <2>3. "robots" \in missed' => "robots" \in missed \/ "robots" \in because
    BY <1>2
  <2>4. missed' \cap {"scripts", "script"} # {} =>
          missed \cap {"scripts", "script"} # {} \/ because \cap {"scripts", "script"} # {}
    BY <1>2
  <2>5. s = "script" /\ missed \cap {"scripts", "script"} # {} => a.truncated
    BY DEF PassInv, CutsMarked
  <2> QED
    BY <2>1, <2>2, <2>3, <2>4, <2>5 DEF Marked
<1> QED
  BY <1>1, <1>2, <1>3, <1>4, <1>5, TurnKeeps

-----------------------------------------------------------------------------
(* robots.txt                                                              *)

LEMMA BeforeRobots == PassInv /\ stage = "robots" => "robots" \notin missed
BY DEF PassInv, CutsMarked, Beyond

LEMMA RobotsUnreadKeeps == PassInv /\ RobotsUnread => PassInv'
<1> SUFFICES ASSUME PassInv, RobotsUnread PROVE PassInv'
  OBVIOUS
<1>1. /\ stage = "robots" /\ stage' = "scripts"
      /\ UNCHANGED <<enable, current, root, left, items, truncated, merged>>
  BY DEF RobotsUnread, After
<1>2. TurnOf("robots") /\ "robots" \notin missed /\ "robots" \in Sources
  BY <1>1, Turns, BeforeRobots DEF Sources
<1>3. left' \in 0 .. (IF MaxScripts > Probes THEN MaxScripts ELSE Probes) /\ stage' \in Stages
  BY <1>1 DEF PassInv, ProgressTyped, Stages
<1>4. attempt["robots"].ran \in BOOLEAN
  BY <1>2, AttemptTyped DEF Attempts
<1>5. CASE /\ Fails("own")
           /\ attempt' = [attempt EXCEPT !["robots"] = [NotRun EXCEPT !.problem = TRUE]]
  <2> DEFINE a == [NotRun EXCEPT !.problem = TRUE]
  <2>1. a \in Attempts /\ a.problem /\ (a.ran => attempt["robots"].ran)
    BY AttemptTyped DEF NotRun, Sources
  <2>2. GivesNothing("robots", a, "own")
    BY <1>5, <2>1 DEF GivesNothing
  <2>3. attempt' = [attempt EXCEPT !["robots"] = a]
    BY <1>5
  <2> HIDE DEF a
  <2> QED
    BY <1>1, <1>2, <1>3, <2>1, <2>2, <2>3, UnreadKeeps
<1>6. CASE /\ \E body \in Bodies : Answers("own", body)
           /\ UNCHANGED missed
           /\ attempt' = [attempt EXCEPT !["robots"] =
                            [NotRun EXCEPT !.ran = TRUE, !.problem = TRUE]]
  <2> DEFINE a == [NotRun EXCEPT !.ran = TRUE, !.problem = TRUE]
  <2>1. a \in Attempts /\ a.ran
    BY DEF NotRun, Attempts
  <2>2. GivesNothing("robots", a, "own")
    BY <1>6, <2>1 DEF GivesNothing
  <2>3. attempt' = [attempt EXCEPT !["robots"] = a]
    BY <1>6
  <2> HIDE DEF a
  <2> QED
    BY <1>1, <1>2, <1>3, <2>1, <2>2, <2>3, UnreadKeeps
<1> QED
  BY <1>5, <1>6 DEF RobotsUnread, Record

LEMMA RobotsReadKeeps == PassInv /\ RobotsRead => PassInv'
<1> SUFFICES ASSUME PassInv, RobotsRead PROVE PassInv'
  OBVIOUS
<1>1. /\ stage = "robots" /\ "robots" \in enable /\ stage' = "scripts"
      /\ UNCHANGED <<enable, current, root, left, merged>>
  BY DEF RobotsRead, After
<1> DEFINE Cuts(body, taken) == taken # body.refs \cap Paths
           Because(body, taken) == Cut(Cuts(body, taken), "robots")
           Reading(body, taken) ==
             /\ Answers("own", body)
             /\ Collect(taken, "robots", Because(body, taken))
             /\ Record("robots", [ran |-> TRUE, problem |-> FALSE, truncated |-> Cuts(body, taken),
                                  found |-> Cardinality(taken)])
<1>2. PICK body \in Bodies :
        \E taken \in Take(body.refs \cap Paths, PerSource) : Reading(body, taken)
  BY DEF RobotsRead
<1>3. PICK taken \in Take(body.refs \cap Paths, PerSource) : Reading(body, taken)
  BY <1>2
<1> DEFINE cut == Cuts(body, taken)
           because == Because(body, taken)
           a == [ran |-> TRUE, problem |-> FALSE, truncated |-> cut, found |-> Cardinality(taken)]
<1>4. taken \in SUBSET Refs /\ Cardinality(taken) \in Nat
  <2>1. body.refs \cap Paths \subseteq Refs
    BY DEF Bodies
  <2>2. taken \subseteq body.refs \cap Paths
    BY <2>1, TakeFacts, Limits
  <2> QED
    BY <2>1, <2>2, RefsFinite
<1>5. a \in Attempts /\ a.ran /\ a.truncated = cut
  BY <1>4 DEF Attempts
<1>6. /\ because \in SUBSET (Reasons \ {"budget", "candidates"})
      /\ "robots" \in because => cut
      /\ because \cap {"scripts", "script"} = {}
  BY DEF Cut, Reasons
<1>7. /\ TurnOf("robots") /\ "robots" \notin missed /\ "robots" \in Sources
      /\ stage' \in Beyond("robots") /\ stage' \in Stages
  BY <1>1, Turns, BeforeRobots DEF Sources, Beyond, Stages
<1>8. left' \in 0 .. (IF MaxScripts > Probes THEN MaxScripts ELSE Probes)
  BY <1>1 DEF PassInv, ProgressTyped
<1>9. /\ attempt' = [attempt EXCEPT !["robots"] = a] /\ Collect(taken, "robots", because)
      /\ Answers("own", body)
  BY <1>3 DEF Record
<1> HIDE DEF a, because, cut
<1> QED
  BY <1>1, <1>4, <1>5, <1>6, <1>7, <1>8, <1>9, ReadKeeps

-----------------------------------------------------------------------------
(* The scripts.                                                            *)

\* What counts as a script of the own origin is one; before it is asked for, nothing of the
\* source was missed.
LEMMA ScriptFacts ==
  ASSUME PassInv
  PROVE  /\ Own \subseteq Scripts /\ "script" \in Sources /\ "html" \in Sources \cup {"html"}
         /\ Own = {} => root.scripts \subseteq Refs
         /\ stage = "scripts" => missed \cap {"scripts", "script"} = {}
         /\ stage = "fetching" => "script" \in enable
<1>1. root.scripts \subseteq Scripts \cup Others
  BY DEF PassInv, ProgressTyped
<1>2. Own \subseteq Scripts
  BY <1>1 DEF Own, SameOrigin
<1>3. Own = {} => root.scripts \subseteq Others
  BY <1>1 DEF Own, SameOrigin
<1> QED
  BY <1>2, <1>3 DEF Refs, Sources, PassInv, CutsMarked, TurnsExplained, Beyond

LEMMA ScriptsNoneKeeps == PassInv /\ ScriptsNone => PassInv'
<1> SUFFICES ASSUME PassInv, ScriptsNone PROVE PassInv'
  OBVIOUS
<1> DEFINE ran == root.read /\ root.markup
           a == [NotRun EXCEPT !.ran = ran, !.problem = TRUE]
<1>1. /\ stage = "scripts" /\ stage' = "wellknown" /\ Own = {}
      /\ Collect(root.scripts, "html", {})
      /\ attempt' = [attempt EXCEPT !["script"] = a]
      /\ UNCHANGED <<enable, budget, current, root, left, merged>>
  BY DEF ScriptsNone, Record, After
<1>2. /\ CollectorKept' /\ (truncated => truncated')
      /\ missed' \subseteq missed \cup {} \cup {"candidates"}
      /\ "candidates" \in missed' => truncated' \/ "candidates" \in missed \/ "candidates" \in {}
  BY <1>1, ScriptFacts, CollectEffect DEF PassInv
<1>3. a \in Attempts /\ a.problem /\ (a.ran => root.read)
  <2>1. ran \in BOOLEAN /\ (ran => root.read)
    BY DEF PassInv, ProgressTyped
  <2> HIDE DEF ran
  <2> QED
    BY <2>1 DEF NotRun, Attempts
<1> HIDE DEF a
<1>4. ProgressTyped'
  BY <1>1, <1>2, <1>3, AttemptTyped, ScriptFacts DEF PassInv, ProgressTyped, Stages, Reasons
<1>5. TurnOf("script") /\ "script" \in Sources
  BY <1>1, Turns DEF Sources
<1>6. BudgetKept' /\ exhausted' = exhausted /\ answered' = answered
  BY <1>1 DEF PassInv, BudgetKept, budget
<1>7. Explained("script", a)
  BY <1>1, <1>3, <1>6 DEF PassInv, SilenceIsEmpty, Explained
<1>8. Marked("script", a)
  BY <1>1, <1>2, <1>6, ScriptFacts DEF PassInv, CutsMarked, Marked
<1> QED
  BY <1>1, <1>2, <1>3, <1>4, <1>5, <1>6, <1>7, <1>8, TurnKeeps

LEMMA ScriptsChosenKeeps == PassInv /\ ScriptsChosen => PassInv'
<1> SUFFICES ASSUME PassInv, ScriptsChosen PROVE PassInv'
  OBVIOUS
<1>1. /\ stage = "scripts" /\ stage' = "fetching" /\ Own # {} /\ "script" \in enable
      /\ UNCHANGED <<enable, budget, current, root, merged>>
  BY DEF ScriptsChosen
<1>2. PICK chosen \in Take(Own, MaxScripts) :
        /\ left' = Cardinality(chosen)
        /\ Collect(root.scripts \cap Others, "html", Cut(chosen # Own, "scripts"))
        /\ Record("script", [NotRun EXCEPT !.truncated = chosen # Own])
  BY DEF ScriptsChosen, Selected
<1> DEFINE cut == chosen # Own
           a == [NotRun EXCEPT !.truncated = cut]
           because == Cut(cut, "scripts")
<1>3. left' \in 1 .. MaxScripts
  BY <1>1, <1>2, ScriptFacts, TakeSome, Limits
<1>4. because \subseteq {"scripts"} /\ ("scripts" \in because => cut)
  BY DEF Cut
<1>5. a \in Attempts /\ a.ran = FALSE /\ a.truncated = cut
  BY DEF NotRun, Attempts
<1>6. attempt' = [attempt EXCEPT !["script"] = a] /\ Collect(root.scripts \cap Others, "html", because)
  BY <1>2 DEF Record
<1> HIDE DEF a, because, cut
<1>7. /\ CollectorKept' /\ (truncated => truncated')
      /\ missed' \subseteq missed \cup because \cup {"candidates"}
      /\ "candidates" \in missed' =>
           truncated' \/ "candidates" \in missed \/ "candidates" \in because
  <2>1. root.scripts \cap Others \in SUBSET Refs
    BY DEF Refs
  <2> QED
    BY <1>6, <2>1, ScriptFacts, CollectEffect DEF PassInv
<1>8. ProgressTyped'
  <2>1. left' \in 0 .. (IF MaxScripts > Probes THEN MaxScripts ELSE Probes)
    BY <1>3, Limits
  <2>2. missed' \subseteq Reasons
    BY <1>4, <1>7 DEF PassInv, ProgressTyped, Reasons
  <2> QED
    BY <1>1, <1>5, <1>6, <2>1, <2>2, AttemptTyped, ScriptFacts DEF PassInv, ProgressTyped, Stages
<1>9. TurnOf("script") /\ "script" \in Sources
  BY <1>1, Turns DEF Sources
<1>10. BudgetKept' /\ exhausted' = exhausted /\ answered' = answered
  BY <1>1 DEF PassInv, BudgetKept, budget
<1>11. Explained("script", a)
  <2>1. left' > 0 /\ ~ a.ran
    BY <1>3, <1>5, Limits
  <2>2. stage' \notin Beyond("script") /\ (~ answered' => ~ root'.read)
    BY <1>1, <1>10 DEF Beyond, PassInv, SilenceIsEmpty
  <2> QED
    BY <1>1, <2>1, <2>2 DEF Explained
<1>12. Marked("script", a)
  <2>1. missed' \cap {"scripts", "script"} # {} => a.truncated
    BY <1>1, <1>4, <1>5, <1>7, ScriptFacts
  <2>2. /\ "budget" \in missed' => exhausted'
        /\ "candidates" \in missed' => truncated'
        /\ "robots" \in missed' => "robots" \in missed
    BY <1>4, <1>7, <1>10 DEF PassInv, CutsMarked
  <2> QED
    BY <1>1, <2>1, <2>2 DEF Marked
<1> QED
  BY <1>1, <1>5, <1>6, <1>7, <1>8, <1>9, <1>10, <1>11, <1>12, TurnKeeps

\* How many scripts or probes are left, before and after one of them.
LEMMA LeftTyped ==
  ASSUME PassInv
  PROVE  /\ left \in 0 .. (IF MaxScripts > Probes THEN MaxScripts ELSE Probes)
         /\ left > 0 => left - 1 \in 0 .. (IF MaxScripts > Probes THEN MaxScripts ELSE Probes)
BY Limits DEF PassInv, ProgressTyped

LEMMA ScriptUnreadKeeps == PassInv /\ ScriptUnread => PassInv'
<1> SUFFICES ASSUME PassInv, ScriptUnread PROVE PassInv'
  OBVIOUS
<1>1. /\ stage = "fetching" /\ stage' = "fetching" /\ left > 0 /\ left' = left - 1
      /\ UNCHANGED <<enable, current, root, items, truncated, merged>>
  BY DEF ScriptUnread
<1>2. /\ TurnOf("script") /\ "script" \in Sources /\ "script" \in enable /\ stage' \in Stages
      /\ left' \in 0 .. (IF MaxScripts > Probes THEN MaxScripts ELSE Probes)
  BY <1>1, Turns, ScriptFacts, LeftTyped DEF Stages
<1>3. attempt["script"] \in Attempts
  BY <1>2, AttemptTyped
<1>4. CASE /\ \E o \in ScriptOrigin : Fails(o)
           /\ Record("script", [attempt["script"] EXCEPT !.problem = TRUE])
  <2> DEFINE a == [attempt["script"] EXCEPT !.problem = TRUE]
  <2>1. /\ a \in Attempts /\ a.problem /\ (a.ran => attempt["script"].ran)
        /\ attempt["script"].truncated => a.truncated
    BY <1>3 DEF Attempts
  <2>2. PICK o \in ScriptOrigin : Fails(o)
    BY <1>4
  <2>3. GivesNothing("script", a, o) /\ attempt' = [attempt EXCEPT !["script"] = a]
    BY <1>4, <2>1, <2>2 DEF GivesNothing, Record
  <2> HIDE DEF a
  <2> QED
    BY <1>1, <1>2, <2>1, <2>3, UnreadKeeps
<1>5. CASE /\ \E o \in ScriptOrigin, body \in Bodies : Answers(o, body)
           /\ UNCHANGED missed
           /\ Record("script", [attempt["script"] EXCEPT !.ran = TRUE])
  <2> DEFINE a == [attempt["script"] EXCEPT !.ran = TRUE]
  <2>1. a \in Attempts /\ a.ran /\ (attempt["script"].truncated => a.truncated)
    BY <1>3 DEF Attempts
  <2>2. PICK o \in ScriptOrigin : \E body \in Bodies : Answers(o, body)
    BY <1>5
  <2>3. GivesNothing("script", a, o) /\ attempt' = [attempt EXCEPT !["script"] = a]
    BY <1>5, <2>1, <2>2 DEF GivesNothing, Record
  <2> HIDE DEF a
  <2> QED
    BY <1>1, <1>2, <2>1, <2>3, UnreadKeeps
<1> QED
  BY <1>4, <1>5 DEF ScriptUnread

LEMMA ScriptReadKeeps == PassInv /\ ScriptRead => PassInv'
<1> SUFFICES ASSUME PassInv, ScriptRead PROVE PassInv'
  OBVIOUS
<1>1. /\ stage = "fetching" /\ stage' = "fetching" /\ left > 0 /\ left' = left - 1
      /\ UNCHANGED <<enable, current, root, merged>>
  BY DEF ScriptRead
<1>2. /\ TurnOf("script") /\ "script" \in Sources /\ "script" \in enable /\ stage' \in Stages
      /\ left' \in 0 .. (IF MaxScripts > Probes THEN MaxScripts ELSE Probes)
  BY <1>1, Turns, ScriptFacts, LeftTyped DEF Stages
<1> DEFINE Cuts(body, taken) == taken # body.refs \cap Paths \/ body.cut
           Reading(body, taken) ==
             /\ \E o \in ScriptOrigin : Answers(o, body)
             /\ Collect(taken, "script", Cut(Cuts(body, taken), "script"))
             /\ Record("script", [attempt["script"] EXCEPT !.ran = TRUE,
                                    !.truncated = @ \/ Cuts(body, taken), !.found = @ + New])
<1>3. PICK body \in Bodies :
        \E taken \in Take(body.refs \cap Paths, PerSource) : Reading(body, taken)
  BY DEF ScriptRead
<1>4. PICK taken \in Take(body.refs \cap Paths, PerSource) : Reading(body, taken)
  BY <1>3
<1>5. PICK o \in ScriptOrigin : Answers(o, body)
  BY <1>4
<1>6. taken \in SUBSET Refs
  <2>1. body.refs \cap Paths \subseteq Refs
    BY DEF Bodies
  <2> QED
    BY <2>1, TakeFacts, Limits
<1> DEFINE old == attempt["script"]
           cut == Cuts(body, taken)
           cuts == old.truncated \/ cut
           because == Cut(cut, "script")
           a == [old EXCEPT !.ran = TRUE, !.truncated = cuts, !.found = old.found + New]
<1>7. attempt' = [attempt EXCEPT !["script"] = a] /\ Collect(taken, "script", because)
  BY <1>4 DEF Record
<1>8. /\ because \in SUBSET (Reasons \ {"budget", "candidates"})
      /\ because \cap {"scripts", "script"} # {} => cut
      /\ "robots" \notin because
  BY DEF Cut, Reasons
<1>9. New \in Nat
  BY <1>2, <1>6, <1>7, CollectEffect DEF PassInv
<1>10. a \in Attempts /\ a.ran /\ a.truncated = cuts
  <2>1. old \in Attempts
    BY <1>2, AttemptTyped
  <2>2. cuts \in BOOLEAN /\ old.found + New \in Nat
    BY <1>9, <2>1 DEF Attempts
  <2> HIDE DEF cuts, old, New
  <2> QED
    BY <2>1, <2>2 DEF Attempts
<1>11. (cut => a.truncated) /\ (old.truncated => a.truncated)
  BY <1>10
<1> HIDE DEF a, because, cut, cuts
<1> QED
  BY <1>1, <1>2, <1>5, <1>6, <1>7, <1>8, <1>10, <1>11, ReadKeeps

LEMMA ScriptsDoneKeeps == PassInv /\ ScriptsDone => PassInv'
<1> SUFFICES ASSUME PassInv, ScriptsDone PROVE PassInv'
  OBVIOUS
<1> DEFINE old == attempt["script"]
           problem == old.problem \/ old.truncated
           a == [old EXCEPT !.problem = problem]
<1>1. /\ stage = "fetching" /\ stage' = "wellknown" /\ left = 0
      /\ attempt' = [attempt EXCEPT !["script"] = a]
      /\ UNCHANGED <<enable, budget, current, root, left, items, truncated, missed, merged>>
  BY DEF ScriptsDone, Record, After
<1>2. TurnOf("script") /\ "script" \in Sources
  BY <1>1, Turns DEF Sources
<1>3. /\ a \in Attempts /\ a.ran = old.ran /\ a.truncated = old.truncated
      /\ old.problem => a.problem
  <2>1. old \in Attempts
    BY <1>2, AttemptTyped
  <2>2. problem \in BOOLEAN /\ (old.problem => problem)
    BY <2>1 DEF Attempts
  <2> HIDE DEF old, problem
  <2> QED
    BY <2>1, <2>2 DEF Attempts
<1> HIDE DEF a
<1>4. BudgetKept' /\ CollectorKept' /\ exhausted' = exhausted /\ answered' = answered
  BY <1>1 DEF PassInv, BudgetKept, CollectorKept, budget
<1>5. ProgressTyped'
  BY <1>1, <1>2, <1>3, AttemptTyped DEF PassInv, ProgressTyped, Stages
<1>6. Explained("script", a)
  <2>1. old.ran \/ old.problem
    BY <1>1 DEF PassInv, TurnsExplained
  <2> QED
    BY <1>1, <1>3, <1>4, <2>1 DEF PassInv, SilenceIsEmpty, Explained, Sources
<1>7. Marked("script", a)
  BY <1>1, <1>2, <1>3, <1>4 DEF PassInv, CutsMarked, Marked, Beyond
<1> QED
  BY <1>1, <1>2, <1>3, <1>4, <1>5, <1>6, <1>7, TurnKeeps

-----------------------------------------------------------------------------
(* The well-known documents.                                               *)

LEMMA WellKnownStartKeeps == PassInv /\ WellKnownStart => PassInv'
<1> SUFFICES ASSUME PassInv, WellKnownStart PROVE PassInv'
  OBVIOUS
<1>1. /\ stage = "wellknown" /\ stage' = "probing" /\ left' = Probes
      /\ UNCHANGED <<enable, budget, current, root, items, truncated, attempt, missed, merged>>
  BY DEF WellKnownStart, collected
<1>2. left' \in 0 .. (IF MaxScripts > Probes THEN MaxScripts ELSE Probes)
  BY <1>1, Limits
<1>3. CollectorKept' /\ ProgressTyped'
  BY <1>1, <1>2 DEF PassInv, CollectorKept, ProgressTyped, Stages
<1>4. TurnOf("wellknown") /\ "wellknown" \in Sources /\ stage' \notin Beyond("wellknown")
  BY <1>1, Turns DEF Sources, Beyond
<1>5. "candidates" \in missed' => truncated'
  BY <1>1 DEF PassInv, CutsMarked
<1> QED
  BY <1>1, <1>3, <1>4, <1>5, QuietTurnKeeps

LEMMA ProbeUnreadKeeps == PassInv /\ ProbeUnread => PassInv'
<1> SUFFICES ASSUME PassInv, ProbeUnread PROVE PassInv'
  OBVIOUS
<1>1. /\ stage = "probing" /\ stage' = "probing" /\ left > 0 /\ left' = left - 1
      /\ UNCHANGED <<enable, current, root, items, truncated, merged>>
  BY DEF ProbeUnread
<1>2. /\ TurnOf("wellknown") /\ "wellknown" \in Sources /\ stage' \in Stages
      /\ left' \in 0 .. (IF MaxScripts > Probes THEN MaxScripts ELSE Probes)
  BY <1>1, Turns, LeftTyped DEF Stages, Sources
<1>3. attempt["wellknown"] \in Attempts
  BY <1>2, AttemptTyped
<1>4. CASE Fails("own") /\ Record("wellknown", [attempt["wellknown"] EXCEPT !.problem = TRUE])
  <2> DEFINE a == [attempt["wellknown"] EXCEPT !.problem = TRUE]
  <2>1. a \in Attempts /\ a.problem /\ (a.ran => attempt["wellknown"].ran)
    BY <1>3 DEF Attempts
  <2>2. GivesNothing("wellknown", a, "own") /\ attempt' = [attempt EXCEPT !["wellknown"] = a]
    BY <1>4, <2>1 DEF GivesNothing, Record
  <2> HIDE DEF a
  <2> QED
    BY <1>1, <1>2, <2>1, <2>2, UnreadKeeps
<1>5. CASE /\ \E body \in Bodies : Answers("own", body)
           /\ UNCHANGED missed
           /\ Record("wellknown", [attempt["wellknown"] EXCEPT !.ran = TRUE])
  <2> DEFINE a == [attempt["wellknown"] EXCEPT !.ran = TRUE]
  <2>1. a \in Attempts /\ a.ran
    BY <1>3 DEF Attempts
  <2>2. GivesNothing("wellknown", a, "own") /\ attempt' = [attempt EXCEPT !["wellknown"] = a]
    BY <1>5, <2>1 DEF GivesNothing, Record
  <2> HIDE DEF a
  <2> QED
    BY <1>1, <1>2, <2>1, <2>2, UnreadKeeps
<1> QED
  BY <1>4, <1>5 DEF ProbeUnread

LEMMA ProbeReadKeeps == PassInv /\ ProbeRead => PassInv'
<1> SUFFICES ASSUME PassInv, ProbeRead PROVE PassInv'
  OBVIOUS
<1>1. /\ stage = "probing" /\ stage' = "probing" /\ left > 0 /\ left' = left - 1
      /\ UNCHANGED <<enable, current, root, merged>>
  BY DEF ProbeRead
<1>2. /\ TurnOf("wellknown") /\ "wellknown" \in Sources /\ stage' \in Stages
      /\ left' \in 0 .. (IF MaxScripts > Probes THEN MaxScripts ELSE Probes)
  BY <1>1, Turns, LeftTyped DEF Stages, Sources
<1> DEFINE Because(body, refs) ==
             Cut(refs # body.refs, "wellknown")
           Reading(body, refs) ==
             /\ Answers("own", body)
             /\ Collect(refs, "wellknown", Because(body, refs))
             /\ Record("wellknown", [attempt["wellknown"] EXCEPT !.ran = TRUE, !.found = @ + New])
<1>3. PICK body \in Bodies :
        \E paths \in Take(body.refs \cap Paths, PerSource),
           urls \in Take(body.refs \cap Others, PerSource) : Reading(body, paths \cup urls)
  BY DEF ProbeRead
<1>4. PICK paths \in Take(body.refs \cap Paths, PerSource),
           urls \in Take(body.refs \cap Others, PerSource) : Reading(body, paths \cup urls)
  BY <1>3
<1> DEFINE refs == paths \cup urls
           because == Because(body, refs)
           old == attempt["wellknown"]
           a == [old EXCEPT !.ran = TRUE, !.found = old.found + New]
<1>5. refs \in SUBSET Refs
  <2>1. body.refs \cap Paths \subseteq Refs /\ body.refs \cap Others \subseteq Refs
    BY DEF Bodies
  <2>2. paths \subseteq body.refs \cap Paths
    BY <2>1, TakeFacts, Limits
  <2>3. urls \subseteq body.refs \cap Others
    BY <2>1, TakeFacts, Limits
  <2> QED
    BY <2>1, <2>2, <2>3
<1>6. /\ because \in SUBSET (Reasons \ {"budget", "candidates"})
      /\ because \cap {"scripts", "script"} = {} /\ "robots" \notin because
  BY DEF Cut, Reasons
<1>7. /\ attempt' = [attempt EXCEPT !["wellknown"] = a] /\ Collect(refs, "wellknown", because)
      /\ Answers("own", body)
  BY <1>4 DEF Record
<1>8. New \in Nat
  BY <1>2, <1>5, <1>7, CollectEffect DEF PassInv
<1>9. a \in Attempts /\ a.ran
  <2>1. old \in Attempts
    BY <1>2, AttemptTyped
  <2>2. old.found + New \in Nat
    BY <1>8, <2>1 DEF Attempts
  <2> HIDE DEF old, New
  <2> QED
    BY <2>1, <2>2 DEF Attempts
<1> HIDE DEF a, because, refs
<1> QED
  BY <1>1, <1>2, <1>5, <1>6, <1>7, <1>9, ReadKeeps

LEMMA ProbesDoneKeeps == PassInv /\ ProbesDone => PassInv'
<1> SUFFICES ASSUME PassInv, ProbesDone PROVE PassInv'
  OBVIOUS
<1> DEFINE old == attempt["wellknown"]
           problem == old.problem \/ ~ old.ran
           a == [old EXCEPT !.problem = problem]
<1>1. /\ stage = "probing" /\ stage' = "merge"
      /\ attempt' = [attempt EXCEPT !["wellknown"] = a]
      /\ UNCHANGED <<enable, budget, current, root, left, items, truncated, missed, merged>>
  BY DEF ProbesDone, Record, Reason, After
<1>2. TurnOf("wellknown") /\ "wellknown" \in Sources
  BY <1>1, Turns DEF Sources
<1>3. a \in Attempts /\ a.ran = old.ran /\ (a.ran \/ a.problem)
  <2>1. old \in Attempts
    BY <1>2, AttemptTyped
  <2>2. problem \in BOOLEAN /\ (old.ran \/ problem)
    BY <2>1 DEF Attempts
  <2> HIDE DEF old, problem
  <2> QED
    BY <2>1, <2>2 DEF Attempts
<1> HIDE DEF a
<1>4. BudgetKept' /\ CollectorKept' /\ exhausted' = exhausted /\ answered' = answered
  BY <1>1 DEF PassInv, BudgetKept, CollectorKept, budget
<1>5. ProgressTyped'
  BY <1>1, <1>2, <1>3, AttemptTyped DEF PassInv, ProgressTyped, Stages
<1>6. Explained("wellknown", a)
  BY <1>1, <1>2, <1>3, <1>4 DEF PassInv, SilenceIsEmpty, Explained
<1>7. Marked("wellknown", a)
  BY <1>1, <1>4 DEF PassInv, CutsMarked, Marked
<1> QED
  BY <1>1, <1>2, <1>3, <1>4, <1>5, <1>6, <1>7, TurnKeeps

-----------------------------------------------------------------------------
(* Merge and the theorems.                                                 *)

\* A path that an operation serves, or that fits it, matches some operation.
LEMMA KnownPathMatches ==
  ASSUME NEW o \in Operations, NEW p \in {o.served} \cup o.instances
  PROVE  Matched(p) # {}
BY DEF Matched, ByPath

LEMMA MergeKeeps == PassInv /\ Merge => PassInv'
<1> SUFFICES ASSUME PassInv, Merge PROVE PassInv'
  OBVIOUS
<1>1. /\ stage = "merge" /\ stage' = "done"
      /\ UNCHANGED <<enable, budget, current, root, left, items, truncated, attempt, missed>>
  BY DEF Merge, collected
<1>2. /\ merged'.undocumented = {p \in DOMAIN items \cap Paths : Matched(p) = {}}
      /\ merged'.offOrigin = DOMAIN items \cap Others
  BY DEF Merge
<1>3. MergeSound'
  BY <1>2, KnownPathMatches DEF MergeSound, DocumentedIsNotRediscovered
<1>4. BudgetKept' /\ CollectorKept' /\ ProgressTyped'
  BY <1>1 DEF PassInv, BudgetKept, CollectorKept, ProgressTyped, budget, Stages
<1>5. \A s \in Sources : stage' \in Beyond(s) <=> stage \in Beyond(s)
  BY <1>1 DEF Beyond, Sources, Stages
<1>6. TurnsExplained' /\ SilenceIsEmpty'
  <2>1. enable \subseteq Sources
    BY DEF PassInv, ProgressTyped
  <2> QED
    BY <1>1, <1>5, <2>1 DEF PassInv, TurnsExplained, SilenceIsEmpty, budget, Beyond
<1>7. CutsMarked'
  BY <1>1, <1>5 DEF PassInv, CutsMarked, budget, Beyond, Sources
<1> QED
  BY <1>3, <1>4, <1>6, <1>7 DEF PassInv

LEMMA StepKeeps == PassInv /\ [Next]_vars => PassInv'
<1> SUFFICES ASSUME PassInv, [Next]_vars PROVE PassInv'
  OBVIOUS
<1>1. CASE Steps
  BY <1>1, SkipKeeps, RootUnreadKeeps, RootReadKeeps, RecordRedirectKeeps, RobotsUnreadKeeps,
     RobotsReadKeeps, ScriptsNoneKeeps, ScriptsChosenKeeps, ScriptUnreadKeeps, ScriptReadKeeps,
     ScriptsDoneKeeps, WellKnownStartKeeps, ProbeUnreadKeeps, ProbeReadKeeps, ProbesDoneKeeps,
     MergeKeeps DEF Steps
<1>2. CASE UNCHANGED vars
  BY <1>2 DEF vars, budget, collected, PassInv, BudgetKept, CollectorKept, ProgressTyped,
    TurnsExplained, SilenceIsEmpty, CutsMarked, MergeSound, DocumentedIsNotRediscovered, Beyond
<1> QED
  BY <1>1, <1>2 DEF Next, Over

\* The inductive invariant holds in every state of a pass.
THEOREM PassInvHolds == Spec => []PassInv
<1> QED BY PassStarts, StepKeeps, PTL DEF Spec

\* Whatever the target answers, a pass makes no more requests, reads no more and keeps no
\* more than its limits allow, and asks no origin but the target's own.
THEOREM PassIsBounded == Spec => []StaysWithinBounds
<1>1. PassInv => TypeOK
  <2> SUFFICES ASSUME PassInv PROVE TypeOK
    OBVIOUS
  <2>1. requests \in Nat /\ bytes \in Nat
    BY Limits DEF PassInv, BudgetKept
  <2>2. exhausted \in BOOLEAN /\ answered \in BOOLEAN /\ contacted \subseteq {"own", "other"}
    BY DEF PassInv, BudgetKept
  <2>3. current \in [origin : {"own", "other"}, hop : 0 .. 1]
    BY DEF PassInv, ProgressTyped
  <2> QED
    BY <2>1, <2>2, <2>3
    DEF PassInv, CollectorKept, ProgressTyped, MergeSound, TypeOK, Stages, Attempts, Reasons,
    Unmarked
<1>2. PassInv => OnlyTheOwnOrigin /\ WithinLimits
  BY Limits DEF PassInv, BudgetKept, CollectorKept, OnlyTheOwnOrigin, WithinLimits
<1> QED BY <1>1, <1>2, PassInvHolds, PTL DEF StaysWithinBounds

\* A pass that a budget, the candidate limit, the limit of robots.txt, the limit on scripts
\* to fetch or a limit within one cut short says so; a source that was not consulted says
\* why; nothing that is documented is listed as undocumented. Not claimed: the cuts that
\* leave no mark, which TruncationIsReported names, the one of a page's script references
\* among them.
THEOREM PassTellsTheTruth == Spec => []PassIsReported
<1>1. PassInv => TruncationIsReported
  BY DEF PassInv, CutsMarked, TruncationIsReported, Incomplete
<1>2. PassInv => SourceSaysWhy
  <2> SUFFICES ASSUME PassInv, stage = "done"
               PROVE  /\ \A s \in enable : ~ attempt[s].ran => attempt[s].problem
                      /\ ~ answered => \A s \in enable : ~ attempt[s].ran
    BY DEF SourceSaysWhy
  <2>1. \A s \in enable : s \in Sources /\ stage \in Beyond(s)
    BY DEF PassInv, ProgressTyped, Beyond, Sources, Stages
  <2> QED
    BY <2>1 DEF PassInv, TurnsExplained, SilenceIsEmpty
<1>3. PassInv => DocumentedIsNotRediscovered
  BY DEF PassInv, MergeSound
<1> QED BY <1>1, <1>2, <1>3, PassInvHolds, PTL DEF PassIsReported

HIDE DiscoveryAssumption

-----------------------------------------------------------------------------
(*                                 Adapters                                *)
-----------------------------------------------------------------------------
\* Who has handed in a document, and how a fact of it appears in the report.
HasDocument(a) == \E i \in DOMAIN documents : documents[i].adapter = a
Reported(a, f) ==
  \/ \E o \in Ops : f.name \in {Id[o], Abs[o]} /\
       \E m \in merges : m.op = o /\ m.adapter = a /\ m.fact = f
  \/ (\A o \in Ops : f.name \notin {Id[o], Abs[o]}) /\ <<f.name, a>> \in unmatched

Collecting == phase \in {"collect", "parse"}

\* Each adapter before the one in hand is accounted for, and none after.
CollectedSoFar ==
  /\ Collecting => \A k \in 1 .. Len(Adapters) :
       /\ k < at => ~ (Adapters[k] \in failures <=> HasDocument(Adapters[k]))
       /\ k >= at => /\ Adapters[k] \notin failures /\ ~ HasDocument(Adapters[k])
  /\ phase = "parse" => at <= Len(Adapters)
  /\ ~ Collecting => \A a \in A!AdapterSet : ~ (a \in failures <=> HasDocument(a))
  /\ Collecting => Len(documents) < at
  /\ Len(documents) <= Len(Adapters)
  /\ \A i, j \in DOMAIN documents : documents[i].adapter = documents[j].adapter => i = j

\* Facts that may be used: valid, written by the adapter, one to a subject.
Usable(a, facts) ==
  /\ \A f \in facts : f.valid /\ f \in A!Range(wrote[a])
  /\ \A f, g \in facts : A!Key(f) = A!Key(g) => f = g

DraftIsUsable ==
  /\ phase = "parse" =>
       /\ Usable(Adapters[at], draft.facts)
       /\ A!Range(unread) \subseteq A!Range(wrote[Adapters[at]])
       /\ dropped[Adapters[at]] + Len(unread) <= MaxFacts
       /\ draft.method = "native" => input.trust
  /\ Collecting => \A k \in 1 .. Len(Adapters) :
       k > at \/ (phase = "collect" /\ k = at) => dropped[Adapters[k]] = 0

DocumentsAreUsable ==
  \A i \in DOMAIN documents :
    /\ Usable(documents[i].adapter, documents[i].facts)
    /\ documents[i].method = "native" => input.trust

\* Of the documents merged, and of the one in hand, each fact that is not left is reported.
MergedSoFar ==
  /\ phase = "merge" =>
       /\ \A i \in DOMAIN documents : i < at =>
            \A f \in documents[i].facts : Reported(documents[i].adapter, f)
       /\ IF documents = <<>> THEN unmerged = {}
          ELSE /\ at \in DOMAIN documents /\ unmerged \subseteq documents[at].facts
               /\ \A f \in documents[at].facts \ unmerged : Reported(documents[at].adapter, f)
  /\ phase = "done" =>
       \A i \in DOMAIN documents : \A f \in documents[i].facts : Reported(documents[i].adapter, f)

\* An expectation the specification did not state has its adapters.
Says(a, o, security) ==
  \E i \in DOMAIN documents :
    /\ documents[i].adapter = a
    /\ \E f \in documents[i].facts : f.value = security /\ f.name \in {Id[o], Abs[o]}
ExpectationsSourced ==
  /\ Collecting => \A o \in Ops : ops[o].security = input.security[o]
  /\ \A o \in Ops : ops[o].security \notin {"unstated", input.security[o]} =>
       ops[o].by # {} /\ \A a \in ops[o].by : Says(a, o, ops[o].security)

AdaptersInv ==
  /\ A!TypeOK
  /\ CollectedSoFar
  /\ DraftIsUsable
  /\ DocumentsAreUsable
  /\ MergedSoFar
  /\ ExpectationsSourced

-----------------------------------------------------------------------------
\* The configured adapters are distinct, and what a fact holds.
LEMMA Registry ==
  /\ Len(Adapters) \in Nat
  /\ \A k \in 1 .. Len(Adapters) : Adapters[k] \in A!AdapterSet
  /\ \A j, k \in 1 .. Len(Adapters) : Adapters[j] = Adapters[k] => j = k
  /\ \A a \in A!AdapterSet : \E k \in 1 .. Len(Adapters) : Adapters[k] = a
<1>1. Adapters \in Seq(A!AdapterSet) /\ A!IsInjective(Adapters)
  BY AdaptersConstants DEF A!AdaptersAssumption
<1>2. Len(Adapters) \in Nat /\ DOMAIN Adapters = 1 .. Len(Adapters)
  BY <1>1
<1> QED BY <1>1, <1>2 DEF A!IsInjective, A!AdapterSet, A!Range

LEMMA FactFields ==
  ASSUME NEW f \in A!Fact
  PROVE  /\ f.name \in A!NameSet /\ f.kind \in {"authentication", "authorization"}
         /\ f.kind = "authentication" => f.value \in {"required", "public", "unknown"}
<1>1. PICK k \in A!Range(A!Kinds) :
        f \in [name : A!NameSet, kind : {k}, value : A!ValuesOf(k), valid : BOOLEAN]
  BY DEF A!Fact
<1>2. k \in {"authentication", "authorization"}
  BY DEF A!Range, A!Kinds
<1> QED BY <1>1, <1>2 DEF A!ValuesOf

LEMMA InputTyped ==
  ASSUME A!TypeOK PROVE input.security \in [Ops -> A!Securities]
BY AdaptersConstants DEF A!AdaptersAssumption, A!TypeOK

LEMMA DocumentTyped ==
  ASSUME A!TypeOK, NEW i \in DOMAIN documents
  PROVE  /\ documents[i] \in [adapter : A!AdapterSet, method : A!Methods, facts : SUBSET A!Fact]
         /\ documents[i].adapter \in A!AdapterSet /\ documents[i].facts \subseteq A!Fact
<1> DEFINE D == [adapter : A!AdapterSet, method : A!Methods, facts : SUBSET A!Fact]
<1>1. documents \in Seq(D)
  BY DEF A!TypeOK
<1> HIDE DEF D
<1>2. documents[i] \in D
  BY <1>1
<1> QED BY <1>2 DEF D

LEMMA AdaptersStart == ASSUME A!Init PROVE AdaptersInv
<1> USE DEF A!Init
<1>1. A!TypeOK
  <2>1. at \in 1 .. Len(Adapters) + 1
    BY Registry
  <2>2. wrote \in [A!AdapterSet -> Seq(A!Fact)] /\ unread \in Seq(A!Fact)
    OBVIOUS
  <2>3. draft \in [method : A!Methods, facts : SUBSET A!Fact]
    BY DEF A!NoDraft, A!Methods
  <2>4. documents \in Seq([adapter : A!AdapterSet, method : A!Methods, facts : SUBSET A!Fact])
    OBVIOUS
  <2>5. dropped \in [A!AdapterSet -> 0 .. MaxFacts]
    BY AdaptersConstants DEF A!AdaptersAssumption
  <2>6. ops \in [Ops -> A!Expectation]
    BY AdaptersConstants DEF A!AdaptersAssumption, A!Expectation
  <2>7. DOMAIN discovered = {} /\ A!Range(discovered) = {}
    BY DEF A!Range
  <2>8. cancelled \in BOOLEAN
    BY Zenon
  <2> QED BY <2>1, <2>2, <2>3, <2>4, <2>5, <2>6, <2>7, <2>8 DEF A!TypeOK
<1>2. Collecting /\ phase = "collect" /\ at = 1 /\ Len(documents) = 0 /\ DOMAIN documents = {}
      /\ failures = {}
  BY DEF Collecting
<1>3. CollectedSoFar
  BY <1>2, Registry DEF CollectedSoFar, HasDocument
<1>4. DraftIsUsable
  BY <1>2, Registry DEF DraftIsUsable
<1>5. DocumentsAreUsable /\ MergedSoFar
  BY <1>2 DEF DocumentsAreUsable, MergedSoFar
<1>6. ExpectationsSourced
  BY <1>2 DEF ExpectationsSourced
<1> QED BY <1>1, <1>3, <1>4, <1>5, <1>6 DEF AdaptersInv

-----------------------------------------------------------------------------
(* Collect and Parse.                                                      *)

\* The work of the merge has not begun.
LEMMA NothingMerged ==
  ASSUME AdaptersInv, Collecting, Collecting', UNCHANGED <<input, ops>>
  PROVE  MergedSoFar' /\ ExpectationsSourced'
<1>1. MergedSoFar'
  BY DEF MergedSoFar, Collecting
<1>2. ExpectationsSourced'
  BY DEF ExpectationsSourced, AdaptersInv
<1> QED BY <1>1, <1>2

\* An output is the adapter's own; it changes nothing that another one wrote.
LEMMA OthersStay ==
  ASSUME AdaptersInv, phase = "collect", at <= Len(Adapters),
         NEW s \in Seq(A!Fact),
         wrote' = wrote \/ wrote' = [wrote EXCEPT ![Adapters[at]] = s],
         UNCHANGED <<input, documents>>
  PROVE  /\ at \in 1 .. Len(Adapters) /\ Adapters[at] \in A!AdapterSet
         /\ wrote' \in [A!AdapterSet -> Seq(A!Fact)]
         /\ DocumentsAreUsable'
         /\ Adapters[at] \notin failures /\ ~ HasDocument(Adapters[at])
<1> USE DEF AdaptersInv
<1>1. at \in 1 .. Len(Adapters) /\ Adapters[at] \in A!AdapterSet
  BY Registry DEF A!TypeOK
<1>2. wrote' \in [A!AdapterSet -> Seq(A!Fact)]
  BY <1>1 DEF A!TypeOK
<1>3. Adapters[at] \notin failures /\ ~ HasDocument(Adapters[at])
  BY <1>1 DEF CollectedSoFar, Collecting
<1>4. ASSUME NEW i \in DOMAIN documents
      PROVE  wrote'[documents[i].adapter] = wrote[documents[i].adapter]
  <2>1. documents[i].adapter # Adapters[at]
    BY <1>3 DEF HasDocument
  <2>2. documents[i].adapter \in A!AdapterSet
    BY DocumentTyped
  <2> QED BY <2>1, <2>2 DEF A!TypeOK
<1>5. DocumentsAreUsable'
  BY <1>4 DEF DocumentsAreUsable, Usable
<1> QED BY <1>1, <1>2, <1>3, <1>5

\* An adapter that gives nothing usable is a failure.
LEMMA FailureKeeps ==
  ASSUME AdaptersInv, phase = "collect", at <= Len(Adapters),
         NEW s \in Seq(A!Fact),
         wrote' = wrote \/ wrote' = [wrote EXCEPT ![Adapters[at]] = s],
         failures' = failures \cup {Adapters[at]}, at' = at + 1,
         UNCHANGED <<input, phase, cancelled, unread, draft, documents, dropped, unmerged, ops,
                     merges, unmatched, discovered>>
  PROVE  AdaptersInv'
<1> USE DEF AdaptersInv
<1>1. /\ at \in 1 .. Len(Adapters) /\ Adapters[at] \in A!AdapterSet
      /\ wrote' \in [A!AdapterSet -> Seq(A!Fact)]
      /\ DocumentsAreUsable'
      /\ Adapters[at] \notin failures /\ ~ HasDocument(Adapters[at])
  BY OthersStay
<1>2. Collecting /\ Collecting' /\ Len(Adapters) \in Nat
  BY Registry DEF Collecting
<1>3. A!TypeOK'
  BY <1>1, <1>2 DEF A!TypeOK
<1>4. CollectedSoFar'
  <2>1. \A a : HasDocument(a)' <=> HasDocument(a)
    BY DEF HasDocument
  <2>2. ASSUME NEW k \in 1 .. Len(Adapters)
        PROVE  /\ k < at + 1 => ~ (Adapters[k] \in failures' <=> HasDocument(Adapters[k]))
               /\ k >= at + 1 => /\ Adapters[k] \notin failures'
                                 /\ ~ HasDocument(Adapters[k])
    BY <1>1, <1>2, Registry DEF CollectedSoFar
  <2>3. Len(documents) < at + 1 /\ Len(documents) <= Len(Adapters)
    BY <1>1, <1>2 DEF CollectedSoFar, A!TypeOK
  <2> QED BY <1>2, <2>1, <2>2, <2>3 DEF CollectedSoFar, Collecting
<1>5. DraftIsUsable'
  BY <1>1, <1>2 DEF DraftIsUsable, Collecting
<1> QED BY <1>1, <1>2, <1>3, <1>4, <1>5, NothingMerged

LEMMA FailKeeps == ASSUME AdaptersInv, A!Fail PROVE AdaptersInv'
<1>1. <<>> \in Seq(A!Fact)
  OBVIOUS
<1> QED BY <1>1, FailureKeeps DEF A!Fail, A!More, A!result

\* A document that is accepted is read from its first fact.
LEMMA CollectKeeps ==
  ASSUME AdaptersInv, NEW d \in Documents, A!Collect(d) PROVE AdaptersInv'
<1> USE DEF AdaptersInv
<1>1. d.facts \in Seq(A!Fact) /\ d.method \in A!Methods /\ MaxFacts \in Nat
  BY AdaptersConstants DEF A!AdaptersAssumption
<1>2. CASE ~ A!Acceptable(d)
  BY <1>1, <1>2, FailureKeeps DEF A!Collect, A!More, A!result
<1>3. CASE A!Acceptable(d)
  <2>1. /\ phase = "collect" /\ at <= Len(Adapters) /\ phase' = "parse" /\ unread' = d.facts
        /\ wrote' = [wrote EXCEPT ![Adapters[at]] = d.facts]
        /\ draft' = [method |-> d.method, facts |-> {}]
        /\ UNCHANGED <<input, at, cancelled, documents, dropped, failures, unmerged, ops, merges,
                       unmatched, discovered>>
    BY <1>3 DEF A!Collect, A!More, A!result, A!NoDraft
  <2>2. /\ at \in 1 .. Len(Adapters) /\ Adapters[at] \in A!AdapterSet
        /\ wrote' \in [A!AdapterSet -> Seq(A!Fact)]
        /\ DocumentsAreUsable'
        /\ Adapters[at] \notin failures /\ ~ HasDocument(Adapters[at])
    BY <1>1, <2>1, OthersStay
  <2>3. Collecting /\ Collecting' /\ Len(Adapters) \in Nat
    BY <2>1, Registry DEF Collecting
  <2>4. A!TypeOK'
    BY <1>1, <2>1, <2>2 DEF A!TypeOK
  <2>5. CollectedSoFar'
    BY <2>1, <2>2, <2>3 DEF CollectedSoFar, HasDocument
  <2>6. DraftIsUsable'
    <3>1. Usable(Adapters[at], draft.facts)'
      BY <2>1 DEF Usable
    <3>2. A!Range(unread') = A!Range(wrote'[Adapters[at]])
      BY <2>1, <2>2 DEF A!TypeOK
    <3>3. dropped[Adapters[at]] = 0 /\ Len(d.facts) \in Nat /\ Len(d.facts) <= MaxFacts
      BY <1>1, <1>3, <2>1, <2>2, <2>3 DEF DraftIsUsable, A!Acceptable, A!Parses
    <3>4. d.method = "native" => input.trust
      BY <1>3 DEF A!Acceptable
    <3> QED BY <2>1, <2>2, <2>3, <3>1, <3>2, <3>3, <3>4 DEF DraftIsUsable
  <2> QED BY <2>1, <2>2, <2>3, <2>4, <2>5, <2>6, NothingMerged
<1> QED BY <1>2, <1>3

\* What Parse does with one fact.
LEMMA ReadingKeeps ==
  ASSUME AdaptersInv, A!Reading, A!Parsed,
         draft'.method = draft.method, draft' \in [method : A!Methods, facts : SUBSET A!Fact],
         Usable(Adapters[at], draft'.facts),
         dropped' = dropped \/ A!Dropped
  PROVE  AdaptersInv'
<1> USE DEF AdaptersInv
<1>1. /\ phase = "parse" /\ unread # <<>> /\ unread' = Tail(unread)
      /\ UNCHANGED <<input, phase, at, cancelled, wrote, documents, failures, unmerged, ops, merges,
                     unmatched, discovered>>
  BY DEF A!Reading, A!Parsed, A!result
<1>2. Collecting /\ Collecting' /\ Len(Adapters) \in Nat /\ at \in 1 .. Len(Adapters)
      /\ Adapters[at] \in A!AdapterSet
  BY <1>1, Registry DEF Collecting, CollectedSoFar, A!TypeOK
<1>3. unread \in Seq(A!Fact) /\ unread' \in Seq(A!Fact) /\ Len(unread') = Len(unread) - 1
      /\ Len(unread) \in Nat /\ Len(unread) > 0
  BY <1>1 DEF A!TypeOK
<1>4. A!Range(unread') \subseteq A!Range(unread)
  BY <1>1, <1>3 DEF A!Range
<1>5. /\ dropped' \in [A!AdapterSet -> 0 .. MaxFacts]
      /\ dropped'[Adapters[at]] + Len(unread') <= MaxFacts
      /\ \A a \in A!AdapterSet : a # Adapters[at] => dropped'[a] = dropped[a]
  <2>1. dropped[Adapters[at]] + Len(unread) <= MaxFacts /\ dropped[Adapters[at]] \in Nat
        /\ MaxFacts \in Nat /\ dropped \in [A!AdapterSet -> 0 .. MaxFacts]
    BY <1>1, <1>2, AdaptersConstants DEF DraftIsUsable, A!TypeOK, A!AdaptersAssumption
  <2> QED BY <1>2, <1>3, <2>1 DEF A!Dropped
<1>6. A!TypeOK'
  BY <1>1, <1>3, <1>5 DEF A!TypeOK
<1>7. CollectedSoFar'
  BY <1>1, <1>2 DEF CollectedSoFar, HasDocument, Collecting
<1>8. DraftIsUsable'
  <2>1. Usable(Adapters[at], draft.facts)'
    BY <1>1 DEF Usable
  <2>2. A!Range(unread') \subseteq A!Range(wrote[Adapters[at]])
    BY <1>1, <1>4 DEF DraftIsUsable
  <2>3. draft.method = "native" => input.trust
    BY <1>1 DEF DraftIsUsable
  <2>4. \A k \in 1 .. Len(Adapters) : k > at => dropped'[Adapters[k]] = 0
    BY <1>1, <1>2, <1>5, Registry DEF DraftIsUsable
  <2> QED BY <1>1, <1>2, <1>5, <2>1, <2>2, <2>3, <2>4 DEF DraftIsUsable
<1>9. DocumentsAreUsable'
  BY <1>1 DEF DocumentsAreUsable, Usable
<1> QED BY <1>1, <1>2, <1>6, <1>7, <1>8, <1>9, NothingMerged

\* The fact at the head is one the adapter wrote.
LEMMA HeadIsWritten ==
  ASSUME AdaptersInv, A!Reading
  PROVE  /\ Head(unread) \in A!Fact /\ Head(unread) \in A!Range(wrote[Adapters[at]])
         /\ Usable(Adapters[at], draft.facts)
         /\ draft \in [method : A!Methods, facts : SUBSET A!Fact]
<1> USE DEF AdaptersInv
<1>1. unread \in Seq(A!Fact) /\ unread # <<>> /\ phase = "parse"
  BY DEF A!TypeOK, A!Reading
<1>2. Head(unread) \in A!Fact /\ Head(unread) \in A!Range(unread)
  BY <1>1 DEF A!Range
<1> QED BY <1>1, <1>2 DEF DraftIsUsable, A!TypeOK

LEMMA ParseKeeps == ASSUME AdaptersInv, A!Drop \/ A!Withdraw \/ A!Keep PROVE AdaptersInv'
<1> DEFINE f == Head(unread)
<1>1. A!Reading /\ A!Parsed
  BY DEF A!Drop, A!Withdraw, A!Keep
<1>2. /\ f \in A!Fact /\ f \in A!Range(wrote[Adapters[at]])
      /\ Usable(Adapters[at], draft.facts)
      /\ draft \in [method : A!Methods, facts : SUBSET A!Fact]
  BY <1>1, HeadIsWritten
<1>3. CASE A!Drop
  BY <1>1, <1>2, <1>3, ReadingKeeps DEF A!Drop
<1>4. CASE A!Withdraw
  <2>1. draft' = [draft EXCEPT !.facts = @ \ A!Opposed(f)] /\ A!Dropped
    BY <1>4 DEF A!Withdraw
  <2>2. draft'.method = draft.method /\ draft'.facts \subseteq draft.facts
        /\ draft' \in [method : A!Methods, facts : SUBSET A!Fact]
    BY <1>2, <2>1
  <2>3. Usable(Adapters[at], draft'.facts)
    BY <1>2, <2>2 DEF Usable
  <2> QED BY <1>1, <2>1, <2>2, <2>3, ReadingKeeps
<1>5. CASE A!Keep
  <2>1. draft' = [draft EXCEPT !.facts = @ \cup {f}] /\ f.valid /\ A!Opposed(f) = {}
        /\ dropped' = dropped
    BY <1>5 DEF A!Keep
  <2>2. draft'.method = draft.method /\ draft'.facts = draft.facts \cup {f}
        /\ draft' \in [method : A!Methods, facts : SUBSET A!Fact]
    BY <1>2, <2>1
  <2>3. Usable(Adapters[at], draft'.facts)
    <3>1. \A g \in draft.facts : A!Key(g) = A!Key(f) => g = f
      BY <2>1 DEF A!Opposed
    <3>2. \A g \in draft'.facts : g.valid /\ g \in A!Range(wrote[Adapters[at]])
      BY <1>2, <2>1, <2>2 DEF Usable
    <3> QED BY <1>2, <2>2, <3>1, <3>2 DEF Usable
  <2> QED BY <1>1, <2>1, <2>2, <2>3, ReadingKeeps
<1> QED BY <1>3, <1>4, <1>5

\* The document is handed over.
LEMMA EndParseKeeps == ASSUME AdaptersInv, A!EndParse PROVE AdaptersInv'
<1> USE DEF AdaptersInv
<1> DEFINE d == [adapter |-> Adapters[at], method |-> draft.method, facts |-> draft.facts]
           n == Len(documents)
<1>1. /\ phase = "parse" /\ phase' = "collect" /\ at' = at + 1
      /\ documents' = Append(documents, d) /\ draft' = A!NoDraft
      /\ UNCHANGED <<input, cancelled, wrote, unread, dropped, failures, unmerged, ops, merges,
                     unmatched, discovered>>
  BY DEF A!EndParse, A!result
<1>2. Collecting /\ Collecting' /\ Len(Adapters) \in Nat /\ at \in 1 .. Len(Adapters)
      /\ Adapters[at] \in A!AdapterSet
  BY <1>1, Registry DEF Collecting, CollectedSoFar, A!TypeOK
<1> DEFINE D == [adapter : A!AdapterSet, method : A!Methods, facts : SUBSET A!Fact]
<1>3. d \in D /\ documents \in Seq(D)
  BY <1>2 DEF A!TypeOK
<1>4. d.adapter = Adapters[at] /\ d.method = draft.method /\ d.facts = draft.facts
  OBVIOUS
<1> HIDE DEF d, D
<1>5. /\ documents' \in Seq(D) /\ n \in Nat /\ Len(documents') = n + 1
      /\ DOMAIN documents = 1 .. n /\ DOMAIN documents' = 1 .. n + 1
      /\ documents'[n + 1] = d
      /\ \A i \in 1 .. n : documents'[i] = documents[i]
  BY <1>1, <1>3
<1>6. \A a : HasDocument(a)' <=> HasDocument(a) \/ a = Adapters[at]
  BY <1>4, <1>5 DEF HasDocument
<1>7. A!TypeOK'
  <2>1. draft' \in [method : A!Methods, facts : SUBSET A!Fact]
    BY <1>1 DEF A!NoDraft, A!Methods
  <2> QED BY <1>1, <1>2, <1>5, <2>1 DEF A!TypeOK, D
<1>8. CollectedSoFar'
  <2>1. Adapters[at] \notin failures /\ ~ HasDocument(Adapters[at])
    BY <1>2 DEF CollectedSoFar
  <2>2. ASSUME NEW k \in 1 .. Len(Adapters)
        PROVE  /\ k < at + 1 => ~ (Adapters[k] \in failures <=> HasDocument(Adapters[k])')
               /\ k >= at + 1 => /\ Adapters[k] \notin failures
                                 /\ ~ HasDocument(Adapters[k])'
    BY <1>2, <1>6, <2>1, Registry DEF CollectedSoFar
  <2>3. n + 1 < at + 1 /\ n + 1 <= Len(Adapters)
    BY <1>2, <1>5 DEF CollectedSoFar
  <2>4. \A i, j \in 1 .. n + 1 : documents'[i].adapter = documents'[j].adapter => i = j
    <3>1. \A i \in 1 .. n : documents[i].adapter # Adapters[at]
      BY <1>5, <2>1 DEF HasDocument
    <3>2. \A i, j \in 1 .. n : documents[i].adapter = documents[j].adapter => i = j
      BY <1>5 DEF CollectedSoFar
    <3> QED BY <1>4, <1>5, <3>1, <3>2
  <2>5. \A k \in 1 .. Len(Adapters) :
          /\ k < at + 1 => ~ (Adapters[k] \in failures <=> HasDocument(Adapters[k])')
          /\ k >= at + 1 => Adapters[k] \notin failures /\ ~ HasDocument(Adapters[k])'
    BY <2>2
  <2> QED BY <1>1, <1>2, <1>5, <2>3, <2>4, <2>5 DEF CollectedSoFar
<1>9. DraftIsUsable'
  BY <1>1, <1>2 DEF DraftIsUsable
<1>10. DocumentsAreUsable'
  <2>1. ASSUME NEW i \in 1 .. n + 1
        PROVE  /\ Usable(documents[i].adapter, documents[i].facts)'
               /\ documents'[i].method = "native" => input.trust
    <3>1. CASE i = n + 1
      <4>1. Usable(Adapters[at], draft.facts) /\ (draft.method = "native" => input.trust)
        BY <1>1 DEF DraftIsUsable
      <4>2. documents'[i].adapter = Adapters[at] /\ documents'[i].facts = draft.facts
            /\ documents'[i].method = draft.method
        BY <1>4, <1>5, <3>1
      <4> QED BY <1>1, <4>1, <4>2 DEF Usable
    <3>2. CASE i # n + 1
      <4>1. i \in DOMAIN documents /\ documents'[i] = documents[i]
        BY <1>5, <3>2
      <4> QED BY <1>1, <4>1 DEF DocumentsAreUsable, Usable
    <3> QED BY <3>1, <3>2
  <2> QED BY <1>1, <1>5, <2>1 DEF DocumentsAreUsable
<1> QED BY <1>1, <1>2, <1>7, <1>8, <1>9, <1>10, NothingMerged

\* Nothing of collecting and reading changes any more.
LEMMA CollectionStays ==
  ASSUME AdaptersInv, ~ Collecting', UNCHANGED <<input, A!collection>>,
         ~ Collecting \/ (phase = "collect" /\ at > Len(Adapters))
  PROVE  CollectedSoFar' /\ DraftIsUsable' /\ DocumentsAreUsable'
<1> USE DEF AdaptersInv
<1>1. UNCHANGED <<input, wrote, documents, failures>>
  BY DEF A!collection
<1>2. CollectedSoFar'
  <2>1. \A a \in A!AdapterSet : ~ (a \in failures <=> HasDocument(a))
    <3>1. CASE ~ Collecting
      BY <3>1 DEF CollectedSoFar
    <3>2. CASE phase = "collect" /\ at > Len(Adapters)
      <4>1. ASSUME NEW a \in A!AdapterSet
            PROVE  ~ (a \in failures <=> HasDocument(a))
        <5>1. PICK k \in 1 .. Len(Adapters) : Adapters[k] = a
          BY Registry
        <5>2. k < at /\ Collecting
          BY <3>2, Registry DEF Collecting, A!TypeOK
        <5>3. ~ (Adapters[k] \in failures <=> HasDocument(Adapters[k]))
          BY <5>2 DEF CollectedSoFar
        <5> QED BY <5>1, <5>3, Zenon
      <4> QED BY <4>1, Zenon
    <3> QED BY <3>1, <3>2
  <2>2. \A a : HasDocument(a)' <=> HasDocument(a)
    BY <1>1 DEF HasDocument
  <2>3. ~ Collecting' /\ (Collecting <=> phase \in {"collect", "parse"})
        /\ (Collecting' <=> phase' \in {"collect", "parse"})
    BY DEF Collecting
  <2> QED BY <1>1, <2>1, <2>2, <2>3 DEF CollectedSoFar
<1>3. DraftIsUsable'
  BY DEF DraftIsUsable, Collecting
<1>4. DocumentsAreUsable'
  BY <1>1 DEF DocumentsAreUsable, Usable
<1> QED BY <1>2, <1>3, <1>4

LEMMA EndCollectKeeps == ASSUME AdaptersInv, A!EndCollect PROVE AdaptersInv'
<1> USE DEF AdaptersInv
<1>1. /\ phase = "collect" /\ at > Len(Adapters) /\ phase' = "merge" /\ at' = 1
      /\ unmerged' = (IF documents = <<>> THEN {} ELSE documents[1].facts)
      /\ UNCHANGED <<input, A!collection, ops, merges, unmatched, discovered>>
      /\ UNCHANGED <<cancelled, wrote, unread, draft, documents, dropped, failures>>
  BY DEF A!EndCollect, A!collection, A!result
<1>2. Collecting /\ ~ Collecting' /\ Len(Adapters) \in Nat
  BY <1>1, Registry DEF Collecting
<1>3. documents # <<>> => 1 \in DOMAIN documents
  BY DEF A!TypeOK
<1>4. unmerged' \subseteq A!Fact
  BY <1>1, <1>3, DocumentTyped
<1>5. A!TypeOK'
  BY <1>1, <1>2, <1>4 DEF A!TypeOK
<1>6. MergedSoFar'
  <2>1. DOMAIN documents = 1 .. Len(documents) /\ Len(documents) \in Nat
    BY DEF A!TypeOK
  <2> QED BY <1>1, <1>3, <2>1 DEF MergedSoFar
<1>7. ExpectationsSourced'
  BY <1>1, <1>2 DEF ExpectationsSourced
<1> QED BY <1>1, <1>2, <1>5, <1>6, <1>7, CollectionStays

-----------------------------------------------------------------------------
(* MergeInto.                                                              *)

\* Nothing that is reported is withdrawn, so a document stays merged.
LEMMA ReportsStay ==
  ASSUME NEW a, NEW f, Reported(a, f), merges \subseteq merges', unmatched \subseteq unmatched'
  PROVE  Reported(a, f)'
BY DEF Reported

\* What Resolve finds is an operation of that name.
LEMMA ResolveMeans ==
  ASSUME NEW name
  PROVE  /\ A!Resolve(name) \subseteq {o \in Ops : name \in {Id[o], Abs[o]}}
         /\ A!Resolve(name) = {} => \A o \in Ops : name \notin {Id[o], Abs[o]}
BY DEF A!Resolve

\* Where the fact in hand is from.
LEMMA FactInHand ==
  ASSUME AdaptersInv, NEW f \in unmerged, A!Merging(f)
  PROVE  /\ phase = "merge" /\ at \in DOMAIN documents /\ f \in documents[at].facts
         /\ f \in A!Fact /\ A!adapter = documents[at].adapter /\ A!adapter \in A!AdapterSet
         /\ unmerged' = unmerged \ {f}
         /\ UNCHANGED <<input, phase, at, A!collection>>
         /\ UNCHANGED <<cancelled, wrote, unread, draft, documents, dropped, failures>>
<1> USE DEF AdaptersInv
<1>1. phase = "merge" /\ unmerged' = unmerged \ {f} /\ UNCHANGED <<input, phase, at, A!collection>>
  BY DEF A!Merging
<1>2. documents # <<>>
  BY <1>1 DEF MergedSoFar
<1>3. at \in DOMAIN documents /\ f \in documents[at].facts
  BY <1>1, <1>2 DEF MergedSoFar
<1>4. documents[at].adapter \in A!AdapterSet /\ f \in A!Fact
  BY <1>3, DocumentTyped
<1> QED BY <1>1, <1>3, <1>4 DEF A!adapter, A!collection

\* One fact less is left, and it is reported.
LEMMA FactMerged ==
  ASSUME AdaptersInv, NEW f \in unmerged, A!Merging(f),
         merges \subseteq merges', unmatched \subseteq unmatched', Reported(A!adapter, f)',
         merges' \subseteq A!Merge, unmatched' \subseteq A!NameSet \X A!AdapterSet,
         ops' \in [Ops -> A!Expectation],
         DOMAIN discovered' \subseteq A!NameSet, A!Range(discovered') \subseteq A!Expectation
  PROVE  A!TypeOK' /\ CollectedSoFar' /\ DraftIsUsable' /\ DocumentsAreUsable' /\ MergedSoFar'
<1> USE DEF AdaptersInv
<1>1. /\ phase = "merge" /\ at \in DOMAIN documents /\ f \in documents[at].facts
      /\ A!adapter = documents[at].adapter
      /\ unmerged' = unmerged \ {f}
      /\ UNCHANGED <<input, phase, at, A!collection>>
      /\ UNCHANGED <<cancelled, wrote, unread, draft, documents, dropped, failures>>
  BY FactInHand
<1>2. A!TypeOK'
  BY <1>1 DEF A!TypeOK
<1>3. CollectedSoFar' /\ DraftIsUsable' /\ DocumentsAreUsable'
  <2>1. ~ Collecting /\ ~ Collecting'
    BY <1>1 DEF Collecting
  <2> QED BY <1>1, <2>1, CollectionStays
<1>4. MergedSoFar'
  <2>1. Reported(documents[at].adapter, f)'
    <3>1. A!adapter' = documents[at].adapter
      BY <1>1 DEF A!adapter
    <3> QED BY <1>1, <3>1 DEF Reported
  <2>2. \A i \in DOMAIN documents : i < at =>
          \A g \in documents[i].facts : Reported(documents[i].adapter, g)
    BY <1>1 DEF MergedSoFar
  <2>3. documents # <<>>
    BY <1>1
  <2>4. /\ unmerged \subseteq documents[at].facts
        /\ \A g \in documents[at].facts \ unmerged : Reported(documents[at].adapter, g)
    BY <1>1, <2>3 DEF MergedSoFar
  <2>5. \A a, g : Reported(a, g) => Reported(a, g)'
    BY ReportsStay
  <2>6. \A i \in DOMAIN documents : i < at =>
          \A g \in documents[i].facts : Reported(documents[i].adapter, g)'
    BY <1>1, <2>2, <2>5 DEF Reported
  <2>7. \A g \in documents[at].facts \ unmerged' : Reported(documents[at].adapter, g)'
    BY <1>1, <2>1, <2>4, <2>5 DEF Reported
  <2> QED BY <1>1, <2>3, <2>4, <2>6, <2>7 DEF MergedSoFar
<1> QED BY <1>2, <1>3, <1>4

\* The fact is about an operation only adapters know.
LEMMA UnmatchedKeeps ==
  ASSUME AdaptersInv, NEW f \in unmerged, A!Unmatched(f) PROVE AdaptersInv'
<1> USE DEF AdaptersInv
<1> DEFINE known == IF f.name \in DOMAIN discovered THEN discovered[f.name]
                    ELSE [security |-> "unstated", by |-> {}]
           new == IF f.kind = "authentication" /\ f.value # "unknown"
                  THEN [security |-> f.value, by |-> {A!adapter}] ELSE known
<1>1. /\ A!Merging(f) /\ A!Resolve(f.name) = {}
      /\ unmatched' = unmatched \cup {<<f.name, A!adapter>>}
      /\ discovered' = [n \in DOMAIN discovered \cup {f.name} |->
                         IF n # f.name THEN discovered[n] ELSE new]
      /\ UNCHANGED <<ops, merges>>
  BY DEF A!Unmatched
<1>2. /\ f \in A!Fact /\ A!adapter \in A!AdapterSet /\ UNCHANGED <<input, phase, at, documents>>
      /\ phase = "merge"
  BY <1>1, FactInHand
<1>3. /\ f.name \in A!NameSet
      /\ f.kind = "authentication" => f.value \in {"required", "public", "unknown"}
  BY <1>2, FactFields
<1>4. new \in A!Expectation
  <2>1. known \in A!Expectation
    <3>1. \A n \in DOMAIN discovered : discovered[n] \in A!Expectation
      BY DEF A!TypeOK, A!Range
    <3> QED BY <3>1 DEF A!Expectation, A!Securities
  <2> QED BY <1>2, <1>3, <2>1 DEF A!Expectation, A!Securities
<1> HIDE DEF new
<1>5. DOMAIN discovered' \subseteq A!NameSet /\ A!Range(discovered') \subseteq A!Expectation
  BY <1>1, <1>3, <1>4 DEF A!TypeOK, A!Range
<1>6. Reported(A!adapter, f)'
  <2>1. \A o \in Ops : f.name \notin {Id[o], Abs[o]}
    BY <1>1, ResolveMeans
  <2>2. A!adapter' = A!adapter
    BY <1>2 DEF A!adapter
  <2> QED BY <1>1, <2>1, <2>2 DEF Reported
<1>7. unmatched' \subseteq A!NameSet \X A!AdapterSet /\ merges' \subseteq A!Merge
      /\ ops' \in [Ops -> A!Expectation]
  BY <1>1, <1>2, <1>3 DEF A!TypeOK
<1>8. ExpectationsSourced'
  BY <1>1, <1>2 DEF ExpectationsSourced, Collecting, Says
<1> QED BY <1>1, <1>5, <1>6, <1>7, <1>8, FactMerged

\* The fact is about a documented operation: the merge is recorded.
LEMMA RecordKeeps ==
  ASSUME AdaptersInv, NEW f \in unmerged, NEW o \in Ops, NEW agreement \in A!Agreements,
         A!Merging(f), o \in A!Resolve(f.name), A!Record(o, f, agreement),
         UNCHANGED <<unmatched, discovered>>,
         ops' \in [Ops -> A!Expectation]
  PROVE  A!TypeOK' /\ CollectedSoFar' /\ DraftIsUsable' /\ DocumentsAreUsable' /\ MergedSoFar'
<1> USE DEF AdaptersInv
<1>1. /\ f \in A!Fact /\ A!adapter \in A!AdapterSet /\ UNCHANGED <<at, documents>>
  BY FactInHand
<1> DEFINE m == [op |-> o, adapter |-> A!adapter, fact |-> f, agreement |-> agreement]
<1>2. m \in A!Merge /\ m.op = o /\ m.adapter = A!adapter /\ m.fact = f
  BY <1>1 DEF A!Merge
<1>3. merges' = merges \cup {m}
  BY DEF A!Record
<1> HIDE DEF m
<1>4. Reported(A!adapter, f)'
  <2>1. f.name \in {Id[o], Abs[o]}
    BY ResolveMeans
  <2>2. A!adapter' = A!adapter
    BY <1>1 DEF A!adapter
  <2> QED BY <1>2, <1>3, <2>1, <2>2 DEF Reported
<1>5. merges' \subseteq A!Merge /\ unmatched' \subseteq A!NameSet \X A!AdapterSet
      /\ DOMAIN discovered' \subseteq A!NameSet /\ A!Range(discovered') \subseteq A!Expectation
  BY <1>2, <1>3 DEF A!TypeOK
<1> QED BY <1>3, <1>4, <1>5, FactMerged

\* Of the expectations, only that of one operation changes; what it becomes has its adapters.
LEMMA SourcesKeep ==
  ASSUME AdaptersInv, phase = "merge", UNCHANGED <<input, phase, documents>>, NEW o \in Ops,
         NEW e \in A!Expectation, ops' = [ops EXCEPT ![o] = e],
         e.security \notin {"unstated", input.security[o]} =>
           e.by # {} /\ \A a \in e.by : Says(a, o, e.security)
  PROVE  ExpectationsSourced' /\ ops' \in [Ops -> A!Expectation]
<1> USE DEF AdaptersInv
<1>1. ops \in [Ops -> A!Expectation]
  BY DEF A!TypeOK
<1>2. ops' \in [Ops -> A!Expectation]
  BY <1>1
<1>3. \A a, p, security : Says(a, p, security)' <=> Says(a, p, security)
  BY DEF Says
<1>4. \A p \in Ops : ops'[p] = IF p = o THEN e ELSE ops[p]
  BY <1>1
<1>5. ASSUME NEW p \in Ops, ops'[p].security \notin {"unstated", input.security[p]}
      PROVE  ops'[p].by # {} /\ \A a \in ops'[p].by : Says(a, p, ops'[p].security)
  <2>1. CASE p = o
    <3>1. ops'[p] = e
      BY <1>4, <2>1
    <3> QED BY <1>5, <2>1, <3>1
  <2>2. CASE p # o
    <3>1. ops'[p] = ops[p]
      BY <1>4, <2>2
    <3> QED BY <1>5, <3>1 DEF ExpectationsSourced
  <2> QED BY <2>1, <2>2
<1>6. ~ Collecting /\ ~ Collecting'
  BY DEF Collecting
<1>7. (\A p \in Ops : ops[p].security \notin {"unstated", input.security[p]} =>
         ops[p].by # {} /\ \A a \in ops[p].by : Says(a, p, ops[p].security))'
  BY <1>3, <1>5
<1> QED BY <1>2, <1>6, <1>7 DEF ExpectationsSourced

\* The fact in hand is said by the adapter in hand.
LEMMA AdapterSays ==
  ASSUME AdaptersInv, NEW f \in unmerged, A!Merging(f), NEW o \in Ops, o \in A!Resolve(f.name)
  PROVE  Says(A!adapter, o, f.value)
<1>1. at \in DOMAIN documents /\ f \in documents[at].facts /\ A!adapter = documents[at].adapter
  BY FactInHand
<1>2. f.name \in {Id[o], Abs[o]}
  BY ResolveMeans
<1> QED BY <1>1, <1>2 DEF Says

LEMMA KnownKeeps ==
  ASSUME AdaptersInv, NEW f \in unmerged, NEW o \in Ops,
         \/ A!Undetermined(o, f) \/ A!NewExpectation(o, f) \/ A!Corroborate(o, f)
         \/ A!Conflict(o, f) \/ A!Inexpressible(o, f)
  PROVE  AdaptersInv'
<1> USE DEF AdaptersInv
<1>1. A!Merging(f) /\ o \in A!Resolve(f.name) /\ UNCHANGED <<unmatched, discovered>>
  BY DEF A!Undetermined, A!NewExpectation, A!Corroborate, A!Conflict, A!Inexpressible,
     A!Authentication
<1>2. PICK agreement \in A!Agreements : A!Record(o, f, agreement)
  BY DEF A!Undetermined, A!NewExpectation, A!Corroborate, A!Conflict, A!Inexpressible, A!Agreements
<1>3. /\ f \in A!Fact /\ A!adapter \in A!AdapterSet /\ phase = "merge"
      /\ UNCHANGED <<input, phase, documents>>
  BY <1>1, FactInHand
<1>4. Says(A!adapter, o, f.value)
  BY <1>1, AdapterSays
<1>5. ops \in [Ops -> A!Expectation] /\ ops[o] \in A!Expectation
  BY DEF A!TypeOK
<1>6. ExpectationsSourced' /\ ops' \in [Ops -> A!Expectation]
  <2>1. CASE A!NewExpectation(o, f)
    <3> DEFINE e == [security |-> f.value, by |-> {A!adapter}]
    <3>1. f.value \in {"required", "public"}
      BY <1>3, <2>1, FactFields DEF A!NewExpectation, A!Authentication
    <3>2. e \in A!Expectation /\ e.security = f.value /\ e.by = {A!adapter}
      BY <1>3, <3>1 DEF A!Expectation, A!Securities
    <3>3. ops' = [ops EXCEPT ![o] = e]
      BY <2>1 DEF A!NewExpectation
    <3> HIDE DEF e
    <3> QED BY <1>3, <1>4, <3>2, <3>3, SourcesKeep
  <2>2. CASE A!Corroborate(o, f)
    <3> DEFINE e == [ops[o] EXCEPT !.by = @ \cup {A!adapter}]
    <3>1. f.value = ops[o].security
      BY <2>2 DEF A!Corroborate, A!Authentication, A!Existing
    <3>2. e \in A!Expectation /\ e.security = ops[o].security /\ e.by = ops[o].by \cup {A!adapter}
      BY <1>3, <1>5 DEF A!Expectation
    <3>3. ops' = [ops EXCEPT ![o] = e]
      BY <2>2 DEF A!Corroborate
    <3> HIDE DEF e
    <3>4. e.security \notin {"unstated", input.security[o]} =>
            e.by # {} /\ \A a \in e.by : Says(a, o, e.security)
      BY <1>4, <3>1, <3>2 DEF ExpectationsSourced
    <3> QED BY <1>3, <3>2, <3>3, <3>4, SourcesKeep
  <2>3. CASE A!Conflict(o, f)
    <3> DEFINE e == [security |-> "unstated", by |-> {}]
    <3>1. e \in A!Expectation /\ e.security = "unstated"
      BY DEF A!Expectation, A!Securities
    <3>2. ops' = [ops EXCEPT ![o] = e]
      BY <2>3 DEF A!Conflict, A!Conflicted
    <3> HIDE DEF e
    <3> QED BY <1>3, <3>1, <3>2, SourcesKeep
  <2>4. CASE A!Undetermined(o, f) \/ A!Inexpressible(o, f)
    <3>1. ops' = ops
      BY <2>4 DEF A!Undetermined, A!Inexpressible
    <3>2. ExpectationsSourced'
      BY <1>3, <3>1 DEF ExpectationsSourced, Collecting, Says
    <3> QED BY <1>5, <3>1, <3>2
  <2> QED BY <2>1, <2>2, <2>3, <2>4
<1> QED BY <1>1, <1>2, <1>6, RecordKeeps

\* The next document, and the end.
LEMMA DocumentsKeep == ASSUME AdaptersInv, A!NextDocument \/ A!EndMerge PROVE AdaptersInv'
<1> USE DEF AdaptersInv
<1>1. /\ phase = "merge" /\ unmerged = {} /\ phase' \in {"merge", "done"}
      /\ UNCHANGED <<input, A!collection, ops, merges, unmatched, discovered>>
      /\ UNCHANGED <<cancelled, wrote, unread, draft, documents, dropped, failures>>
  BY DEF A!NextDocument, A!EndMerge, A!collection, A!result
<1>2. CollectedSoFar' /\ DraftIsUsable' /\ DocumentsAreUsable'
  <2>1. ~ Collecting /\ ~ Collecting'
    BY <1>1 DEF Collecting
  <2> QED BY <1>1, <2>1, CollectionStays
<1>3. ExpectationsSourced'
  BY <1>1 DEF ExpectationsSourced, Collecting, Says
<1>4. DOMAIN documents = 1 .. Len(documents) /\ Len(documents) \in Nat /\ at \in Nat /\ at >= 1
      /\ Len(documents) <= Len(Adapters) /\ Len(Adapters) \in Nat
  BY Registry DEF A!TypeOK, CollectedSoFar
<1>5. \A i \in DOMAIN documents : i <= at =>
        \A f \in documents[i].facts : Reported(documents[i].adapter, f)
  <2>1. ASSUME NEW i \in DOMAIN documents, i <= at
        PROVE  \A f \in documents[i].facts : Reported(documents[i].adapter, f)
    <3>1. documents # <<>>
      OBVIOUS
    <3>2. CASE i < at
      BY <1>1, <3>2 DEF MergedSoFar
    <3>3. CASE i = at
      BY <1>1, <3>1, <3>3 DEF MergedSoFar
    <3> QED BY <1>4, <2>1, <3>2, <3>3
  <2> QED BY <2>1
<1>7. CASE A!NextDocument
  <2>1. phase' = "merge" /\ at < Len(documents) /\ at' = at + 1
        /\ unmerged' = documents[at + 1].facts
    BY <1>7 DEF A!NextDocument
  <2>2. at + 1 \in DOMAIN documents /\ documents # <<>>
    BY <1>4, <2>1
  <2>3. A!TypeOK'
    <3>1. unmerged' \subseteq A!Fact
      BY <2>1, <2>2, DocumentTyped
    <3>2. at' \in 1 .. Len(Adapters) + 1
      BY <1>4, <2>1
    <3> QED BY <1>1, <2>1, <3>1, <3>2 DEF A!TypeOK
  <2>4. MergedSoFar'
    <3>1. \A i \in DOMAIN documents : i < at + 1 =>
            \A f \in documents[i].facts : Reported(documents[i].adapter, f)'
      BY <1>1, <1>4, <1>5 DEF Reported
    <3> QED BY <1>1, <2>1, <2>2, <3>1 DEF MergedSoFar, Reported
  <2> QED BY <1>2, <1>3, <2>3, <2>4
<1>8. CASE A!EndMerge
  <2>1. phase' = "done" /\ at >= Len(documents) /\ at' = at /\ unmerged' = unmerged
    BY <1>8 DEF A!EndMerge
  <2>2. A!TypeOK'
    BY <1>1, <2>1 DEF A!TypeOK
  <2>3. MergedSoFar'
    <3>1. \A i \in DOMAIN documents :
            \A f \in documents[i].facts : Reported(documents[i].adapter, f)'
      BY <1>1, <1>4, <1>5, <2>1 DEF Reported
    <3> QED BY <1>1, <2>1, <3>1 DEF MergedSoFar, Reported
  <2> QED BY <1>2, <1>3, <2>2, <2>3
<1> QED BY <1>7, <1>8

-----------------------------------------------------------------------------
\* Cancelling, or nothing at all.
LEMMA CancelKeeps ==
  ASSUME AdaptersInv, cancelled' \in BOOLEAN,
         UNCHANGED <<input, phase, at, wrote, unread, draft, documents, dropped, failures,
                     unmerged, ops, merges, unmatched, discovered>>
  PROVE  AdaptersInv'
<1> USE DEF AdaptersInv
<1>1. A!TypeOK'
  BY DEF A!TypeOK
<1>2. CollectedSoFar'
  BY DEF CollectedSoFar, HasDocument, Collecting
<1>3. DraftIsUsable' /\ DocumentsAreUsable'
  BY DEF DraftIsUsable, DocumentsAreUsable, Usable, Collecting
<1>4. MergedSoFar'
  BY DEF MergedSoFar, Reported
<1>5. ExpectationsSourced'
  BY DEF ExpectationsSourced, Says, Collecting
<1> QED BY <1>1, <1>2, <1>3, <1>4, <1>5

LEMMA AdaptersStep == ASSUME AdaptersInv, [A!Next]_A!vars PROVE AdaptersInv'
<1>1. CASE A!Cancel
  <2>1. cancelled' = TRUE
    BY <1>1 DEF A!Cancel
  <2> QED BY <1>1, <2>1, CancelKeeps DEF A!Cancel, A!result
<1>2. CASE A!Fail
  BY <1>2, FailKeeps
<1>3. CASE A!EndCollect
  BY <1>3, EndCollectKeeps
<1>4. CASE \E d \in Documents : A!Collect(d)
  BY <1>4, CollectKeeps
<1>5. CASE A!Drop \/ A!Withdraw \/ A!Keep
  BY <1>5, ParseKeeps
<1>6. CASE A!EndParse
  BY <1>6, EndParseKeeps
<1>7. CASE \E f \in unmerged : A!Unmatched(f)
  BY <1>7, UnmatchedKeeps
<1>8. CASE \E f \in unmerged : \E o \in Ops :
             \/ A!Undetermined(o, f) \/ A!NewExpectation(o, f) \/ A!Corroborate(o, f)
             \/ A!Conflict(o, f) \/ A!Inexpressible(o, f)
  BY <1>8, KnownKeeps
<1>9. CASE A!NextDocument \/ A!EndMerge
  BY <1>9, DocumentsKeep
<1>10. CASE UNCHANGED A!vars
  <2>1. cancelled' \in BOOLEAN
    BY <1>10 DEF A!vars, AdaptersInv, A!TypeOK
  <2> QED BY <1>10, <2>1, CancelKeeps DEF A!vars
<1> QED BY <1>1, <1>2, <1>3, <1>4, <1>5, <1>6, <1>7, <1>8, <1>9, <1>10 DEF A!Next

LEMMA AdaptersInvHolds == A!Spec => []AdaptersInv
BY AdaptersStart, AdaptersStep, PTL DEF A!Spec

-----------------------------------------------------------------------------
(* The properties.                                                         *)

\* What is used is a fact of one document.
LEMMA UsedMeans ==
  \A u : u \in A!Used <=>
    \E i \in DOMAIN documents : \E f \in documents[i].facts : u = <<documents[i].adapter, f>>
<1>1. A!Range(documents) = {documents[i] : i \in DOMAIN documents}
  BY DEF A!Range
<1> QED BY <1>1 DEF A!Used

LEMMA AdaptersInvFollows == ASSUME AdaptersInv PROVE FactsAccounted
<1> USE DEF AdaptersInv
<1>1. A!EveryAdapterAccounted
  <2> SUFFICES ASSUME phase \in {"merge", "done"}, NEW a \in A!AdapterSet
               PROVE  (a \in failures) # (\E i \in DOMAIN documents : documents[i].adapter = a)
    BY DEF A!EveryAdapterAccounted
  <2>1. ~ (a \in failures <=> HasDocument(a))
    BY DEF CollectedSoFar, Collecting
  <2> QED BY <2>1, Zenon DEF HasDocument
<1>2. A!OneAnswerPerSubject
  <2> SUFFICES ASSUME NEW u \in A!Used, NEW v \in A!Used
               PROVE  /\ u[2].valid /\ u[2] \in A!Range(wrote[u[1]])
                      /\ u[1] = v[1] /\ A!Key(u[2]) = A!Key(v[2]) => u = v
    BY DEF A!OneAnswerPerSubject
  <2>1. PICK i \in DOMAIN documents : \E f \in documents[i].facts : u = <<documents[i].adapter, f>>
    BY UsedMeans
  <2>2. PICK f \in documents[i].facts : u = <<documents[i].adapter, f>>
    BY <2>1
  <2>3. PICK j \in DOMAIN documents : \E g \in documents[j].facts : v = <<documents[j].adapter, g>>
    BY UsedMeans
  <2>4. PICK g \in documents[j].facts : v = <<documents[j].adapter, g>>
    BY <2>3
  <2>5. u[1] = documents[i].adapter /\ u[2] = f /\ v[1] = documents[j].adapter /\ v[2] = g
    BY <2>2, <2>4
  <2>6. Usable(documents[i].adapter, documents[i].facts)
    BY DEF DocumentsAreUsable
  <2>7. f.valid /\ f \in A!Range(wrote[documents[i].adapter])
    BY <2>6 DEF Usable
  <2>8. ASSUME u[1] = v[1], A!Key(u[2]) = A!Key(v[2]) PROVE u = v
    <3>1. i = j
      BY <2>5, <2>8 DEF CollectedSoFar
    <3>2. f = g
      BY <2>5, <2>6, <2>8, <3>1 DEF Usable
    <3> QED BY <2>2, <2>4, <3>1, <3>2
  <2>9. u[2].valid
    BY <2>5, <2>7, Zenon
  <2> QED BY <2>5, <2>7, <2>8, <2>9
<1>3. A!EveryFactReported
  <2> SUFFICES ASSUME phase = "done", NEW u \in A!Used
               PROVE  \/ \E o \in Ops : u[2].name \in {Id[o], Abs[o]} /\
                           \E m \in merges : m.op = o /\ m.adapter = u[1] /\ m.fact = u[2]
                      \/ (\A o \in Ops : u[2].name \notin {Id[o], Abs[o]})
                           /\ <<u[2].name, u[1]>> \in unmatched
    BY DEF A!EveryFactReported, A!Merged
  <2>1. PICK i \in DOMAIN documents : \E f \in documents[i].facts : u = <<documents[i].adapter, f>>
    BY UsedMeans
  <2>2. PICK f \in documents[i].facts : u = <<documents[i].adapter, f>>
    BY <2>1
  <2>3. Reported(u[1], u[2])
    BY <2>2 DEF MergedSoFar
  <2> QED BY <2>3 DEF Reported
<1>4. A!ExpectationHasItsSource
  <2> SUFFICES ASSUME NEW o \in Ops, ops[o].security \notin {"unstated", input.security[o]}
               PROVE  /\ ops[o].by # {}
                      /\ \A a \in ops[o].by : \E u \in A!Used :
                           /\ u[1] = a /\ u[2].value = ops[o].security
                           /\ u[2].name \in {Id[o], Abs[o]}
                           /\ \E i \in DOMAIN documents :
                                documents[i].adapter = a
                                  /\ (documents[i].method = "native" => input.trust)
    BY DEF A!ExpectationHasItsSource
  <2>1. ops[o].by # {} /\ \A a \in ops[o].by : Says(a, o, ops[o].security)
    BY DEF ExpectationsSourced
  <2>2. ASSUME NEW a \in ops[o].by
        PROVE  \E u \in A!Used :
                 /\ u[1] = a /\ u[2].value = ops[o].security /\ u[2].name \in {Id[o], Abs[o]}
                 /\ \E i \in DOMAIN documents :
                      documents[i].adapter = a /\ (documents[i].method = "native" => input.trust)
    <3>1. PICK i \in DOMAIN documents :
            /\ documents[i].adapter = a
            /\ \E f \in documents[i].facts :
                 f.value = ops[o].security /\ f.name \in {Id[o], Abs[o]}
      BY <2>1 DEF Says
    <3>2. PICK f \in documents[i].facts : f.value = ops[o].security /\ f.name \in {Id[o], Abs[o]}
      BY <3>1
    <3>3. <<a, f>> \in A!Used
      BY <3>1, UsedMeans
    <3>4. documents[i].method = "native" => input.trust
      BY DEF DocumentsAreUsable
    <3> QED BY <3>1, <3>2, <3>3, <3>4
  <2> QED BY <2>1, <2>2
<1> QED BY <1>1, <1>2, <1>3, <1>4 DEF FactsAccounted, A!FactsAccounted

\* Whatever the adapters print and whatever the specification says: each adapter is used or
\* named as a failure, each fact that is used is the adapter's only word on its subject and is
\* reported, and each expectation the specification did not state has the adapters it is from.
THEOREM FactsAreAccounted == A!Spec => []FactsAccounted
BY AdaptersInvHolds, AdaptersInvFollows, PTL

\* No fact turns what is expected of an operation into its opposite; what is lost is lost to a
\* conflict that is on record.
THEOREM NothingIsOverwritten == A!Spec => NeverOverwritten
<1> DEFINE Kept ==
      \A o \in Ops : A!Existing(o) # "unknown" /\ ops'[o].security # ops[o].security =>
        /\ ops'[o].security = "unstated"
        /\ \E m \in merges' : m.op = o /\ m.agreement = "conflict"
<1>1. ASSUME AdaptersInv, [A!Next]_A!vars PROVE [Kept]_A!vars
  <2>1. ops \in [Ops -> A!Expectation]
    BY <1>1 DEF AdaptersInv, A!TypeOK
  <2>2. CASE ops' = ops
    BY <2>2
  <2>3. CASE \E f \in unmerged : \E p \in Ops : A!NewExpectation(p, f)
    <3>1. PICK f \in unmerged, p \in Ops : A!NewExpectation(p, f)
      BY <2>3
    <3>2. A!Existing(p) = "unknown" /\ \A o \in Ops : o # p => ops'[o] = ops[o]
      BY <2>1, <3>1 DEF A!NewExpectation
    <3> QED BY <3>2
  <2>4. CASE \E f \in unmerged : \E p \in Ops : A!Corroborate(p, f)
    <3>1. PICK f \in unmerged, p \in Ops : A!Corroborate(p, f)
      BY <2>4
    <3>2. \A o \in Ops : ops'[o].security = ops[o].security
      BY <2>1, <3>1 DEF A!Corroborate, A!Expectation
    <3> QED BY <3>2
  <2>5. CASE \E f \in unmerged : \E p \in Ops : A!Conflict(p, f)
    <3>1. PICK f \in unmerged, p \in Ops : A!Conflict(p, f)
      BY <2>5
    <3>2. ops'[p].security = "unstated" /\ \A o \in Ops : o # p => ops'[o] = ops[o]
      BY <2>1, <3>1 DEF A!Conflict, A!Conflicted
    <3>3. \E m \in merges' : m.op = p /\ m.agreement = "conflict"
      <4> DEFINE m == [op |-> p, adapter |-> A!adapter, fact |-> f, agreement |-> "conflict"]
      <4>1. m \in merges'
        BY <3>1 DEF A!Conflict, A!Record
      <4>2. m.op = p /\ m.agreement = "conflict"
        OBVIOUS
      <4> QED BY <4>1, <4>2
    <3> QED BY <3>2, <3>3
  <2> QED BY <1>1, <2>2, <2>3, <2>4, <2>5 DEF A!Next, A!Cancel, A!Fail, A!EndCollect, A!Collect,
       A!Drop, A!Withdraw, A!Keep, A!EndParse, A!Parsed, A!Unmatched, A!Undetermined,
       A!Inexpressible, A!NextDocument, A!EndMerge, A!result, A!vars
<1>2. AdaptersInv /\ [A!Next]_A!vars => [Kept]_A!vars
  BY <1>1
<1> QED BY <1>2, AdaptersInvHolds, PTL DEF A!Spec, NeverOverwritten, A!NeverOverwritten
=============================================================================
