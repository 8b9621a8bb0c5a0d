------------------------------ MODULE Adapters ------------------------------
(***************************************************************************)
(* internal/adapter: Collect runs the configured framework adapters one    *)
(* after the other, Parse decides which of the facts in an adapter's       *)
(* document may be used, and MergeInto reconciles them with what the       *)
(* specification says, one fact at a time, document after document. What   *)
(* comes out is the oracle: for each operation whether it is expected to   *)
(* require authentication.                                                 *)
(*                                                                         *)
(* An operation is named by method and path. The specification's paths are *)
(* relative to a server URL, so that a documented operation has a second   *)
(* name, the path the application serves; adapters may use either. A fact  *)
(* that validateFact refuses is one that is not `valid`; the texts of      *)
(* facts, evidence and messages are left out.                              *)
(***************************************************************************)
EXTENDS Naturals, Sequences, Functions

CONSTANTS
  Adapters,    \* the configured adapters, in order
  Ops,         \* the documented operations
  Names,       \* the names of operations, as a sequence in the order of their text
  Id, Abs,     \* the two names of each documented operation
  MaxFacts,
  Inputs,      \* the specifications and options considered
  Documents    \* the outputs an adapter may write

NameSet == Range(Names)
AdapterSet == Range(Adapters)
Kinds == <<"authentication", "authorization">>   \* ownership is as authorization
ValuesOf(kind) == IF kind = "authentication" THEN {"required", "public", "unknown"}
                                            ELSE {"present", "absent", "unknown"}
Fact == UNION {[name : NameSet, kind : {k}, value : ValuesOf(k), valid : BOOLEAN] :
                 k \in Range(Kinds)}
Methods == {"native", "static"}
Securities == {"unstated", "public", "optional", "required"}

AdaptersAssumption ==
  /\ Adapters \in Seq(AdapterSet) /\ IsInjective(Adapters)
  /\ Names \in Seq(NameSet) /\ IsInjective(Names)
  /\ {Id, Abs} \subseteq [Ops -> NameSet]
  /\ \A o, p \in Ops : Id[o] = Id[p] \/ Abs[o] = Abs[p] => o = p
  /\ MaxFacts \in Nat
  /\ Inputs \subseteq [security : [Ops -> Securities], trust : BOOLEAN]
  /\ Documents \subseteq [readable : BOOLEAN, named : BOOLEAN, method : Methods,
                          facts : Seq(Fact)]

\* What is expected of an operation, and the sources of that expectation.
Expectation == [security : Securities, by : SUBSET AdapterSet]

Agreements == {"new", "corroborated", "conflict", "unknown"}
Merge == [op : Ops, adapter : AdapterSet, fact : Fact, agreement : Agreements]

VARIABLES
  input,
  phase,      \* "collect", "parse", "merge" or "done"
  at,         \* the adapter, then the document, that is next
  cancelled,
  wrote,      \* the facts each adapter's output holds, as it wrote them
  unread,     \* the facts of the output in hand that Parse has not looked at
  draft,      \* the document it makes of them: its method and the facts in `seen`
  documents,  \* Collection.Documents
  dropped,    \* Result.Dropped of each adapter
  failures,   \* the adapters in Collection.Failures
  unmerged,   \* the facts of the current document not merged yet
  ops,        \* MergeResult.Operations
  merges,     \* MergeResult.Merges
  unmatched,  \* MergeResult.UnmatchedOperations: names and adapters
  discovered  \* MergeResult.DiscoveredOperations, a function of their names

vars == <<input, phase, at, cancelled, wrote, unread, draft, documents, dropped, failures,
          unmerged, ops, merges, unmatched, discovered>>
collection == <<cancelled, wrote, unread, draft, documents, dropped, failures>>
result == <<ops, merges, unmatched, discovered>>

NoDraft == [method |-> "static", facts |-> {}]

Init ==
  /\ input \in Inputs
  /\ phase = "collect"
  /\ at = 1
  /\ cancelled = FALSE
  /\ wrote = [a \in AdapterSet |-> <<>>]
  /\ unread = <<>>
  /\ draft = NoDraft
  /\ documents = <<>>
  /\ dropped = [a \in AdapterSet |-> 0]
  /\ failures = {}
  /\ unmerged = {}
  /\ ops = [o \in Ops |-> [security |-> input.security[o], by |-> {}]]
  /\ merges = {}
  /\ unmatched = {}
  /\ discovered = <<>>

-----------------------------------------------------------------------------
(* Collect.                                                                *)

Cancel ==
  /\ phase \in {"collect", "parse"} /\ ~cancelled
  /\ cancelled' = TRUE
  /\ UNCHANGED <<input, phase, at, wrote, unread, draft, documents, dropped, failures,
                 unmerged, result>>

More == phase = "collect" /\ at <= Len(Adapters)

\* The adapter was not run, did not start, was stopped, wrote too much or ended badly.
\* (SilentFail: the fault of leaving without a word.)
SilentFail ==
  /\ More
  /\ at' = at + 1
  /\ UNCHANGED <<input, phase, collection, unmerged, result>>
Fail ==
  /\ More
  /\ failures' = failures \cup {Adapters[at]}
  /\ at' = at + 1
  /\ UNCHANGED <<input, phase, cancelled, wrote, unread, draft, documents, dropped, unmerged,
                 result>>

\* What the executor asks of a document, and of the adapter's word for how it was made.
\* (Untrusting: the fault of not asking for the operator's trust.)
Parses(d) == d.readable /\ Len(d.facts) <= MaxFacts
Untrusting(d) == Parses(d) /\ d.named
Acceptable(d) == Parses(d) /\ d.named /\ (d.method = "native" => input.trust)

\* A document that is refused leaves nothing, whatever Parse made of its facts.
Collect(d) ==
  /\ More /\ ~cancelled
  /\ wrote' = [wrote EXCEPT ![Adapters[at]] = d.facts]
  /\ IF Acceptable(d)
     THEN /\ phase' = "parse"
          /\ unread' = d.facts
          /\ draft' = [NoDraft EXCEPT !.method = d.method]
          /\ UNCHANGED <<at, failures>>
     ELSE /\ failures' = failures \cup {Adapters[at]}
          /\ at' = at + 1
          /\ UNCHANGED <<phase, unread, draft>>
  /\ UNCHANGED <<input, cancelled, documents, dropped, unmerged, result>>

\* The facts of the first document, if there is one, are to be merged next.
EndCollect ==
  /\ phase = "collect" /\ at > Len(Adapters)
  /\ phase' = "merge"
  /\ at' = 1
  /\ unmerged' = IF documents = <<>> THEN {} ELSE documents[1].facts
  /\ UNCHANGED <<input, collection, result>>

-----------------------------------------------------------------------------
(* Parse: which facts of one document may be used.                         *)

Key(f) == <<f.name, f.kind>>

\* The facts kept so far that say something else of the same subject. (KeepsBoth: the fault
\* of looking for repeats only.)
KeepsBoth(f) == {}
Opposed(f) == {g \in draft.facts : Key(g) = Key(f) /\ g # f}

Reading == phase = "parse" /\ unread # <<>> /\ unread' = Tail(unread)
Parsed ==
  UNCHANGED <<input, phase, at, cancelled, wrote, documents, failures, unmerged, result>>
Dropped == dropped' = [dropped EXCEPT ![Adapters[at]] = @ + 1]

\* A fact validateFact refuses, or an exact repeat.
Drop ==
  LET f == Head(unread) IN
  /\ Reading /\ (~f.valid \/ f \in draft.facts)
  /\ Dropped /\ UNCHANGED draft
  /\ Parsed

\* A contradiction withdraws both.
Withdraw ==
  LET f == Head(unread) IN
  /\ Reading /\ f.valid /\ f \notin draft.facts /\ Opposed(f) # {}
  /\ draft' = [draft EXCEPT !.facts = @ \ Opposed(f)]
  /\ Dropped
  /\ Parsed

Keep ==
  LET f == Head(unread) IN
  /\ Reading /\ f.valid /\ f \notin draft.facts /\ Opposed(f) = {}
  /\ draft' = [draft EXCEPT !.facts = @ \cup {f}]
  /\ UNCHANGED dropped
  /\ Parsed

EndParse ==
  /\ phase = "parse" /\ unread = <<>>
  /\ documents' = Append(documents, [adapter |-> Adapters[at], method |-> draft.method,
                                     facts |-> draft.facts])
  /\ draft' = NoDraft
  /\ phase' = "collect" /\ at' = at + 1
  /\ UNCHANGED <<input, cancelled, wrote, unread, dropped, failures, unmerged, result>>

-----------------------------------------------------------------------------
(* MergeInto.                                                              *)

\* SortFacts: by name, then by kind.
Position(f) == <<CHOOSE i \in DOMAIN Names : Names[i] = f.name,
                 CHOOSE i \in DOMAIN Kinds : Kinds[i] = f.kind>>
Before(f, g) ==
  LET p == Position(f)  q == Position(g) IN
  p[1] < q[1] \/ (p[1] = q[1] /\ p[2] < q[2])

\* index and absIndex: the documented operation of a name, {} if it has none.
\* (IdOnly: the fault of asking the first alone.)
IdOnly(n) == {o \in Ops : Id[o] = n}
Resolve(n) ==
  IF \E o \in Ops : Id[o] = n THEN {o \in Ops : Id[o] = n} ELSE {o \in Ops : Abs[o] = n}

\* authenticationState: what is already said, in the adapters' vocabulary.
Existing(o) == IF ops[o].security \in {"public", "required"} THEN ops[o].security
                                                             ELSE "unknown"

\* The next fact is the first of those left.
Merging(f) ==
  /\ phase = "merge"
  /\ f \in unmerged /\ \A g \in unmerged \ {f} : Before(f, g)
  /\ unmerged' = unmerged \ {f}
  /\ UNCHANGED <<input, phase, at, collection>>
adapter == documents[at].adapter
Record(o, f, agreement) ==
  merges' = merges \cup {[op |-> o, adapter |-> adapter, fact |-> f, agreement |-> agreement]}

\* applyAuthentication on the operations that are discovered, recordSource on the others.
Unmatched(f) ==
  LET known == IF f.name \in DOMAIN discovered THEN discovered[f.name]
               ELSE [security |-> "unstated", by |-> {}]
  IN
  /\ Merging(f) /\ Resolve(f.name) = {}
  /\ unmatched' = unmatched \cup {<<f.name, adapter>>}
  /\ discovered' =
       [n \in DOMAIN discovered \cup {f.name} |->
          IF n # f.name THEN discovered[n]
          ELSE IF f.kind = "authentication" /\ f.value # "unknown"
          THEN [security |-> f.value, by |-> {adapter}]
          ELSE known]
  /\ UNCHANGED <<ops, merges>>

Undetermined(o, f) ==
  /\ Merging(f) /\ o \in Resolve(f.name) /\ f.value = "unknown"
  /\ Record(o, f, "unknown")
  /\ UNCHANGED <<ops, unmatched, discovered>>

\* (AnyAnswer: the fault of taking "unknown" for an answer.)
AnyAnswer(o, f) == Merging(f) /\ o \in Resolve(f.name) /\ f.kind = "authentication"
Authentication(o, f) ==
  /\ Merging(f) /\ o \in Resolve(f.name)
  /\ f.value # "unknown" /\ f.kind = "authentication"

NewExpectation(o, f) ==
  /\ Authentication(o, f) /\ Existing(o) = "unknown"
  /\ ops' = [ops EXCEPT ![o] = [security |-> f.value, by |-> {adapter}]]
  /\ Record(o, f, "new")
  /\ UNCHANGED <<unmatched, discovered>>

Corroborate(o, f) ==
  /\ Authentication(o, f) /\ Existing(o) = f.value
  /\ ops' = [ops EXCEPT ![o].by = @ \cup {adapter}]
  /\ Record(o, f, "corroborated")
  /\ UNCHANGED <<unmatched, discovered>>

\* What becomes of an operation two sources disagree about. (AdapterWins: the fault of
\* believing the later one.)
AdapterWins(f) == [security |-> f.value, by |-> {adapter}]
Conflicted(f) == [security |-> "unstated", by |-> {}]

Conflict(o, f) ==
  /\ Authentication(o, f) /\ Existing(o) \notin {"unknown", f.value}
  /\ ops' = [ops EXCEPT ![o] = Conflicted(f)]
  /\ Record(o, f, "conflict")
  /\ UNCHANGED <<unmatched, discovered>>

\* Authorization and ownership: recorded, never compared.
Inexpressible(o, f) ==
  /\ Merging(f) /\ o \in Resolve(f.name)
  /\ f.value # "unknown" /\ f.kind # "authentication"
  /\ Record(o, f, "new")
  /\ UNCHANGED <<ops, unmatched, discovered>>

NextDocument ==
  /\ phase = "merge" /\ unmerged = {} /\ at < Len(documents)
  /\ at' = at + 1
  /\ unmerged' = documents[at + 1].facts
  /\ UNCHANGED <<input, phase, collection, result>>

EndMerge ==
  /\ phase = "merge" /\ unmerged = {} /\ at >= Len(documents)
  /\ phase' = "done"
  /\ UNCHANGED <<input, at, collection, unmerged, result>>

Next ==
  \/ Cancel \/ Fail \/ EndCollect
  \/ \E d \in Documents : Collect(d)
  \/ Drop \/ Withdraw \/ Keep \/ EndParse
  \/ \E f \in unmerged :
       \/ Unmatched(f)
       \/ \E o \in Ops : \/ Undetermined(o, f) \/ NewExpectation(o, f) \/ Corroborate(o, f)
                         \/ Conflict(o, f) \/ Inexpressible(o, f)
  \/ NextDocument \/ EndMerge

Spec == Init /\ [][Next]_vars

-----------------------------------------------------------------------------
(* Properties.                                                             *)

TypeOK ==
  /\ input \in Inputs
  /\ phase \in {"collect", "parse", "merge", "done"}
  /\ at \in 1 .. Len(Adapters) + 1
  /\ cancelled \in BOOLEAN
  /\ wrote \in [AdapterSet -> Seq(Fact)]
  /\ unread \in Seq(Fact)
  /\ draft \in [method : Methods, facts : SUBSET Fact]
  /\ documents \in Seq([adapter : AdapterSet, method : Methods, facts : SUBSET Fact])
  /\ dropped \in [AdapterSet -> 0 .. MaxFacts]
  /\ failures \subseteq AdapterSet
  /\ unmerged \subseteq Fact
  /\ ops \in [Ops -> Expectation]
  /\ merges \subseteq Merge
  /\ unmatched \subseteq NameSet \X AdapterSet
  /\ DOMAIN discovered \subseteq NameSet /\ Range(discovered) \subseteq Expectation

Merged == phase = "done"
Used == UNION {{<<d.adapter, f>> : f \in d.facts} : d \in Range(documents)}

\* Every configured adapter ends up in exactly one of two places: its document is used, or
\* it is named as a failure and nothing of it is.
EveryAdapterAccounted ==
  phase \in {"merge", "done"} => \A a \in AdapterSet :
    (a \in failures) # (\E i \in DOMAIN documents : documents[i].adapter = a)

\* No document says two things of one subject, and what it says the adapter did write.
OneAnswerPerSubject ==
  \A u, v \in Used :
    /\ u[2].valid /\ u[2] \in Range(wrote[u[1]])
    /\ u[1] = v[1] /\ Key(u[2]) = Key(v[2]) => u = v

\* Every fact that was used is in the report: as a merge if its operation is documented
\* under either name, as an unmatched operation if not.
EveryFactReported ==
  Merged => \A u \in Used :
    \/ \E o \in Ops : u[2].name \in {Id[o], Abs[o]} /\
         \E m \in merges : m.op = o /\ m.adapter = u[1] /\ m.fact = u[2]
    \/ (\A o \in Ops : u[2].name \notin {Id[o], Abs[o]}) /\ <<u[2].name, u[1]>> \in unmatched

\* An expectation the specification did not state comes from adapters that said so of this
\* operation, and none of them ran the target's code without the operator's word for it.
ExpectationHasItsSource ==
  \A o \in Ops : ops[o].security \notin {"unstated", input.security[o]} =>
    /\ ops[o].by # {}
    /\ \A a \in ops[o].by : \E u \in Used :
         /\ u[1] = a /\ u[2].value = ops[o].security /\ u[2].name \in {Id[o], Abs[o]}
         /\ \E i \in DOMAIN documents :
              documents[i].adapter = a /\ (documents[i].method = "native" => input.trust)

\* Adapters and their facts are accounted for one by one, up to the expectations they lead to.
FactsAccounted ==
  /\ TypeOK
  /\ EveryAdapterAccounted
  /\ OneAnswerPerSubject
  /\ EveryFactReported
  /\ ExpectationHasItsSource

\* What the specification declares is never turned into its opposite by one fact, and an
\* expectation is lost only where a conflict is on record.
NeverOverwritten ==
  [][\A o \in Ops : Existing(o) # "unknown" /\ ops'[o].security # ops[o].security =>
       /\ ops'[o].security = "unstated"
       /\ \E m \in merges' : m.op = o /\ m.agreement = "conflict"]_vars
=============================================================================
