------------------------------ MODULE Evidence ------------------------------
(***************************************************************************)
(* internal/check/shape.go: whether two responses are of one kind          *)
(* (materiallyEquivalent) and whether they are of one resource             *)
(* (sameResource). What a finding is confirmed by rests on the two.        *)
(*                                                                         *)
(* Both walk the two JSON documents under bounds on depth and size, an     *)
(* array in order and an object in the order Go happens to give its keys,  *)
(* which differs from run to run: a step of this module visits one node.   *)
(* The documents are the target's, so they are any documents.              *)
(*                                                                         *)
(* A document is a tree. A node's address is the sequence of positions     *)
(* that lead to it, and `node` gives for each address [kind, value, key].  *)
(* A path is written with a slash before each key and an entry of a shape  *)
(* with the kind of its value behind, `:number`, and entries are joined    *)
(* with `;`. So a key is the sequence of what its own slashes separate     *)
(* and, after a word, of the ends it spells (`:number;`): a kind within a  *)
(* key stands for that. An array's keys are its positions. `path` only     *)
(* observes: it is where each node is, in the words of each question,      *)
(* whatever walk comes by. A body is [bytes, form, doc], bytes naming its  *)
(* spelling and doc what Decode makes of it: the first JSON value in it,   *)
(* which may be "continued" by anything.                                   *)
(***************************************************************************)
EXTENDS Naturals, Sequences, FiniteSets

CONSTANTS
  Responses,     \* [status, type, truncated, body]
  JsonTypes,     \* the content types with "json" in them
  Values,        \* the values of the fixture's parameters
  MaxShapeDepth, MaxShapePaths,
  Before(_, _),  \* the order sort.Strings gives the entries of a shape
  Comparisons    \* the questions considered: [mode, first, second]

Modes == {"equivalence", "resource"}

\* The kinds of a node without children.
Kinds == {":number", ":string", ":boolean", ":null", ":object(empty)", ":array(empty)"}

\* What leads from a node to the child at an address. A shape has one element for all of an
\* array's; the place of a value has its position.
Parent(address) == SubSeq(address, 1, Len(address) - 1)
Element(mode, doc, address) ==
  IF mode = "equivalence" /\ doc.node[Parent(address)].kind = "array" THEN <<"[]">>
                                                                   ELSE doc.node[address].key

Kids(doc, address) == {child \in DOMAIN doc.node : child # <<>> /\ Parent(child) = address}
Leaf(doc, address) == Kids(doc, address) = {}

\* A document is finite, has what lies above each of its nodes, and a path is that of the
\* parent and the child's key.
IsDocument(doc) ==
  /\ IsFiniteSet(DOMAIN doc.node)
  /\ <<>> \in DOMAIN doc.node
  /\ \A address \in DOMAIN doc.node :
       /\ address \in Seq(Nat)
       /\ \A n \in 0 .. Len(address) : SubSeq(address, 1, n) \in DOMAIN doc.node
       /\ doc.node[address].kind \in STRING
       /\ Leaf(doc, address) <=> doc.node[address].kind \in Kinds
  /\ \A mode \in Modes :
       /\ doc.path[mode] \in [DOMAIN doc.node -> Seq(STRING)]
       /\ doc.path[mode][<<>>] = <<>>
       /\ \A address \in DOMAIN doc.node \ {<<>>} :
            doc.path[mode][address] =
              doc.path[mode][Parent(address)] \o Element(mode, doc, address)

EvidenceAssumption ==
  /\ MaxShapeDepth \in Nat /\ MaxShapePaths \in Nat
  /\ Comparisons \subseteq [mode : Modes, first : Responses, second : Responses]
  /\ \A response \in Responses : response.truncated \in BOOLEAN /\ IsDocument(response.body.doc)

VARIABLES
  asked,    \* the question
  reading,  \* the response being walked, 0 before and 3 after both
  stack,    \* the nodes entered and not left, the innermost last
  out,      \* what the walk has recorded
  walks,    \* the finished walks: [ok, out]
  verdict   \* Equivalent or Proven

vars == <<asked, reading, stack, out, walks, verdict>>

NotWalked == [ok |-> FALSE, out |-> {}]

Init ==
  /\ asked \in Comparisons
  /\ reading = 0
  /\ stack = <<>>
  /\ out = {}
  /\ walks = <<NotWalked, NotWalked>>
  /\ verdict = "open"

Response(i) == IF i = 1 THEN asked.first ELSE asked.second
Body(i) == Response(i).body
Doc == Body(reading).doc
Conclude(v) == verdict' = (IF v THEN "yes" ELSE "no")

-----------------------------------------------------------------------------
(* Before the walks.                                                       *)

\* What materiallyEquivalent compares first, and what bodyShape refuses to walk.
SameKind == asked.first.status = asked.second.status /\ asked.first.type = asked.second.type
Modellable(i) == Response(i).type \in JsonTypes /\ ~ Response(i).truncated

\* sameResource: two captured prefixes prove nothing, two whole bodies of the same bytes do.
\* (PrefixesToo: the fault of comparing what was captured.)
PrefixesToo == FALSE
CutShort == asked.first.truncated \/ asked.second.truncated
Identical == Body(1).form # "empty" /\ Body(1).bytes = Body(2).bytes

Ask ==
  /\ verdict = "open" /\ reading = 0
  /\ \/ /\ asked.mode = "equivalence"
        /\ IF SameKind /\ Modellable(1) /\ Modellable(2)
           THEN reading' = 1 /\ UNCHANGED verdict
           ELSE Conclude(FALSE) /\ UNCHANGED reading
     \/ /\ asked.mode = "resource"
        /\ IF CutShort \/ Identical
           THEN Conclude(~ CutShort) /\ UNCHANGED reading
           ELSE reading' = 1 /\ UNCHANGED verdict
  /\ UNCHANGED <<asked, stack, out, walks>>

-----------------------------------------------------------------------------
(* walkShape and walkValues.                                               *)

Walking == verdict = "open" /\ reading \in {1, 2}
Shaping == asked.mode = "equivalence"

\* The path of a child. (Positions: the fault of keeping an array's in a shape.)
Positions(path, child) == path \o Doc.node[child].key
ChildPath(path, child) == path \o Element(asked.mode, Doc, child)

\* What a node without children adds: a path with the type of its value; or, of a string
\* that is not empty and of a number as it is written, the value with its path.
Scalar(node) == node.kind \in {":number", ":string"} /\ node.value # ""
Record(path, node) ==
  IF Shaping THEN {Append(path, node.kind)} ELSE IF Scalar(node) THEN {<<node.value, path>>} ELSE {}

\* len(out): the shape's paths, or the values that differ.
Recorded == IF Shaping THEN Cardinality(out) ELSE Cardinality({entry[1] : entry \in out})

\* The bounds, tested on entering a node.
TooLarge(depth) == depth > MaxShapeDepth \/ Recorded > MaxShapePaths

\* The walk of the response ends: with what it has recorded, or without a result.
\* (TakeWhatThereIs: the fault of a bound that ends the walk and not the comparison.)
TakeWhatThereIs == TRUE
WhenTooLarge == FALSE
EndWalk(ok, all) ==
  /\ walks' = [walks EXCEPT ![reading] = [ok |-> ok, out |-> all]]
  /\ reading' = reading + 1
  /\ stack' = <<>>
  /\ out' = {}
  /\ UNCHANGED <<asked, verdict>>

\* Entering a node below those of rest. The walk ends at once where a bound is passed.
Enter(path, address, rest) ==
  IF TooLarge(Len(rest) - 1) THEN EndWalk(WhenTooLarge, out)
  ELSE IF Leaf(Doc, address)
    THEN /\ out' = out \cup Record(path, Doc.node[address])
         /\ stack' = rest
         /\ UNCHANGED <<asked, reading, walks, verdict>>
  ELSE /\ stack' = Append(rest, [path |-> path, left |-> Kids(Doc, address)])
       /\ UNCHANGED <<asked, reading, out, walks, verdict>>

\* The root is a child of nothing.
Outside == <<[path |-> <<>>, left |-> {}]>>

\* An empty body and one that begins with no JSON value have no walk; what comes after the
\* first value nobody reads.
Document(i) == Body(i).form \in {"document", "continued"}
StartWalk ==
  /\ Walking /\ stack = <<>>
  /\ IF Document(reading) THEN Enter(<<>>, <<>>, Outside) ELSE EndWalk(FALSE, {})

Top == stack[Len(stack)]

\* The next child: an array's in their order, an object's in any.
Position(child) == child[Len(child)]
NextOf(left) ==
  {child \in left : Doc.node[Parent(child)].kind = "array" =>
                      \A other \in left : Position(child) <= Position(other)}

Visit ==
  /\ Walking /\ stack # <<>>
  /\ \E child \in NextOf(Top.left) :
       Enter(ChildPath(Top.path, child), child, [stack EXCEPT ![Len(stack)].left = @ \ {child}])

Leave ==
  /\ Walking /\ stack # <<>>
  /\ Top.left = {}
  /\ IF Len(stack) = 1 THEN EndWalk(TRUE, out)
     ELSE /\ stack' = SubSeq(stack, 1, Len(stack) - 1)
          /\ UNCHANGED <<asked, reading, out, walks, verdict>>

-----------------------------------------------------------------------------
(* After the walks.                                                        *)

\* key: the entries of a shape, sorted and joined. Joined, an entry is no longer told from
\* the ends within it: what is left are the rows between one end and the next, in order.
Ends(entry) == {i \in DOMAIN entry : entry[i] \in Kinds}
Row(entry, i) ==
  SubSeq(entry, CHOOSE n \in 1 .. i : /\ n = 1 \/ n - 1 \in Ends(entry)
                                      /\ \A k \in n .. i - 1 : k \notin Ends(entry), i)
EndsIn(shape) == UNION {{<<entry, i>> : i \in Ends(entry)} : entry \in shape}
EndsBefore(shape, end) ==
  {e \in EndsIn(shape) : Before(e[1], end[1]) \/ (e[1] = end[1] /\ e[2] < end[2])}
Key(shape) ==
  {<<Cardinality(EndsBefore(shape, end)), Row(end[1], end[2])>> : end \in EndsIn(shape)}

\* (AnyField: the fault of looking for the value in both, wherever it is.)
AnyField == \E one \in walks[1].out, other \in walks[2].out : one[1] = other[1] /\ one[1] \in Values
SameField == \E entry \in walks[1].out \cap walks[2].out : entry[1] \in Values

\* An empty value is no identifier, and no walk has recorded one.
Compare ==
  /\ verdict = "open" /\ reading = 3
  /\ Conclude(/\ walks[1].ok /\ walks[2].ok
              /\ IF Shaping THEN Key(walks[1].out) = Key(walks[2].out) ELSE SameField)
  /\ UNCHANGED <<asked, reading, stack, out, walks>>

Over == verdict # "open" /\ UNCHANGED vars

Next == Ask \/ StartWalk \/ Visit \/ Leave \/ Compare \/ Over
Spec == Init /\ [][Next]_vars

-----------------------------------------------------------------------------
TypeOK ==
  /\ asked \in Comparisons
  /\ reading \in 0 .. 3
  /\ \A i \in {1, 2} : walks[i].ok \in BOOLEAN
  /\ verdict \in {"open", "yes", "no"}
  /\ Recorded <= MaxShapePaths + 1
  /\ Len(stack) <= MaxShapeDepth + 2

\* What a document holds, all of it.
Leaves(doc) == {address \in DOMAIN doc.node : Leaf(doc, address)}
Structure(doc) == {Append(doc.path["equivalence"][a], doc.node[a].kind) : a \in Leaves(doc)}
Anchors(doc) ==
  {<<doc.node[a].value, doc.path["resource"][a]>> : a \in {b \in Leaves(doc) : Scalar(doc.node[b])}}

Deep(doc) == \E address \in DOMAIN doc.node : Len(address) > MaxShapeDepth

\* No key of the document spells the end of an entry.
Plain(doc) ==
  \A a \in Leaves(doc) :
    LET path == doc.path["equivalence"][a] IN \A i \in DOMAIN path : path[i] \notin Kinds

\* Two responses are equivalent only if they are captured whole and the structures of the
\* JSON values they begin with join to one text, all of both compared; and they are one
\* structure where no key spells the end of an entry. Two that join to one text, and are
\* within the bounds, always are equivalent.
Comparable == SameKind /\ Modellable(1) /\ Modellable(2) /\ Document(1) /\ Document(2)
SameStructure == Structure(Body(1).doc) = Structure(Body(2).doc)
SameText == Key(Structure(Body(1).doc)) = Key(Structure(Body(2).doc))
Bounded(i) == ~ Deep(Body(i).doc) /\ Cardinality(Structure(Body(i).doc)) <= MaxShapePaths

EquivalenceIsExact ==
  asked.mode = "equivalence" =>
    /\ verdict = "yes" =>
         Comparable /\ SameText /\ (Plain(Body(1).doc) /\ Plain(Body(2).doc) => SameStructure)
    /\ verdict = "no" => ~ (Comparable /\ SameText /\ Bounded(1) /\ Bounded(2))

\* The non-owner is said to have the owner's resource only if both bodies are whole, and are
\* the same bytes or have a value of the fixture in the same field. Those that have it, and
\* are within the bounds, always are.
SameAnchor ==
  /\ Document(1) /\ Document(2)
  /\ \E a \in Anchors(Body(1).doc) \cap Anchors(Body(2).doc) : a[1] \in Values
SmallEnough(i) ==
  ~ Deep(Body(i).doc) /\ Cardinality({a[1] : a \in Anchors(Body(i).doc)}) <= MaxShapePaths

ResourceIsProven ==
  asked.mode = "resource" =>
    /\ verdict = "yes" =>
         /\ ~ asked.first.truncated /\ ~ asked.second.truncated
         /\ (Body(1).bytes = Body(2).bytes /\ Body(1).form # "empty") \/ SameAnchor
    /\ verdict = "no" =>
         asked.first.truncated \/ asked.second.truncated
           \/ ~ (SameAnchor /\ SmallEnough(1) /\ SmallEnough(2))

\* Two responses are told apart by what they are, in whichever order their fields come.
ComparisonIsExact == TypeOK /\ EquivalenceIsExact /\ ResourceIsProven
=============================================================================
