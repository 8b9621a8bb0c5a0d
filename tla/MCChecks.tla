------------------------------ MODULE MCChecks ------------------------------
(***************************************************************************)
(* From the plan to a conclusion: planning (module Planning), the          *)
(* declared-authentication check (module AuthRequired), and what it and    *)
(* every other check read one response with (module Classification) and    *)
(* compare two with (module Evidence). They are checked side by side: a    *)
(* behaviour of this module is a behaviour of one of them, and the others  *)
(* rest in an initial state.                                               *)
(*                                                                         *)
(* Planning: four operations (a read, a write of the same resource, an     *)
(* OPTIONS and a write on a path of its own with two parameters), two      *)
(* fixtures, three identities and a bound of two units, which one          *)
(* operation is enough to reach and two to pass. AuthRequired: every       *)
(* target, which changes at most twice while the check runs: enough for a  *)
(* limiter to start and stop, or for a guard to be dropped and put back.   *)
(* Classification: every response of every kind, for a representative of   *)
(* each status the code names or falls through to, with one of the two     *)
(* codes mapped. Evidence: fourteen documents, one with a key that spells  *)
(* the entries of another, under bounds of two on depth and size, which    *)
(* some keep, some reach and some pass: every two that are whole and JSON, *)
(* and every one of them against what is not.                              *)
(***************************************************************************)
EXTENDS Checks, TLC

CONSTANTS alice, bob, carol, stranger

MCIdentities == {alice, bob, carol}
MCStrangers == {stranger}
MCMethods == <<"GET", "POST", "OPTIONS", "POST">>
MCPaths == <<"order", "order", "order", "line">>

Input(security, params, refused, excluded, excludeAuth, profile, values, aimed, owner,
      nonOwners, mutation) ==
  [method |-> MCMethods, path |-> MCPaths, params |-> params, security |-> security,
   authLike |-> {3}, refused |-> refused, excluded |-> excluded,
   excludeAuth |-> excludeAuth, profile |-> profile, values |-> values, aimed |-> aimed,
   owner |-> owner, nonOwners |-> nonOwners, mutation |-> mutation]

MCSecurity == <<"required", "required", "required", "optional">>
MCParams == <<{"id"}, {"id"}, {"id"}, {"id", "line"}>>
MCValues == <<{"id"}, {"id", "line"}>>

\* The safety controls against each other, on two fixtures that work.
Controls ==
  {Input(MCSecurity, MCParams, {}, excluded, excludeAuth, profile, MCValues, <<{}, {}>>,
         <<alice, bob>>, <<{}, {}>>, mutation) :
     excluded \in SUBSET {1, 2, 4}, excludeAuth \in BOOLEAN, profile \in Profiles,
     mutation \in {{}, {1}, {1, 2}}}

\* Fixtures that are wrong, or aimed wrong, in every way at once.
Misfits ==
  {Input(<<"required", "unstated", "public", "required">>,
         <<paramsRead, {"id"}, {}, {"id", "line"}>>, refused, {}, FALSE, "intrusive",
         <<values, {"id"}>>, <<aimed, {}>>, <<alice, owner>>, <<nonOwners, {}>>, {1, 2}) :
     paramsRead \in {{"id"}, {"id", "extra"}, {}}, refused \in {{}, {2}, {1, 2, 3, 4}},
     values \in {{}, {"id"}, {"id", "line"}}, aimed \in {{}, {1, 2}, {1, 4}, {4}},
     owner \in {bob, stranger},
     nonOwners \in {{}, {alice}, {stranger}, {alice, carol, stranger}}}

MCInputs == Controls \cup Misfits

-----------------------------------------------------------------------------
VARIABLE part  \* the component a behaviour is of

MCUnrouted == {"refuse", "page", "shifting"}
MCLengths == {1, 2}

MCStatuses == {101, 200, 204, 302, 400, 401, 403, 404, 405, 408, 409, 422, 429, 500, 501, 503}

MCResponses ==
  {r \in [status : MCStatuses, body : {"empty", "object", "json", "opaque"},
          type : {"json", "html", "other"}, code : {"none", "denied", "not found", "other"},
          failed : BOOLEAN, text : {"none", "denial", "not found", "plain"}, payload : BOOLEAN] :
     r.body # "object" => ~r.failed /\ r.text = "none" /\ ~r.payload /\ r.code = "none"}

MCMapped == {"denied"}

-----------------------------------------------------------------------------
(* Documents are built as trees and laid out by address.                   *)
Node(kind, value, kids) == [kind |-> kind, value |-> value, kids |-> kids]
Number(v) == Node(":number", v, <<>>)
Text(v) == Node(":string", v, <<>>)
Field(key, node) == [key |-> <<key>>, node |-> node]
Object(kids) == Node(IF kids = <<>> THEN ":object(empty)" ELSE "object", "", kids)
Slots == <<"[0]", "[1]", "[2]">>
Array(nodes) == Node(IF nodes = <<>> THEN ":array(empty)" ELSE "array", "",
                     [i \in DOMAIN nodes |-> [key |-> <<Slots[i]>>, node |-> nodes[i]]])
Id == Field("id", Number("7"))

\* All that is in a tree, below a path in each of the two ways paths are written.
RECURSIVE Laid(_, _, _, _, _)
Laid(tree, address, key, shape, place) ==
  {[address |-> address, node |-> [kind |-> tree.kind, value |-> tree.value, key |-> key],
    shape |-> shape, place |-> place]}
  \cup UNION {LET kid == tree.kids[i] IN
                Laid(kid.node, Append(address, i), kid.key,
                     shape \o (IF tree.kind = "array" THEN <<"[]">> ELSE kid.key),
                     place \o kid.key) : i \in DOMAIN tree.kids}

Document(tree) ==
  LET all == Laid(tree, <<>>, <<>>, <<>>, <<>>)
      addresses == {n.address : n \in all}
      laid == [a \in addresses |-> CHOOSE n \in all : n.address = a]
  IN  [node |-> [a \in addresses |-> laid[a].node],
       path |-> [equivalence |-> [a \in addresses |-> laid[a].shape],
                 resource |-> [a \in addresses |-> laid[a].place]]]

MCTrees ==
  [id |-> Object(<<Id>>),
   otherId |-> Object(<<Field("id", Number("9"))>>),
   text |-> Object(<<Field("id", Text("7"))>>),
   moved |-> Object(<<Field("ref", Number("7")), Field("id", Number("9"))>>),
   list |-> Object(<<Id, Field("rows", Array(<<Number("1"), Number("2")>>))>>),
   longer |-> Object(<<Field("rows", Array(<<Number("1"), Number("2"), Number("7")>>)),
                       Field("id", Text(""))>>),
   wide |-> Object(<<Id, Field("a", Text("x")),
                     Field("rows", Array(<<Number("1"), Number("1")>>))>>),
   wider |-> Object(<<Id, Field("a", Text("x")), Field("b", Text("y")), Field("c", Text("z"))>>),
   deep |-> Object(<<Field("data", Object(<<Id, Field("rows", Array(<<Object(<<>>)>>))>>))>>),
   slash |-> Object(<<[key |-> <<"data", "id">>, node |-> Number("7")]>>),
   pair |-> Object(<<Id, Field("a", Text("x"))>>),
   spelled |-> Object(<<[key |-> <<"a", ":string", "id">>, node |-> Number("7")]>>),
   nothing |-> Node(":null", "", <<>>),
   none |-> Array(<<>>)]

\* By byte a slash comes before a colon, so a word before a kind.
MCWords == Slots \o <<"[]", "a", "b", "c", "data", "id", "ref", "rows", ":array(empty)",
                      ":boolean", ":null", ":number", ":object(empty)", ":string">>
Place(word) == CHOOSE i \in DOMAIN MCWords : MCWords[i] = word
MCBefore(one, other) ==
  \E n \in DOMAIN other :
    /\ \A i \in 1 .. n - 1 : i <= Len(one) /\ one[i] = other[i]
    /\ n > Len(one) \/ Place(one[n]) < Place(other[n])

MCDocuments == [n \in DOMAIN MCTrees |-> Document(MCTrees[n])]

MCBodies ==
  {[bytes |-> n, form |-> "document", doc |-> MCDocuments[n]] : n \in DOMAIN MCDocuments}
    \cup {[bytes |-> "id, spaced", form |-> "document", doc |-> MCDocuments["id"]],
          [bytes |-> "id, list", form |-> "continued", doc |-> MCDocuments["id"]],
          [bytes |-> "", form |-> "empty", doc |-> MCDocuments["nothing"]],
          [bytes |-> "<html>", form |-> "malformed", doc |-> MCDocuments["nothing"]]}

MCCaptured ==
  [status : {200, 201}, type : {"json", "problem+json", "html"}, truncated : BOOLEAN,
   body : MCBodies]
Whole == {r \in MCCaptured : r.status = 200 /\ r.type = "json" /\ ~r.truncated}
MCComparisons ==
  {c \in [mode : {"equivalence", "resource"}, first : Whole, second : MCCaptured] :
     c.second \in Whole \/ c.first.body = c.second.body}

-----------------------------------------------------------------------------
MCInit ==
  /\ part \in {"planning", "check", "classification", "evidence"}
  /\ IF part = "planning" THEN input \in Inputs ELSE input = CHOOSE i \in Controls : TRUE
  /\ IF part = "classification" THEN response \in MCResponses
     ELSE response = CHOOSE r \in MCResponses : TRUE
  /\ IF part = "check" THEN TRUE
     ELSE routed = TRUE /\ open = TRUE /\ alive = TRUE /\ unknown = "refuse" /\ known = "good"
  /\ IF part = "evidence" THEN TRUE ELSE asked = CHOOSE c \in MCComparisons : TRUE
  /\ Init /\ A!Init /\ C!Init /\ E!Init

MCNext ==
  \/ part = "planning" /\ Next /\ UNCHANGED <<part, check, reading, comparing>>
  \/ part = "check" /\ A!Next /\ UNCHANGED <<part, vars, reading, comparing>>
  \/ part = "classification" /\ C!Next /\ UNCHANGED <<part, vars, check, comparing>>
  \/ part = "evidence" /\ E!Next /\ UNCHANGED <<part, vars, check, reading>>

MCSpec ==
  /\ MCInit /\ [][MCNext]_<<part, vars, check, reading, comparing>>
  /\ WF_check(part = "check" /\ A!Run)

-----------------------------------------------------------------------------
\* Once two anonymous requests have succeeded, the check ends in a finding.
NothingClearsASuccess == A!NothingClearsASuccess
=============================================================================
