----------------------------- MODULE MCSurface -----------------------------
(***************************************************************************)
(* What widens the surface: a discovery pass (module Discovery) and the    *)
(* facts of framework adapters (module Adapters). They are checked side by *)
(* side: a behaviour of this module is a behaviour of one of them, and the *)
(* other rests in an initial state.                                        *)
(*                                                                         *)
(* Discovery: three paths of the target and one reference to another host, *)
(* with room for two candidates, one of each source; two scripts of which  *)
(* one may be read, room for two of the three script references a page may *)
(* hold, one well-known document and a budget of three requests. The one   *)
(* known operation is served at p1, and spelled p2 in its specification.   *)
(*                                                                         *)
(* Adapters: two adapters, two documented operations of which one has a    *)
(* server path, and one operation only adapters know. Documents hold up to *)
(* two facts, or three of one subject; the limit of three is passed by one *)
(* of four.                                                                *)
(***************************************************************************)
EXTENDS Surface

MCPaths == {"p1", "p2", "p3"}
MCOthers == {"o1"}
MCScripts == {"s1", "s2"}
MCOperations == {[served |-> "p1", template |-> "p2", instances |-> {}]}

-----------------------------------------------------------------------------
MCAdapters == <<"laravel", "nestjs">>
MCOps == {"orders", "me"}
MCNames == <<"GET /api/orders", "GET /hidden", "GET /me", "GET /orders">>
MCId == [orders |-> "GET /orders", me |-> "GET /me"]
MCAbs == [orders |-> "GET /api/orders", me |-> "GET /me"]

Fact(name, kind, value) == [name |-> name, kind |-> kind, value |-> value, valid |-> TRUE]
Auth(name, value) == Fact(name, "authentication", value)
Some ==
  {Auth(n, v) : n \in {"GET /orders", "GET /hidden"}, v \in {"required", "public"}}
    \cup {Auth("GET /api/orders", "public"), Auth("GET /orders", "unknown"),
          Fact("GET /orders", "authorization", "present"),
          [Auth("GET /me", "required") EXCEPT !.valid = FALSE]}
Subject == {Auth("GET /orders", v) : v \in {"required", "public"}}
MCFacts == {<<>>} \cup {<<f>> : f \in Some} \cup (Some \X Some)
             \cup (Subject \X Subject \X Subject) \cup {<<f, f, f, f>> : f \in Subject}

Doc(facts, readable, named, method) ==
  [readable |-> readable, named |-> named, method |-> method, facts |-> facts]
MCDocuments ==
  {Doc(facts, TRUE, TRUE, "static") : facts \in MCFacts}
    \cup {Doc(<<f>>, TRUE, TRUE, "native") : f \in Subject}
    \cup {Doc(<<f>>, readable, ~readable, "static") : f \in Subject, readable \in BOOLEAN}
MCInputs ==
  {[security |-> [orders |-> s, me |-> "public"], trust |-> TRUE] :
     s \in {"required", "optional", "public", "unstated"}}
    \cup {[security |-> [orders |-> "unstated", me |-> "public"], trust |-> FALSE]}

VARIABLE part  \* the component a behaviour is of

MCInit ==
  /\ part \in {"discovery", "adapters"}
  /\ IF part = "discovery" THEN TRUE ELSE enable = Sources
  /\ IF part = "adapters" THEN TRUE ELSE input = CHOOSE i \in MCInputs : TRUE
  /\ Init /\ A!Init

MCNext ==
  \/ part = "discovery" /\ Next /\ UNCHANGED <<part, adapterVars>>
  \/ part = "adapters" /\ A!Next /\ UNCHANGED <<part, vars>>

MCSpec ==
  /\ MCInit /\ [][MCNext]_<<part, vars, adapterVars>>
  /\ WF_vars(part = "discovery" /\ Steps)

-----------------------------------------------------------------------------
\* Every discovery pass ends, whatever the target answers.
DiscoveryEnds == part = "discovery" => PassEnds
=============================================================================
