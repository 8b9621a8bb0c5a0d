------------------------------- MODULE MCRun -------------------------------
(***************************************************************************)
(* An instance of Run. Store, Pipeline, Reporting and Client are checked   *)
(* side by side: a behaviour of this module is a behaviour of one of them, *)
(* and the others rest in an initial state.                                *)
(*                                                                         *)
(* Store: three workers and two exchanges, one that all three captured,    *)
(* which the second meets again after another, and one that only two have. *)
(* Pipeline: two well-known paths, so that two probes meet different       *)
(* answers, at most two kinds of finding, and as thresholds the empty one, *)
(* both ends of the scale of findings, the severity without a rank and a   *)
(* misspelling. Reporting: one operation check and two cross-owner units   *)
(* that differ in the acting identity only (so their findings tie), two    *)
(* identities, two engines. Client: two callers, one of which requests any *)
(* of twelve URLs, one for each ground CheckURL has to refuse or grant;    *)
(* names that resolve to nothing, to any address or to a good one and any  *)
(* other; bodies below, at and above the limit.                            *)
(***************************************************************************)
EXTENDS Run, Naturals, FiniteSets

MCWorkers == {"w1", "w2", "w3"}
MCDigests == {"a", "b"}
MCExchanges == [w1 |-> <<"a">>, w2 |-> <<"a", "b", "a">>, w3 |-> <<"b", "a">>]

-----------------------------------------------------------------------------
MCUnit(dim, check, resource, who) ==
  [dim |-> dim, subject |-> "GET /orders/{id}", check |-> check, resource |-> resource, who |-> who]
MCUnits ==
  {MCUnit("operation", "auth-required", "", "alice"),
   MCUnit("ownership", "cross-owner-read", "order", "alice"),
   MCUnit("ownership", "cross-owner-read", "order", "bob")}

MCRankOrder ==
  <<<<"", "nuclei">>, <<"", "zap">>, <<"GET /orders/{id}", "auth-required">>,
    <<"GET /orders/{id}", "cross-owner-read">>>>

MCOutcome(status, covers, observed) == [status |-> status, covers |-> covers, observed |-> observed]
Skip == MCOutcome("skipped", FALSE, 0)

MCInput(nuclei, zap, paths, attempted, incomplete, adapterOps, merges, failures) ==
  [engines |-> [e \in {"nuclei", "zap"} |-> IF e = "nuclei" THEN nuclei ELSE zap],
   discovered |-> paths, attempted |-> attempted, incomplete |-> incomplete,
   adapterOps |-> adapterOps, merges |-> merges, adapterFailures |-> failures]

\* Nothing enabled; both engines complete; one is partial, one blocked; an adapter that found
\* an operation of its own, without discovery; an adapter that failed next to one that did not.
MCInputs ==
  {MCInput(Skip, Skip, {}, FALSE, FALSE, {}, {}, {}),
   MCInput(MCOutcome("completed", TRUE, 1), MCOutcome("completed", TRUE, 0),
           {"/admin"}, TRUE, TRUE, {}, {"conflict"}, {}),
   MCInput(MCOutcome("partial", FALSE, 1), MCOutcome("completed", FALSE, 0),
           {}, TRUE, FALSE, {}, {"new"}, {"rails"}),
   MCInput(Skip, MCOutcome("blocked", FALSE, 0), {}, FALSE, FALSE, {"GET /debug"}, {}, {})}

-----------------------------------------------------------------------------
MCURL(scheme, host, port, path) ==
  [scheme |-> scheme, user |-> FALSE, host |-> host, port |-> port, path |-> path]
MCHost == <<"a", ".", "t">>
MCPrefix == <<"/", "a">>
MCLoopback == MCURL("http", <<"1">>, 9200, <<>>)
MCUrls ==
  {MCURL("https", MCHost, 0, MCPrefix \o <<"/", "x">>), MCURL("https", MCHost, 0, <<>>),
   MCURL("https", <<"A", ".", "T", ".">>, 443, MCPrefix),
   MCURL("https", <<"a", ".">> \o MCHost, 0, MCPrefix),
   MCURL("https", <<".", "t">>, 0, MCPrefix),
   MCURL("https", MCHost, 9200, MCPrefix), MCURL("https", MCHost, 70000, MCPrefix),
   MCURL("http", MCHost, 443, MCPrefix), MCURL("ftp", MCHost, 0, MCPrefix),
   [MCURL("https", MCHost, 0, MCPrefix) EXCEPT !.user = TRUE],
   MCLoopback, MCURL("http", <<"9">>, 0, <<>>)}

MCEntry(scheme, host, ports, prefix) ==
  [scheme |-> scheme, host |-> host, ports |-> ports, prefix |-> prefix]
MCEntries ==
  {MCEntry("https", <<"*", ".", "t">>, {}, MCPrefix),
   MCEntry("", <<"1">>, {80, 9200}, <<>>), MCEntry("", <<"9">>, {}, <<>>)}

MCAddress(host, mapped, zoned) == [reaches |-> host, mapped |-> mapped, zoned |-> zoned]
MCServer == MCAddress("server", TRUE, FALSE)
MCAddresses ==
  {MCServer, MCAddress("server", FALSE, FALSE), MCAddress("loopback", FALSE, FALSE),
   MCAddress("loopback", FALSE, TRUE), MCAddress("metadata", FALSE, FALSE),
   MCAddress("metadata", TRUE, FALSE)}
MCKind == [server |-> "public", loopback |-> "private", metadata |-> "denied"]
MCLiterals ==
  [h \in {<<"1">>, <<"9">>} |->
     MCAddress(IF h = <<"1">> THEN "loopback" ELSE "metadata", FALSE, FALSE)]
MCResolutions ==
  {<<>>} \cup {<<a>> : a \in MCAddresses} \cup {<<MCServer, a>> : a \in MCAddresses}

MCThresholds == {"", "low", "high", "unassessed", "severe"}
MCUrlsOf == [c \in {"c1", "c2"} |-> IF c = "c1" THEN MCUrls ELSE {MCLoopback}]

VARIABLE part  \* the component a behaviour is of

MCInit ==
  /\ part \in {"store", "scan", "report", "client"}
  /\ IF part = "scan" THEN TRUE
     ELSE reachable = TRUE /\ cfg = CHOOSE c \in P!Configurations : TRUE
  /\ IF part = "report" THEN TRUE
     ELSE /\ input = CHOOSE i \in Inputs : TRUE
          /\ standing = [i \in Identities |-> CHOOSE s \in R!Standings : s.live = "unknown"]
  /\ Init /\ P!Init /\ R!Init /\ L!Init

MCNext ==
  \/ part = "store" /\ Next /\ UNCHANGED <<part, scan, account, client>>
  \/ part = "scan" /\ P!Next /\ UNCHANGED <<part, vars, account, client>>
  \/ part = "report" /\ R!Next /\ UNCHANGED <<part, vars, scan, client>>
  \/ part = "client" /\ L!Next /\ UNCHANGED <<part, vars, scan, account>>

MCSpec ==
  /\ MCInit /\ [][MCNext]_<<part, vars, scan, account, client>>
  /\ WF_scan(part = "scan" /\ P!Steps)
  /\ WF_client(part = "client" /\ L!Tick)
  /\ \A c \in Callers : WF_client(part = "client" /\ L!Do(c))

-----------------------------------------------------------------------------
\* Every run ends: no combination of probes, refusals and failed writes keeps it going. And
\* every request returns, also one that waits for its turn when the client is closed.
Terminates ==
  /\ part = "scan" => P!Terminates
  /\ part = "client" => L!RequestsReturn
=============================================================================
