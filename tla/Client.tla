------------------------------- MODULE Client -------------------------------
(***************************************************************************)
(* internal/httpx with internal/scope: the one way to the network.         *)
(*                                                                         *)
(* Several goroutines call Do. A request waits for the limiter, passes the *)
(* gate on its URL, has its host resolved, passes the gate on every        *)
(* resolved address, tries the addresses one after the other, is sent over *)
(* a connection that reached the address it was evaluated for, and reads a *)
(* bounded body. Meanwhile the context may be cancelled and the client     *)
(* closed.                                                                 *)
(*                                                                         *)
(* The target is the adversary: it names the URLs (in redirects, links and *)
(* specifications), answers each lookup of its names differently, and      *)
(* sends bodies of any length. A name or a path is a sequence of           *)
(* characters, an address the host it reaches and the way it is written.   *)
(***************************************************************************)
EXTENDS Integers, Sequences, FiniteSets, SequencesExt

CONSTANTS
  Callers,
  Urls,          \* [scheme, user, host, port, path]; port Unstated if there is none
  UrlsOf,        \* those each caller is given or finds
  Entries,       \* the allowlist: [scheme, host, ports, prefix]
  AllowPrivate,  \* scope.allowPrivateAddresses
  Addresses,     \* [reaches, mapped, zoned]: ::ffff:a.b.c.d and a%eth0 reach a host too
  Kind,          \* of each host reached: "denied", "private" or "public"
  Literals,      \* the address a host literal of a URL names, by host
  Resolutions,   \* what a resolver may answer: sequences of addresses
  Lengths,       \* lengths of response bodies
  MaxBodyBytes, TruncationTail,
  Paced,         \* RequestsPerSecond > 0
  MaxRequests    \* bound: how many requests each caller makes

Unstated == 0
Reachable == {a.reaches : a \in Addresses}

ClientAssumption ==
  /\ MaxBodyBytes \in Nat \ {0} /\ TruncationTail \in Nat /\ Lengths \subseteq Nat
  /\ AllowPrivate \in BOOLEAN /\ Paced \in BOOLEAN /\ MaxRequests \in Nat
  /\ Kind \in [Reachable -> {"denied", "private", "public"}]
  /\ Urls # {} /\ UrlsOf \in [Callers -> SUBSET Urls]
  /\ Urls \subseteq [scheme : STRING, user : BOOLEAN, host : Seq(STRING), port : Nat,
                     path : Seq(STRING)]
  /\ Entries \subseteq [scheme : STRING, host : Seq(STRING), ports : SUBSET Nat,
                        prefix : Seq(STRING)]
  /\ Resolutions \subseteq Seq(Addresses)
  /\ \A h \in DOMAIN Literals : Literals[h] \in Addresses

VARIABLES
  step,       \* where each caller is in Do
  url,        \* the URL of its request
  left,       \* how many more requests it makes
  candidates, \* the evaluated addresses it has not tried
  trace,      \* what its request has put on the network: a lookup, the hosts it tried to
              \* connect to, the host it was sent to
  result,     \* what Do returned last
  tick,       \* whether the ticker's channel holds a tick
  closed,     \* Close was called
  cancelled,  \* ctx.Err() # nil
  recorded    \* Policy.recorded

vars == <<step, url, left, candidates, trace, result, tick, closed, cancelled, recorded>>
shared == <<tick, closed, cancelled, recorded>>

Nowhere == "nowhere"
Quiet == [looked |-> FALSE, resolved |-> <<>>, dialled |-> {}, sent |-> Nowhere]
NoResult == [kind |-> "none", length |-> 0, body |-> 0, truncated |-> FALSE]
Failed(kind) == [NoResult EXCEPT !.kind = kind]

Init ==
  /\ step = [c \in Callers |-> "idle"]
  /\ url \in [Callers -> {CHOOSE u \in Urls : TRUE}]
  /\ left = [c \in Callers |-> MaxRequests]
  /\ candidates = [c \in Callers |-> <<>>]
  /\ trace = [c \in Callers |-> Quiet]
  /\ result = [c \in Callers |-> NoResult]
  /\ tick = FALSE
  /\ closed = FALSE
  /\ cancelled = FALSE
  /\ recorded = {}

-----------------------------------------------------------------------------
(* internal/scope.                                                         *)

\* normalizeHost: one trailing dot goes, letters become small.
Small(ch) == IF ch = "A" THEN "a" ELSE IF ch = "T" THEN "t" ELSE ch
Normal(h) ==
  LET bare == IF h # <<>> /\ Last(h) = "." THEN Front(h) ELSE h
  IN [i \in DOMAIN bare |-> Small(bare[i])]

\* hostMatches. (AnySubdomain: the fault of a wildcard that takes any number of labels.)
Wildcard == <<"*", ".">>
Label(entry, h) ==
  LET suffix == Tail(entry)  \* with its dot
  IN SubSeq(h, 1, Len(h) - Len(suffix))
AnySubdomain(entry, h) ==
  \/ entry = h
  \/ IsPrefix(Wildcard, entry) /\ IsSuffix(Tail(entry), h) /\ Label(entry, h) # <<>>
HostMatches(entry, h) ==
  \/ entry = h
  \/ /\ IsPrefix(Wildcard, entry)
     /\ IsSuffix(Tail(entry), h)
     /\ Label(entry, h) # <<>>
     /\ ~ Contains(Label(entry, h), ".")

DefaultPort(scheme) == IF scheme = "https" THEN 443 ELSE 80
EffectivePort(u) == IF u.port = Unstated THEN DefaultPort(u.scheme) ELSE u.port

\* portMatches. (AnyPort: the fault of an entry without ports that grants them all.)
AnyPort(e, scheme, port) == e.ports = {} \/ port \in e.ports
PortMatches(e, scheme, port) ==
  IF e.ports = {} THEN port = DefaultPort(scheme) ELSE port \in e.ports

PathOrRoot(u) == IF u.path = <<>> THEN <<"/">> ELSE u.path

Grants(e, u) ==
  /\ HostMatches(e.host, Normal(u.host))
  /\ e.scheme \in {"", u.scheme}
  /\ PortMatches(e, u.scheme, EffectivePort(u))
  /\ IsPrefix(e.prefix, PathOrRoot(u))

\* What CheckURL refuses before it looks at the allowlist, and notes nowhere.
Unusable(u) ==
  \/ u.scheme \notin {"http", "https"}
  \/ u.user
  \/ Normal(u.host) = <<>>
  \/ EffectivePort(u) \notin 1 .. 65535

CheckURL(u) == ~ Unusable(u) /\ \E e \in Entries : Grants(e, u)

\* CheckAddr. (AsWritten: the fault of not unwrapping ::ffff:a.b.c.d, which no IPv4
\* range holds.)
Permits(kind) == kind = "public" \/ (kind = "private" /\ AllowPrivate)
AsWritten(a) == a.mapped \/ Permits(Kind[a.reaches])
CheckAddr(a) == Permits(Kind[a.reaches])

-----------------------------------------------------------------------------
(* Do.                                                                     *)

Goto(c, from, to) ==
  /\ step[c] = from
  /\ step' = [step EXCEPT ![c] = to]

Return(c, from, r) ==
  /\ Goto(c, from, "idle")
  /\ result' = [result EXCEPT ![c] = r]

\* A caller makes a request of whatever URL it was given or has found.
Begin(c, u) ==
  /\ left[c] > 0
  /\ Goto(c, "idle", "wait")
  /\ left' = [left EXCEPT ![c] = @ - 1]
  /\ url' = [url EXCEPT ![c] = u]
  /\ trace' = [trace EXCEPT ![c] = Quiet]
  /\ candidates' = [candidates EXCEPT ![c] = <<>>]
  /\ result' = [result EXCEPT ![c] = NoResult]
  /\ UNCHANGED shared

\* Close closes a channel of its own, for the ticker's stays open. (NotReleased: the fault
\* of stopping the ticker and nothing more.)
NotReleased == FALSE
Released == closed

\* limiter.wait: select takes any case that is ready.
Wait(c) ==
  /\ \/ /\ ~Paced \/ Released
        /\ Goto(c, "wait", "gate")
        /\ UNCHANGED <<result, tick>>
     \/ /\ Paced /\ tick
        /\ Goto(c, "wait", "gate")
        /\ tick' = FALSE
        /\ UNCHANGED result
     \/ /\ Paced /\ cancelled
        /\ Return(c, "wait", Failed("lost"))
        /\ UNCHANGED tick
  /\ UNCHANGED <<url, left, candidates, trace, closed, cancelled, recorded>>

\* The gate on the URL, before any lookup. (LookFirst: the fault of asking it after one.)
LookFirst(c) ==
  /\ Goto(c, "gate", "resolve")
  /\ trace' = [trace EXCEPT ![c].looked = TRUE]
  /\ UNCHANGED <<url, left, candidates, result, shared>>

Gate(c) ==
  /\ \/ /\ CheckURL(url[c])
        /\ Goto(c, "gate", "resolve")
        /\ UNCHANGED <<result, recorded>>
     \/ /\ ~ CheckURL(url[c])
        /\ Return(c, "gate", Failed("refused"))
        /\ recorded' = IF Unusable(url[c]) THEN recorded ELSE recorded \cup {Normal(url[c].host)}
  /\ UNCHANGED <<url, left, candidates, trace, tick, closed, cancelled>>

\* The gate on the addresses. (OnlyTheGood: the fault of passing over what is forbidden.)
OnlyTheGood(addrs) == SelectSeq(addrs, CheckAddr)
Evaluated(addrs) == IF \A i \in DOMAIN addrs : CheckAddr(addrs[i]) THEN addrs ELSE <<>>

\* dialContext up to the first connection: a literal is not looked up, and every address
\* must pass.
Resolve(c) ==
  LET host == url[c].host IN
  \/ /\ ~cancelled
     /\ \E addrs \in IF host \in DOMAIN Literals THEN {<<Literals[host]>>} ELSE Resolutions :
          /\ trace' = [trace EXCEPT ![c].looked = (host \notin DOMAIN Literals),
                                    ![c].resolved = addrs]
          /\ candidates' = [candidates EXCEPT ![c] = Evaluated(addrs)]
          /\ IF Evaluated(addrs) # <<>>
             THEN Goto(c, "resolve", "dial") /\ UNCHANGED result
             ELSE Return(c, "resolve", Failed(IF addrs = <<>> THEN "lost" ELSE "refused"))
     /\ UNCHANGED <<url, left, shared>>
  \/ /\ cancelled \/ host \notin DOMAIN Literals  \* the lookup fails, or is cut off
     /\ trace' = [trace EXCEPT ![c].looked = (host \notin DOMAIN Literals)]
     /\ Return(c, "resolve", Failed("lost"))
     /\ UNCHANGED <<url, left, candidates, shared>>

Chosen(c) == Head(candidates[c]).reaches
Unverifiable == "unverifiable"

\* Whether a connection is used. (TakeIt: the fault of not looking where it went.)
TakeIt(c, landed) == TRUE
Verified(c, landed) == landed = Chosen(c)

\* One attempt: it fails and the next address is tried, unless there is none or the context
\* is over; or it lands somewhere, and the attempts end.
Dial(c) ==
  /\ step[c] = "dial"
  /\ \/ /\ Len(candidates[c]) > 1 /\ ~cancelled
        /\ candidates' = [candidates EXCEPT ![c] = Tail(@)]
        /\ trace' = [trace EXCEPT ![c].dialled = @ \cup {Chosen(c)}]
        /\ UNCHANGED <<step, result>>
     \/ /\ Return(c, "dial", Failed("lost"))
        /\ candidates' = [candidates EXCEPT ![c] = <<>>]
        /\ trace' = [trace EXCEPT ![c].dialled = @ \cup {Chosen(c)}]
     \/ /\ ~cancelled
        /\ candidates' = [candidates EXCEPT ![c] = <<>>]
        /\ \E landed \in Reachable \cup {Unverifiable} :
             /\ IF Verified(c, landed)
                THEN Goto(c, "dial", "await") /\ UNCHANGED result
                ELSE Return(c, "dial", Failed("refused"))
             /\ trace' = [trace EXCEPT ![c].dialled = @ \cup {Chosen(c)},
                                       ![c].sent = IF Verified(c, landed) THEN landed ELSE Nowhere]
  /\ UNCHANGED <<url, left, shared>>

\* readBounded. (JustTheLimit: the fault of reading no byte more than the limit.)
JustTheLimit(n) == [body |-> IF n < MaxBodyBytes THEN n ELSE MaxBodyBytes, truncated |-> FALSE]
ReadBounded(n) ==
  IF n <= MaxBodyBytes THEN [body |-> n, truncated |-> FALSE]
  ELSE [body |-> IF MaxBodyBytes > TruncationTail THEN MaxBodyBytes - TruncationTail
                                                  ELSE MaxBodyBytes,
        truncated |-> TRUE]

\* An answer, of which a redirect is one, or none: the deadline covers the body too.
\* (FollowRedirect: the fault of a client that follows by itself.)
FollowRedirect(c) ==
  /\ Goto(c, "await", "resolve")
  /\ \E u \in Urls : url' = [url EXCEPT ![c] = u]
  /\ UNCHANGED <<left, candidates, trace, result, shared>>

Answer(c) ==
  /\ \/ Return(c, "await", Failed("lost"))
     \/ /\ ~cancelled
        /\ \E n \in Lengths :
             Return(c, "await", [kind |-> "response", length |-> n, body |-> ReadBounded(n).body,
                                 truncated |-> ReadBounded(n).truncated])
  /\ UNCHANGED <<url, left, candidates, trace, shared>>

Do(c) == Wait(c) \/ Gate(c) \/ Resolve(c) \/ Dial(c) \/ Answer(c)

-----------------------------------------------------------------------------
(* Around the callers.                                                     *)

\* The channel holds one tick; a tick that finds it full is dropped.
Tick ==
  /\ Paced /\ ~closed /\ ~tick
  /\ tick' = TRUE
  /\ UNCHANGED <<step, url, left, candidates, trace, result, closed, cancelled, recorded>>

Close ==
  /\ ~closed
  /\ closed' = TRUE
  /\ UNCHANGED <<step, url, left, candidates, trace, result, tick, cancelled, recorded>>

Cancel ==
  /\ ~cancelled
  /\ cancelled' = TRUE
  /\ UNCHANGED <<step, url, left, candidates, trace, result, tick, closed, recorded>>

Over == (\A c \in Callers : step[c] = "idle" /\ left[c] = 0) /\ UNCHANGED vars

Next ==
  \/ \E c \in Callers : Do(c) \/ \E u \in UrlsOf[c] : Begin(c, u)
  \/ Tick \/ Close \/ Cancel \/ Over

\* The ticker ticks, and the client's timeout ends whatever the network does not.
Fairness == WF_vars(Tick) /\ \A c \in Callers : WF_vars(Do(c))

Spec == Init /\ [][Next]_vars /\ Fairness

-----------------------------------------------------------------------------
TypeOK ==
  /\ step \in [Callers -> {"idle", "wait", "gate", "resolve", "dial", "await"}]
  /\ url \in [Callers -> Urls]
  /\ left \in [Callers -> 0 .. MaxRequests]
  /\ candidates \in [Callers -> Seq(Addresses)]
  /\ \A c \in Callers : step[c] = "dial" => candidates[c] # <<>>
  /\ trace \in [Callers -> [looked : BOOLEAN, resolved : Seq(Addresses),
                           dialled : SUBSET Reachable,
                           sent : Reachable \cup {Nowhere, Unverifiable}]]
  /\ result \in [Callers -> [kind : {"none", "response", "lost", "refused"}, length : Nat,
                            body : Nat, truncated : BOOLEAN]]
  /\ tick \in BOOLEAN /\ closed \in BOOLEAN /\ cancelled \in BOOLEAN

\* What the operator meant, by labels: a wildcard stands for one label.
Dots(h) == Cardinality({i \in DOMAIN h : h[i] = "."})
AfterDot(h) == LET dot == CHOOSE i \in DOMAIN h : h[i] = "." /\ \A j \in 1 .. i - 1 : h[j] # "."
               IN SubSeq(h, dot, Len(h))
Names(entry, h) ==
  \/ entry = h
  \/ /\ Head(entry) = "*" /\ Dots(h) = Dots(entry)
     /\ AfterDot(h) = AfterDot(entry) /\ Head(h) # "."
Granted(u) ==
  \E e \in Entries :
    /\ Names(e.host, Normal(u.host))
    /\ e.scheme # "" => e.scheme = u.scheme
    /\ u.port \in e.ports
         \/ (u.port = Unstated /\ DefaultPort(u.scheme) \in e.ports)
         \/ (e.ports = {} /\ u.port \in {Unstated, DefaultPort(u.scheme)})

\* A request is sent only to a URL the operator granted and to a host whose address was
\* evaluated and is permitted, whatever the target's names resolve to and wherever
\* redirects point.
SentWithinScope ==
  \A c \in Callers : trace[c].sent # Nowhere =>
    /\ Granted(url[c])
    /\ trace[c].sent \in Reachable /\ Permits(Kind[trace[c].sent])
    /\ trace[c].sent \in {trace[c].resolved[i].reaches : i \in DOMAIN trace[c].resolved}

\* No connection is tried to a forbidden address, nor to any address of a name that also
\* has a forbidden one.
ForbiddenEndsIt ==
  \A c \in Callers : trace[c].dialled # {} =>
    \A i \in DOMAIN trace[c].resolved : Permits(Kind[trace[c].resolved[i].reaches])

\* A URL outside the scope causes no lookup, and its host is noted if it is usable.
NoTrafficForRefused ==
  \A c \in Callers :
    /\ trace[c].looked => Granted(url[c])
    /\ result[c].kind = "refused" /\ ~ Unusable(url[c]) =>
         Granted(url[c]) \/ Normal(url[c].host) \in recorded

\* A body is whole or says it is not, and never passes the limit.
BodyIsWholeOrSaysSo ==
  \A c \in Callers : result[c].kind = "response" =>
    /\ result[c].body <= MaxBodyBytes
    /\ result[c].truncated <=> result[c].length > MaxBodyBytes
    /\ ~ result[c].truncated => result[c].body = result[c].length
    /\ result[c].truncated /\ MaxBodyBytes > TruncationTail =>
         MaxBodyBytes - result[c].body = TruncationTail

\* The client stays inside the scope, whoever names the URL and whatever is resolved.
NeverLeavesScope ==
  /\ TypeOK
  /\ SentWithinScope
  /\ ForbiddenEndsIt
  /\ NoTrafficForRefused
  /\ BodyIsWholeOrSaysSo

\* Every request returns, also one that waits for its turn when the client is closed.
RequestsReturn == \A c \in Callers : step[c] # "idle" ~> step[c] = "idle"
=============================================================================
