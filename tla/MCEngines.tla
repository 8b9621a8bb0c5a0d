----------------------------- MODULE MCEngines -----------------------------
(***************************************************************************)
(* An instance of Engines. Scanner and Proc are checked side by side: a    *)
(* behaviour of this module is a behaviour of one of them, and the other   *)
(* rests in an initial state.                                              *)
(*                                                                         *)
(* Scanner: the three engines in the order of the registry, of which a run *)
(* enables at most two. One item fits on stdout and two observations are   *)
(* imported, and the engines write up to three items: both limits are met  *)
(* exactly and passed, and of two results one may be without a rule. Proc: *)
(* a child and one helper. A pipe holds one unit; of two are kept on       *)
(* stdout and one on stderr; three can be written, so that each limit is   *)
(* met exactly and passed.                                                 *)
(***************************************************************************)
EXTENDS Engines

MCOrder == <<"nuclei", "zap", "sast">>

MCInput(enabled, present, profile, active, signed, allowUnsigned, source, stdout) ==
  [enabled |-> enabled, present |-> present, profile |-> profile, active |-> active,
   templates |-> 2, signed |-> signed, allowUnsigned |-> allowUnsigned, source |-> source,
   stdout |-> stdout]

\* One engine in every configuration it looks at, and pairs of working engines.
Nuclei ==
  {MCInput({"nuclei"}, EngineIds, profile, FALSE, signed, allowUnsigned, FALSE, stdout) :
     profile \in DOMAIN Rank, signed \in {0, 1}, allowUnsigned \in BOOLEAN, stdout \in {{}, EngineIds}}
Zap ==
  {MCInput({"zap"}, EngineIds, profile, active, 1, FALSE, FALSE, stdout) :
     profile \in DOMAIN Rank, active \in BOOLEAN, stdout \in {{}, EngineIds}}
Sast ==
  {MCInput({"sast"}, EngineIds, profile, FALSE, 1, FALSE, source, stdout) :
     profile \in DOMAIN Rank, source \in BOOLEAN, stdout \in {{}, EngineIds}}
Together ==
  {MCInput(pair, present, "intrusive", TRUE, 1, FALSE, TRUE, stdout) :
     pair \in {{"nuclei", "zap"}, {"zap", "sast"}}, present \in {EngineIds, {"zap"}},
     stdout \in {{"nuclei"}, {"zap", "sast"}}}
MCInputs == Nuclei \cup Zap \cup Sast \cup Together

-----------------------------------------------------------------------------
MCLimit == [stdout |-> 2, stderr |-> 1]

VARIABLE part  \* the component a behaviour is of

MCInit ==
  /\ part \in {"engines", "process"}
  /\ IF part = "engines" THEN input \in Inputs ELSE input = CHOOSE i \in Together : TRUE
  /\ Init /\ P!Init

MCNext ==
  \/ part = "engines" /\ Next /\ UNCHANGED <<part, supervision>>
  \/ part = "process" /\ P!Next /\ UNCHANGED <<part, vars>>

\* The fairness of each module, asked of the behaviours that are its own.
MCFairness ==
  /\ WF_vars(part = "engines" /\ Supervise)
  /\ WF_vars(part = "engines" /\ Expire)
  /\ \A e \in EngineIds : WF_vars(part = "engines" /\ Kill(e))
  /\ WF_supervision(part = "process" /\ P!Go)
  /\ WF_supervision(part = "process" /\ P!Kill)
  /\ WF_supervision(part = "process" /\ P!Expire)
  /\ \A s \in P!Streams : WF_supervision(part = "process" /\ P!Drain(s))

MCSpec == MCInit /\ [][MCNext]_<<part, vars, supervision>> /\ MCFairness

-----------------------------------------------------------------------------
\* Whatever the engines do RunAll ends, and proc.Run returns and leaves no writer blocked on
\* a full pipe, whatever a child and its helpers do inside their process group.
EverythingEnds ==
  /\ part = "engines" => Terminates
  /\ part = "process" => P!Returns /\ P!WritersMove
=============================================================================
