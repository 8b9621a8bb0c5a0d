------------------------------- MODULE Engines -------------------------------
(***************************************************************************)
(* External engines: RunAll over the registry (module Scanner), and the    *)
(* supervision each engine's process is under (module Proc). To Scanner a  *)
(* process is something that writes, ends or is killed; Proc is what makes *)
(* it so. The two share no state.                                          *)
(***************************************************************************)
EXTENDS Scanner

CONSTANTS Helpers, Escaping, Capacity, Limit, MaxWrites
VARIABLES caller, copier, kept, truncated, ctx, watcher, result, proc, group, holds, pipe, wrote

supervision ==
  <<caller, copier, kept, truncated, ctx, watcher, result, proc, group, holds, pipe, wrote>>

P == INSTANCE Proc

ASSUME ProcConstants == P!ProcAssumption

\* What proc.Run reports is what happened to the process and to all it wrote, and nothing of
\* its group is alive behind a stop.
ResultIsTrue == P!ResultIsTrue
=============================================================================
