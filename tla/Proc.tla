-------------------------------- MODULE Proc --------------------------------
(***************************************************************************)
(* proc.Run (internal/proc): one program under supervision.                *)
(*                                                                         *)
(* Four goroutines take part: the caller, one copier for each of the two   *)
(* pipes, and the watcher os/exec starts, which calls cmd.Cancel once the  *)
(* context is done. Opposite them are the child and the helpers it starts, *)
(* which write, close, exit and fork as they like; a helper may leave the  *)
(* child's process group. A pipe reaches its end only when no process      *)
(* holds it open for writing, and os/exec closes the reading ends only in  *)
(* Wait, which the caller enters after both copiers are done.              *)
(*                                                                         *)
(* Output is abstracted to how much of it there is.                        *)
(***************************************************************************)
EXTENDS Naturals, FiniteSets

CONSTANTS
  Helpers,    \* processes the child may start
  Escaping,   \* those that may leave the process group (setsid)
  Capacity,   \* how much a pipe holds before its writers block
  Limit,      \* maxOut and maxErr, a function of the streams
  MaxWrites   \* bound: how much is written to a stream

Streams == {"stdout", "stderr"}
Child == "child"
Processes == Helpers \cup {Child}

ProcAssumption ==
  /\ Child \notin Helpers
  /\ Escaping \subseteq Helpers
  /\ Capacity \in Nat \ {0}
  /\ Limit \in [Streams -> Nat]
  /\ MaxWrites \in Nat

VARIABLES
  caller,    \* how far Run is
  copier,    \* the state of copyBounded for each stream
  kept,      \* what its buffer holds
  truncated, \* what it reports
  ctx,       \* runCtx.Err()
  watcher,   \* whether cmd.Cancel has been called
  result,    \* how Run returned
  proc,      \* the state of each process
  group,     \* the processes in the child's group
  holds,     \* for each stream the processes that can write to it
  pipe,      \* how much the pipe holds
  wrote      \* how much has been written to the stream

supervisor == <<caller, copier, kept, truncated, ctx, watcher, result>>
program == <<proc, group, holds, pipe, wrote>>
vars == <<supervisor, program>>

Init ==
  /\ caller = "starting"
  /\ copier = [s \in Streams |-> "copying"]
  /\ kept = [s \in Streams |-> 0]
  /\ truncated = [s \in Streams |-> FALSE]
  /\ ctx = "none"
  /\ watcher = "watching"
  /\ result = "none"
  /\ proc = [p \in Processes |-> "none"]
  /\ group = {}
  /\ holds = [s \in Streams |-> {}]
  /\ pipe = [s \in Streams |-> 0]
  /\ wrote = [s \in Streams |-> 0]

-----------------------------------------------------------------------------
(* The program.                                                            *)

Alive(p) == proc[p] = "alive"
WithoutHolder(p) == [s \in Streams |-> holds[s] \ {p}]

\* A write that does not fit blocks: the process does nothing else until it does. Here it
\* is a write that has not happened yet.
Write(p, s) ==
  /\ Alive(p) /\ p \in holds[s] /\ pipe[s] < Capacity /\ wrote[s] < MaxWrites
  /\ pipe' = [pipe EXCEPT ![s] = @ + 1]
  /\ wrote' = [wrote EXCEPT ![s] = @ + 1]
  /\ UNCHANGED <<supervisor, proc, group, holds>>

Close(p, s) ==
  /\ Alive(p) /\ p \in holds[s]
  /\ holds' = [holds EXCEPT ![s] = @ \ {p}]
  /\ UNCHANGED <<supervisor, proc, group, pipe, wrote>>

Fork(p, h) ==
  /\ Alive(p) /\ proc[h] = "none"
  /\ proc' = [proc EXCEPT ![h] = "alive"]
  /\ group' = IF p \in group THEN group \cup {h} ELSE group
  /\ holds' = [s \in Streams |-> IF p \in holds[s] THEN holds[s] \cup {h} ELSE holds[s]]
  /\ UNCHANGED <<supervisor, pipe, wrote>>

Escape(h) ==
  /\ Alive(h) /\ h \in group \cap Escaping
  /\ group' = group \ {h}
  /\ UNCHANGED <<supervisor, proc, holds, pipe, wrote>>

Exit(p) ==
  /\ Alive(p)
  /\ \E how \in {"ok", "failed"} : proc' = [proc EXCEPT ![p] = how]
  /\ holds' = WithoutHolder(p)
  /\ UNCHANGED <<supervisor, group, pipe, wrote>>

-----------------------------------------------------------------------------
(* The supervisor.                                                         *)

\* cmd.Start fails: Run returns an error that is no ExitError.
CannotStart ==
  /\ caller = "starting"
  /\ caller' = "returned"
  /\ result' = "unstarted"
  /\ UNCHANGED <<copier, kept, truncated, ctx, watcher, program>>

Start ==
  /\ caller = "starting" /\ ctx = "none"
  /\ caller' = "copying"
  /\ proc' = [proc EXCEPT ![Child] = "alive"]
  /\ group' = {Child}
  /\ holds' = [s \in Streams |-> {Child}]
  /\ UNCHANGED <<copier, kept, truncated, ctx, watcher, result, pipe, wrote>>

\* The timer of runCtx, and the caller of Run: the first of them is what Err() says.
Expire ==
  /\ caller # "returned" /\ ctx = "none"
  /\ ctx' = "deadline"
  /\ UNCHANGED <<caller, copier, kept, truncated, watcher, result, program>>

Cancelled ==
  /\ caller # "returned" /\ ctx = "none"
  /\ ctx' = "cancelled"
  /\ UNCHANGED <<caller, copier, kept, truncated, watcher, result, program>>

\* cmd.Cancel: SIGKILL to the group, which exists as long as nobody waited for the child.
\* (LeaderOnly: the fault of leaving os/exec's own Cancel in place.)
LeaderOnly == {Child}
Killed == group

Kill ==
  LET dead == {p \in Killed : Alive(p)} IN
  /\ watcher = "watching" /\ ctx # "none" /\ caller \in {"copying", "waiting"}
  /\ watcher' = "called"
  /\ proc' = [p \in Processes |-> IF p \in dead THEN "killed" ELSE proc[p]]
  /\ holds' = [s \in Streams |-> holds[s] \ dead]
  /\ UNCHANGED <<caller, copier, kept, truncated, ctx, result, group, pipe, wrote>>

\* The copiers exist once the child does.
Started == caller # "starting" /\ result # "unstarted"

\* copyBounded reads up to one more than the limit and keeps the limit, then goes on
\* reading and keeps nothing. (Stop: the fault of not draining; AtLimit: that of taking a
\* full buffer for a cut one.)
Stop(s) == copier[s] = "copying"
Reads(s) == copier[s] \in {"copying", "draining"}
AtLimit(s) == kept[s] + 1 >= Limit[s]
Overflows(s) == kept[s] + 1 > Limit[s]

\* (NoTruncate: the fault of keeping the byte that showed there was more.)
NoTruncate(s) == kept[s] + 1
Buffered(s) == IF Overflows(s) THEN Limit[s] ELSE kept[s] + 1

Copy(s) ==
  /\ Started /\ Reads(s) /\ pipe[s] > 0
  /\ pipe' = [pipe EXCEPT ![s] = @ - 1]
  /\ copier' = [copier EXCEPT ![s] = IF Overflows(s) THEN "draining" ELSE @]
  /\ kept' = [kept EXCEPT ![s] = Buffered(s)]
  /\ UNCHANGED <<caller, truncated, ctx, watcher, result, proc, group, holds, wrote>>

EndOfFile(s) == pipe[s] = 0 /\ holds[s] = {}

CopyEnds(s) ==
  /\ Started /\ copier[s] # "done" /\ EndOfFile(s)
  /\ copier' = [copier EXCEPT ![s] = "done"]
  /\ truncated' = [truncated EXCEPT ![s] = copier[s] = "draining"]
  /\ UNCHANGED <<caller, kept, ctx, watcher, result, program>>

\* <-done, twice.
BothCopied ==
  /\ caller = "copying" /\ \A s \in Streams : copier[s] = "done"
  /\ caller' = "waiting"
  /\ UNCHANGED <<copier, kept, truncated, ctx, watcher, result, program>>

\* The tests after Wait. (ExitFirst: the fault of looking at the exit status first.)
ExitFirst ==
  IF proc[Child] # "ok" THEN "exit"
  ELSE IF ctx = "deadline" THEN "timeout" ELSE IF ctx = "cancelled" THEN "cancelled" ELSE "ok"
Verdict ==
  IF ctx = "deadline" THEN "timeout"
  ELSE IF ctx = "cancelled" THEN "cancelled"
  ELSE IF proc[Child] # "ok" THEN "exit" ELSE "ok"

\* cmd.Wait, and Run returns.
Return ==
  /\ caller = "waiting" /\ ~Alive(Child)
  /\ caller' = "returned"
  /\ result' = Verdict
  /\ UNCHANGED <<copier, kept, truncated, ctx, watcher, program>>

Supervise ==
  \/ CannotStart \/ Start \/ BothCopied \/ Return
  \/ Kill
  \/ \E s \in Streams : Copy(s) \/ CopyEnds(s)

Run ==
  \/ \E p \in Processes, s \in Streams : Write(p, s) \/ Close(p, s)
  \/ \E p \in Processes, h \in Helpers : Fork(p, h)
  \/ \E h \in Helpers : Escape(h)
  \/ \E p \in Processes : Exit(p)

Next == Supervise \/ Expire \/ Cancelled \/ Run

Go == CannotStart \/ Start \/ BothCopied \/ Return
Drain(s) == Copy(s) \/ CopyEnds(s)

\* Each goroutine goes on when it can and the timer fires. The program does as it likes.
Fairness ==
  /\ WF_vars(Go) /\ WF_vars(Kill) /\ WF_vars(Expire)
  /\ \A s \in Streams : WF_vars(Drain(s))

Spec == Init /\ [][Next]_vars /\ Fairness

-----------------------------------------------------------------------------
(* Properties.                                                             *)

TypeOK ==
  /\ caller \in {"starting", "copying", "waiting", "returned"}
  /\ copier \in [Streams -> {"copying", "draining", "done"}]
  /\ kept \in [Streams -> Nat] /\ \A s \in Streams : kept[s] <= Limit[s]
  /\ truncated \in [Streams -> BOOLEAN]
  /\ ctx \in {"none", "deadline", "cancelled"}
  /\ watcher \in {"watching", "called"}
  /\ result \in {"none", "unstarted", "timeout", "cancelled", "exit", "ok"}
  /\ proc \in [Processes -> {"none", "alive", "ok", "failed", "killed"}]
  /\ group \subseteq Processes
  /\ holds \in [Streams -> SUBSET Processes]
  /\ pipe \in [Streams -> 0 .. Capacity]
  /\ wrote \in [Streams -> 0 .. MaxWrites]

\* What Run hands back is all the program wrote, or exactly the limit of it and marked
\* truncated: killed, closed early or written by a helper, nothing is lost unmarked, and
\* output of exactly the limit is whole.
OutputWholeOrMarked ==
  caller = "returned" /\ result # "unstarted" =>
    \A s \in Streams :
      /\ truncated[s] = (wrote[s] > Limit[s])
      /\ kept[s] = (IF truncated[s] THEN Limit[s] ELSE wrote[s])

\* A child that was killed is reported as timed out or cancelled, never as having exited;
\* one that was not is never left behind alive.
StopIsReported ==
  /\ proc[Child] = "killed" /\ caller = "returned" => result \in {"timeout", "cancelled"}
  /\ caller = "returned" => ~Alive(Child)

\* Once the watcher has acted no process of the group is alive, though the child itself may
\* have ended before. (proc.go:105-106: "Its own
\* process group, so cancellation kills descendants rather than orphaning a browser, a JVM
\* or a helper daemon.")
GroupDiesTogether ==
  watcher = "called" => \A p \in group : ~Alive(p)

\* What Run reports is what happened to the process and to all it wrote, and nothing of its
\* group is alive behind a stop.
ResultIsTrue ==
  /\ TypeOK
  /\ OutputWholeOrMarked
  /\ StopIsReported
  /\ GroupDiesTogether

\* A writer is never left blocked on a full pipe, also past the limit. (proc.go:222-224: the
\* rest is drained "so a writing child is not left blocked on a full pipe".)
WritersMove == \A s \in Streams : pipe[s] = Capacity ~> pipe[s] < Capacity

\* Run returns, whatever the child and its helpers do. (proc.go:107: "WaitDelay, so a
\* child that closes neither pipe cannot hold Wait forever.")
Returns == <>(caller = "returned")
=============================================================================
