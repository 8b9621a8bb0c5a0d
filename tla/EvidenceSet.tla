---------------------------- MODULE EvidenceSet ----------------------------
(***************************************************************************)
(* What the run directory promises of the exchanges handed to it, with no  *)
(* goroutine, temporary file or system call in sight: each exchange is     *)
(* taken once, and what is taken is either kept or stated lost, never both *)
(* and never neither by the time the report is drawn up. References may be *)
(* given out for anything taken, kept already or not.                      *)
(*                                                                         *)
(* Module Store implements this specification (RunProofs proves it for any *)
(* workers and exchanges, the run "scan" checks it).                       *)
(***************************************************************************)
CONSTANT Digests

VARIABLES
  taken,     \* the exchanges somebody has taken charge of
  kept,      \* those whose file stands
  lost,      \* those stated to be lost
  promised,  \* those a reference was given out for
  report,    \* what the report says of them, once closed
  closed,    \* no exchange is taken any more
  down       \* the machine lost its power, and files with it

vars == <<taken, kept, lost, promised, report, closed, down>>

Pending == taken \ (kept \cup lost)

Init ==
  /\ taken = {} /\ kept = {} /\ lost = {} /\ promised = {}
  /\ report = [refs |-> {}, failures |-> {}]
  /\ closed = FALSE
  /\ down = FALSE

Working == ~closed /\ ~down

Take(d) ==
  /\ Working
  /\ d \notin taken
  /\ taken' = taken \cup {d}
  /\ UNCHANGED <<kept, lost, promised, report, closed, down>>

Keep(d) ==
  /\ Working
  /\ d \in Pending
  /\ kept' = kept \cup {d}
  /\ UNCHANGED <<taken, lost, promised, report, closed, down>>

Lose(d) ==
  /\ Working
  /\ d \in Pending
  /\ lost' = lost \cup {d}
  /\ UNCHANGED <<taken, kept, promised, report, closed, down>>

Promise(d) ==
  /\ Working
  /\ d \in taken
  /\ promised' = promised \cup {d}
  /\ UNCHANGED <<taken, kept, lost, report, closed, down>>

Close ==
  /\ Working
  /\ Pending = {}
  /\ report' = [refs |-> promised, failures |-> lost]
  /\ closed' = TRUE
  /\ UNCHANGED <<taken, kept, lost, promised, down>>

PowerLoss ==
  /\ ~down
  /\ down' = TRUE
  /\ kept' \in SUBSET kept
  /\ UNCHANGED <<taken, lost, promised, report, closed>>

Next ==
  \/ \E d \in Digests : Take(d) \/ Keep(d) \/ Lose(d) \/ Promise(d)
  \/ Close
  \/ PowerLoss

Spec == Init /\ [][Next]_vars

-----------------------------------------------------------------------------
\* While there is power, an exchange stated lost has no file, and the report states exactly
\* the losses there are: what it refers to and does not state lost is there.
StatesWhatIs ==
  ~down =>
    /\ kept \cap lost = {}
    /\ closed => /\ report.failures = lost
                 /\ report.refs \subseteq kept \cup lost
=============================================================================
