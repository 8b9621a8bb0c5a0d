------------------------------- MODULE Store -------------------------------
(***************************************************************************)
(* The run directory (internal/store) during one run.                      *)
(*                                                                         *)
(* The command creates the directory and writes meta.json and the key,     *)
(* the workers of the engine store evidence under its digest while they    *)
(* run, and when all of them are done the command writes report.json and   *)
(* report.sarif. Every one of these files goes through WriteFile. A step   *)
(* of WriteFile may fail, the process may be killed between two steps, and *)
(* the machine may lose power, which keeps or loses each file and leaves   *)
(* what was not synced torn.                                               *)
(*                                                                         *)
(* An exchange is its digest; a file is how much of it there is.           *)
(***************************************************************************)
EXTENDS Sequences, Functions

CONSTANTS
  Workers,   \* goroutines of engine.Run
  Digests,   \* exchanges that differ
  Exchanges  \* what each worker captured, in order

Command == "command"
Setup == <<"meta.json", "fingerprint.key">>
Output == <<"report.json", "report.sarif">>
Names == Range(Setup) \cup Range(Output) \cup Digests
Writers == Workers \cup {Command}

ASSUME StoreAssumption ==
  /\ Exchanges \in [Workers -> Seq(Digests)]
  /\ Command \notin Workers
  /\ (Range(Setup) \cup Range(Output)) \cap Digests = {}

VARIABLES
  machine, \* "up", "killed" or "powerless"
  phase,   \* how far the command is
  queue,   \* what each writer has still to store, the head being in progress
  step,    \* where in PutEvidence or WriteFile it is
  tmp,     \* its temporary file
  file,    \* what stands under each name of the directory
  seen,    \* Run.seen
  refs,    \* the references PutEvidence returned to each worker
  errors,  \* the errors it returned, by digest
  report   \* what report.json says: its references and its tool failures

vars == <<machine, phase, queue, step, tmp, file, seen, refs, errors, report>>

Nothing == [refs |-> {}, failures |-> {}]

Init ==
  /\ machine = "up"
  /\ phase = "setup"
  /\ queue = [w \in Writers |-> IF w = Command THEN Setup ELSE Exchanges[w]]
  /\ step = [w \in Writers |-> IF w = Command THEN "open" ELSE "put"]
  /\ tmp = [w \in Writers |-> "none"]
  /\ file = [n \in Names |-> "none"]
  /\ seen = {}
  /\ refs = [w \in Workers |-> {}]
  /\ errors = [w \in Workers |-> {}]
  /\ report = Nothing

-----------------------------------------------------------------------------
(* WriteFile.                                                              *)

At(w, s) ==
  /\ machine = "up"
  /\ w \in Workers => phase = "assessing"
  /\ queue[w] # <<>>
  /\ step[w] = s
Name(w) == Head(queue[w])
Goto(w, s) == step' = [step EXCEPT ![w] = s]

\* An early return runs the deferred os.Remove, if the file was created.
Fail(w) == Goto(w, "remove_failed")

\* The path is resolved, its directory made and checked, and a temporary file created.
Open(w) ==
  /\ At(w, "open")
  /\ \/ /\ tmp' = [tmp EXCEPT ![w] = "torn"]
        /\ Goto(w, "fill")
     \/ /\ Goto(w, "failed")
        /\ UNCHANGED tmp
  /\ UNCHANGED <<machine, phase, queue, file, seen, refs, errors, report>>

\* Chmod and Write: what a failed one leaves is in the temporary file only.
Fill(w) ==
  /\ At(w, "fill")
  /\ \/ /\ tmp' = [tmp EXCEPT ![w] = "written"]
        /\ Goto(w, "sync")
     \/ Fail(w) /\ UNCHANGED tmp
  /\ UNCHANGED <<machine, phase, queue, file, seen, refs, errors, report>>

\* (ReaderSeesWhole: the fault of renaming what has not reached the disk.)
NoSync(w) ==
  /\ At(w, "sync")
  /\ Goto(w, "rename")
  /\ UNCHANGED <<machine, phase, queue, tmp, file, seen, refs, errors, report>>

Sync(w) ==
  /\ At(w, "sync")
  /\ \/ /\ tmp' = [tmp EXCEPT ![w] = "synced"]
        /\ Goto(w, "rename")
     \/ Fail(w) /\ UNCHANGED tmp
  /\ UNCHANGED <<machine, phase, queue, file, seen, refs, errors, report>>

Rename(w) ==
  /\ At(w, "rename")
  /\ \/ /\ file' = [file EXCEPT ![Name(w)] = tmp[w]]
        /\ tmp' = [tmp EXCEPT ![w] = "none"]
        /\ Goto(w, "remove")
     \/ Fail(w) /\ UNCHANGED <<file, tmp>>
  /\ UNCHANGED <<machine, phase, queue, seen, refs, errors, report>>

\* (NothingLeftBehind: the fault of removing the temporary file on success only.)
RemoveOnSuccess(w) ==
  /\ At(w, "remove") \/ At(w, "remove_failed")
  /\ tmp' = IF step[w] = "remove" THEN [tmp EXCEPT ![w] = "none"] ELSE tmp
  /\ Goto(w, IF step[w] = "remove" THEN "done" ELSE "failed")
  /\ UNCHANGED <<machine, phase, queue, file, seen, refs, errors, report>>

\* (ImplementsEvidenceSet: the fault of returning an error of the deferred os.Remove.)
RemoveErrorReturned(w) ==
  /\ At(w, "remove") \/ At(w, "remove_failed")
  /\ tmp' = [tmp EXCEPT ![w] = "none"]
  /\ Goto(w, "failed") \/ (step[w] = "remove" /\ Goto(w, "done"))
  /\ UNCHANGED <<machine, phase, queue, file, seen, refs, errors, report>>

\* The deferred os.Remove: after the rename there is nothing left under that name.
Remove(w) ==
  /\ At(w, "remove") \/ At(w, "remove_failed")
  /\ tmp' = [tmp EXCEPT ![w] = "none"]
  /\ Goto(w, IF step[w] = "remove" THEN "done" ELSE "failed")
  /\ UNCHANGED <<machine, phase, queue, file, seen, refs, errors, report>>

-----------------------------------------------------------------------------
(* PutEvidence, called by storeExchanges for one exchange after another.   *)

Advance(w) == queue' = [queue EXCEPT ![w] = Tail(@)]
Return(w) == refs' = [refs EXCEPT ![w] = @ \cup {Name(w)}]

\* (StoredOnce: the fault of marking a digest once it is written.)
MarkLate(w) ==
  /\ w \in Workers /\ At(w, "put")
  /\ IF file[Name(w)] # "none"
       THEN Return(w) /\ Advance(w) /\ UNCHANGED <<seen, step>>
       ELSE Goto(w, "open") /\ UNCHANGED <<seen, refs, queue>>
  /\ UNCHANGED <<machine, phase, tmp, file, errors, report>>

\* The lock covers the look-up and the mark; the file is written after it is released.
Mark(w) ==
  /\ w \in Workers /\ At(w, "put")
  /\ IF Name(w) \in seen
       THEN /\ Return(w) /\ Advance(w)
            /\ UNCHANGED <<seen, step>>
       ELSE /\ seen' = seen \cup {Name(w)}
            /\ Goto(w, "open")
            /\ UNCHANGED <<refs, queue>>
  /\ UNCHANGED <<machine, phase, tmp, file, errors, report>>

\* (LossIsReported: the fault of a sink whose error storeExchanges drops.)
PutDoneSilently(w) ==
  /\ w \in Workers
  /\ \/ At(w, "done") /\ Return(w)
     \/ At(w, "failed") /\ UNCHANGED refs
  /\ Advance(w) /\ Goto(w, "put")
  /\ UNCHANGED <<machine, phase, tmp, file, seen, errors, report>>

\* (TypeOK: the fault of a sink that keeps the empty reference of a failed store.)
PutDoneEmptyReference(w) ==
  /\ w \in Workers
  /\ \/ At(w, "done") /\ Return(w) /\ UNCHANGED errors
     \/ /\ At(w, "failed")
        /\ errors' = [errors EXCEPT ![w] = @ \cup {Name(w)}]
        /\ refs' = [refs EXCEPT ![w] = @ \cup {"none"}]
  /\ Advance(w) /\ Goto(w, "put")
  /\ UNCHANGED <<machine, phase, tmp, file, seen, report>>

PutDone(w) ==
  /\ w \in Workers
  /\ \/ At(w, "done") /\ Return(w) /\ UNCHANGED errors
     \/ /\ At(w, "failed")
        /\ errors' = [errors EXCEPT ![w] = @ \cup {Name(w)}]
        /\ UNCHANGED refs
  /\ Advance(w) /\ Goto(w, "put")
  /\ UNCHANGED <<machine, phase, tmp, file, seen, report>>

-----------------------------------------------------------------------------
(* The command.                                                            *)

\* engine.Run waits for every worker; the result becomes the document.
Assemble ==
  /\ machine = "up" /\ phase = "assessing"
  /\ \A w \in Workers : queue[w] = <<>>
  /\ report' = [refs |-> UNION {refs[w] : w \in Workers},
                failures |-> UNION {errors[w] : w \in Workers}]
  /\ phase' = "writing"
  /\ queue' = [queue EXCEPT ![Command] = Output]
  /\ Goto(Command, "open")
  /\ UNCHANGED <<machine, tmp, file, seen, refs, errors>>

\* A file of the command's own: the next one follows, and the first error ends the run.
Written ==
  /\ \/ /\ At(Command, "done")
        /\ Advance(Command)
        /\ phase' = IF Tail(queue[Command]) # <<>> THEN phase
                    ELSE IF phase = "setup" THEN "assessing" ELSE "ended"
     \/ /\ At(Command, "failed")
        /\ queue' = [queue EXCEPT ![Command] = <<>>]
        /\ phase' = "ended"
  /\ Goto(Command, "open")
  /\ UNCHANGED <<machine, tmp, file, seen, refs, errors, report>>

-----------------------------------------------------------------------------
(* What the code does not control.                                         *)

Kill ==
  /\ machine = "up" /\ phase # "ended"
  /\ machine' = "killed"
  /\ UNCHANGED <<phase, queue, step, tmp, file, seen, refs, errors, report>>

\* No directory is synced: a rename may be lost. What was synced is not.
PowerLoss ==
  /\ machine \in {"up", "killed"}
  /\ machine' = "powerless"
  /\ \E lost \in SUBSET Names :
       file' = [n \in Names |-> IF file[n] = "none" \/ n \in lost THEN "none"
                                ELSE IF file[n] = "synced" THEN "synced" ELSE "torn"]
  /\ UNCHANGED <<phase, queue, step, tmp, seen, refs, errors, report>>

Over == (machine # "up" \/ phase = "ended") /\ UNCHANGED vars

WriteFile(w) == Open(w) \/ Fill(w) \/ Sync(w) \/ Rename(w) \/ Remove(w)

Next ==
  \/ \E w \in Writers : WriteFile(w)
  \/ \E w \in Workers : Mark(w) \/ PutDone(w)
  \/ Assemble \/ Written
  \/ Kill \/ PowerLoss \/ Over

Spec == Init /\ [][Next]_vars

-----------------------------------------------------------------------------
TypeOK ==
  /\ machine \in {"up", "killed", "powerless"}
  /\ phase \in {"setup", "assessing", "writing", "ended"}
  /\ queue \in [Writers -> Seq(Names)]
  /\ step \in [Writers -> {"put", "open", "fill", "sync", "rename", "remove",
                           "remove_failed", "done", "failed"}]
  /\ tmp \in [Writers -> {"none", "torn", "written", "synced"}]
  /\ file \in [Names -> {"none", "torn", "written", "synced"}]
  /\ seen \subseteq Digests
  /\ refs \in [Workers -> SUBSET Digests]
  /\ errors \in [Workers -> SUBSET Digests]
  /\ report \in [refs : SUBSET Digests, failures : SUBSET Digests]

Ended == machine = "up" /\ phase = "ended"
Present(n) == file[n] = "synced"

\* A reader of the run directory never sees part of a file, at any time, after a killed
\* process and after a power loss.
ReaderSeesWhole == \A n \in Names : file[n] \in {"none", "synced"}

\* A run that ends leaves no temporary file behind, whichever writes failed.
NothingLeftBehind == Ended => \A w \in Writers : tmp[w] = "none"

\* Two workers with the same exchange never write its file at the same time, nor one
\* after the other: it is stored once.
StoredOnce ==
  \A w, v \in Workers :
    /\ w # v /\ step[w] # "put" /\ step[v] # "put" => Name(w) # Name(v)
    /\ step[w] \in {"open", "fill", "sync", "rename"} => ~ Present(Name(w))

\* When a report stands in the directory, each of its references has its file or the
\* report has a tool failure for that digest: evidence is not lost without a word. A
\* killed process changes nothing to that; a power loss may.
LossIsReported ==
  machine # "powerless" /\ Present("report.json") =>
    \A d \in report.refs : Present(d) \/ d \in report.failures

\* The run directory can be relied on: files are whole, stored once, cleaned up after, and
\* what is missing is missing with a word.
EvidenceIsSound ==
  /\ TypeOK
  /\ ReaderSeesWhole
  /\ NothingLeftBehind
  /\ StoredOnce
  /\ LossIsReported

\* Whichever workers meet in PutEvidence, whichever step of WriteFile fails and whenever the
\* process dies, the directory is the set of module EvidenceSet: an exchange is taken by one
\* worker, ends up stored or lost but not both, and the report is assembled when nothing is
\* pending and states the losses there are, no fewer and no more.
Kept == INSTANCE EvidenceSet WITH
  taken <- seen,
  kept <- {d \in Digests : Present(d)},
  lost <- UNION {errors[w] : w \in Workers},
  promised <- UNION {refs[w] : w \in Workers},
  closed <- phase \in {"writing", "ended"},
  down <- machine = "powerless"

ImplementsEvidenceSet == Kept!Spec
=============================================================================
