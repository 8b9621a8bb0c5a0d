------------------------------ MODULE RunProofs ------------------------------
(***************************************************************************)
(* Theorems about Run, for every instance of its parts.                    *)
(*                                                                         *)
(* Store: whatever each worker captured, and wherever a write fails, the   *)
(* process is killed or the machine loses power. EvidenceIsSound is not    *)
(* inductive; StoreInv adds what each writer's step says of its temporary  *)
(* file and of the file it is about, that a digest somebody writes is      *)
(* marked, and that a marked digest is stored, being stored, or lost with  *)
(* an error that some worker keeps. That an exchange stated lost has no    *)
(* file (FailuresAreLosses) then makes Store an implementation of          *)
(* EvidenceSet, which says what the report states.                         *)
(*                                                                         *)
(* Client: any number of callers, URLs, entries and resolvable names. What *)
(* a wildcard grants is shown to be one label by lemmas on sequences;      *)
(* ClientInv then says, step by step, which gates a request has passed.    *)
(*                                                                         *)
(* Pipeline: any configuration. ScanInv adds to the property what every    *)
(* stage finds done by those before it.                                    *)
(*                                                                         *)
(* Reporting: any units, identities, engines and paths. ReportInv says     *)
(* that the ledger is one row for each unit that is done, and the result   *)
(* one for each unit, identity, engine and path, so that counting rows is  *)
(* counting work; the counts then follow from facts on finite sets.        *)
(***************************************************************************)
EXTENDS Run, Naturals, FiniteSetTheorems, TLAPS

-----------------------------------------------------------------------------
(*                                Store                                    *)
-----------------------------------------------------------------------------
USE StoreAssumption

-----------------------------------------------------------------------------
(* Facts about the constants and about queues.                             *)

LEMMA TheNames ==
  /\ Range(Setup) = {"meta.json", "fingerprint.key"}
  /\ Range(Output) = {"report.json", "report.sarif"}
<1>1. DOMAIN Setup = {1, 2} /\ DOMAIN Output = {1, 2}
  BY DEF Setup, Output
<1>2. Setup[1] = "meta.json" /\ Setup[2] = "fingerprint.key"
  BY DEF Setup
<1>3. Output[1] = "report.json" /\ Output[2] = "report.sarif"
  BY DEF Output
<1> QED
  BY <1>1, <1>2, <1>3 DEF Range

LEMMA HeadAndTail ==
  ASSUME NEW S, NEW s \in Seq(S), s # <<>>
  PROVE  Head(s) \in S /\ Tail(s) \in Seq(S)
OBVIOUS

LEMMA WiderSequence ==
  ASSUME NEW S, NEW T, S \subseteq T, NEW s \in Seq(S)
  PROVE  s \in Seq(T)
<1>1. \A i \in 1 .. Len(s) : s[i] \in T
  OBVIOUS
<1>2. s \in [1 .. Len(s) -> T] /\ Len(s) \in Nat
  BY <1>1
<1> QED
  BY <1>2

\* What the command still has to write when it is at one of its files.
CommandQueues == {Setup, Tail(Setup), Output, Tail(Output)}

LEMMA CommandNames ==
  /\ Setup # <<>> /\ Tail(Setup) # <<>> /\ Tail(Tail(Setup)) = <<>>
  /\ Output # <<>> /\ Tail(Output) # <<>> /\ Tail(Tail(Output)) = <<>>
  /\ \A q \in CommandQueues : Head(q) \in Range(Setup) \cup Range(Output)
  /\ \A q \in CommandQueues \cup {<<>>} : q \in Seq(Names)
<1>1. \A a, b : /\ Head(<<a, b>>) = a /\ Tail(<<a, b>>) = <<b>>
                /\ Head(<<b>>) = b /\ Tail(<<b>>) = <<>>
                /\ <<a, b>> # <<>> /\ <<b>> # <<>>
  OBVIOUS
<1>2. /\ Tail(Setup) = <<"fingerprint.key">> /\ Tail(Output) = <<"report.sarif">>
      /\ Head(Setup) = "meta.json" /\ Head(Output) = "report.json"
      /\ Setup # <<>> /\ Output # <<>>
  BY <1>1 DEF Setup, Output
<1>3. /\ Tail(Setup) # <<>> /\ Tail(Output) # <<>>
      /\ Head(Tail(Setup)) = "fingerprint.key" /\ Head(Tail(Output)) = "report.sarif"
      /\ Tail(Tail(Setup)) = <<>> /\ Tail(Tail(Output)) = <<>>
  BY <1>1, <1>2
<1>4. {"meta.json", "fingerprint.key", "report.json", "report.sarif"} \subseteq Names
  BY TheNames DEF Names
<1>5. \A x, y \in Names : <<x, y>> \in Seq(Names) /\ <<y>> \in Seq(Names) /\ <<>> \in Seq(Names)
  OBVIOUS
<1>6. \A q \in CommandQueues \cup {<<>>} : q \in Seq(Names)
  BY <1>2, <1>4, <1>5 DEF Setup, Output, CommandQueues
<1> QED
  BY <1>2, <1>3, <1>6, TheNames DEF CommandQueues

-----------------------------------------------------------------------------
(* The inductive invariant.                                                *)

\* A worker stores exchanges only, and the command is at the file its phase says.
QueuesMatchPhase ==
  /\ \A w \in Workers : queue[w] \in Seq(Digests)
  /\ phase = "setup" => queue[Command] \in {Setup, Tail(Setup)}
  /\ phase = "writing" => queue[Command] \in {Output, Tail(Output)}
  /\ phase \in {"assessing", "ended"} => queue[Command] = <<>> /\ step[Command] = "open"

\* Workers store while the command waits for them, and the command is never in PutEvidence.
StepsMatchPhase ==
  /\ phase # "assessing" => \A w \in Workers : step[w] = "put"
  /\ phase = "writing" => \A w \in Workers : queue[w] = <<>>
  /\ step[Command] # "put"
  /\ \A w \in Workers : step[w] # "put" => queue[w] # <<>>

\* The temporary file of a writer is what the steps it has behind it made of it.
TemporaryMatchesStep ==
  \A w \in Writers :
    /\ step[w] \in {"put", "open", "remove", "done", "failed"} => tmp[w] = "none"
    /\ step[w] = "rename" => tmp[w] = "synced"

\* Marking precedes writing, and what a worker writes nobody else does.
MarkedBeforeWritten ==
  /\ \A d \in Digests : d \notin seen => file[d] = "none"
  /\ \A w \in Workers : step[w] # "put" => Name(w) \in seen
  /\ \A w \in Workers : refs[w] \subseteq seen

\* A marked exchange is stored, being stored, or lost with an error.
Stored(d) == Present(d) \/ \E w \in Workers : d \in errors[w]
MarkedIsAccounted ==
  machine # "powerless" =>
    /\ \A w \in Workers : step[w] \in {"remove", "done"} => Present(Name(w))
    /\ \A d \in seen : Stored(d) \/ \E w \in Workers : step[w] # "put" /\ Name(w) = d

\* What the report refers to is there or has its failure, from the moment it is assembled.
ReportIsAccounted ==
  machine # "powerless" => \A d \in report.refs : Present(d) \/ d \in report.failures

StoreInv ==
  /\ TypeOK
  /\ QueuesMatchPhase
  /\ StepsMatchPhase
  /\ TemporaryMatchesStep
  /\ MarkedBeforeWritten
  /\ MarkedIsAccounted
  /\ ReportIsAccounted
  /\ ReaderSeesWhole
  /\ StoredOnce

-----------------------------------------------------------------------------
(* The first state, and one lemma per step.                                *)

LEMMA Initially == Init => StoreInv
<1> SUFFICES ASSUME Init PROVE StoreInv
  OBVIOUS
<1>1. \A w \in Workers : queue[w] = Exchanges[w] /\ queue[w] \in Seq(Digests)
  BY DEF Init, Writers
<1>2. queue[Command] = Setup
  BY DEF Init, Writers
<1>3. Digests \subseteq Names
  BY DEF Names
<1>4. queue \in [Writers -> Seq(Names)]
  <2>1. \A w \in Workers : queue[w] \in Seq(Names)
    BY <1>1, <1>3, WiderSequence
  <2>2. queue[Command] \in Seq(Names)
    BY <1>2, CommandNames DEF CommandQueues
  <2> QED BY <2>1, <2>2 DEF Init, Writers
<1>5. TypeOK
  BY <1>4 DEF Init, TypeOK, Nothing
<1>6. QueuesMatchPhase /\ StepsMatchPhase /\ TemporaryMatchesStep
  BY <1>1, <1>2 DEF Init, Writers, QueuesMatchPhase, StepsMatchPhase, TemporaryMatchesStep
<1>7. MarkedBeforeWritten /\ MarkedIsAccounted /\ ReportIsAccounted
  BY <1>3 DEF Init, Writers, Nothing, MarkedBeforeWritten, MarkedIsAccounted, ReportIsAccounted
<1>8. ReaderSeesWhole /\ StoredOnce
  BY DEF Init, Writers, ReaderSeesWhole, StoredOnce
<1> QED
  BY <1>5, <1>6, <1>7, <1>8 DEF StoreInv

\* Whose names are whose: a worker is about an exchange, the command about its own files.
LEMMA WhoseName ==
  ASSUME StoreInv
  PROVE  /\ \A w \in Workers : step[w] # "put" => Name(w) \in Digests
         /\ queue[Command] # <<>> => Name(Command) \in Names \ Digests
         /\ Workers \subseteq Writers /\ Command \in Writers
         /\ Digests \subseteq Names
<1>1. ASSUME NEW w \in Workers, step[w] # "put" PROVE Name(w) \in Digests
  BY <1>1, HeadAndTail DEF StoreInv, QueuesMatchPhase, StepsMatchPhase, Name
<1>2. ASSUME queue[Command] # <<>> PROVE Name(Command) \in Names \ Digests
  <2>1. queue[Command] \in CommandQueues
    BY <1>2 DEF StoreInv, TypeOK, QueuesMatchPhase, CommandQueues
  <2> QED BY <2>1, CommandNames, TheNames DEF Name, Names
<1> QED
  BY <1>1, <1>2 DEF Writers, Names

\* A step of WriteFile that keeps the queues, the files and the marks, changing only where
\* one writer is and its temporary file.
OwnStep(w, from, to) ==
  /\ At(w, from) /\ step' = [step EXCEPT ![w] = to]
  /\ \E t \in {"none", "torn", "written", "synced"} : tmp' = [tmp EXCEPT ![w] = t]
  /\ UNCHANGED <<machine, phase, queue, file, seen, refs, errors, report>>

LEMMA OwnStepKeeps ==
  ASSUME StoreInv, NEW w \in Writers,
         NEW from \in {"open", "fill", "sync", "rename", "remove", "remove_failed"},
         NEW to \in {"fill", "sync", "rename", "remove_failed", "done", "failed"},
         OwnStep(w, from, to),
         to \in {"done", "failed"} => tmp'[w] = "none",
         to = "rename" => tmp'[w] = "synced",
         to \in {"fill", "sync", "rename"} => from \in {"open", "fill", "sync"},
         to = "done" <=> from = "remove"
  PROVE  StoreInv'
<1> USE DEF OwnStep, At
<1>1. TypeOK'
  BY DEF StoreInv, TypeOK
<1>2. \A v \in Writers : step'[v] = IF v = w THEN to ELSE step[v]
  BY DEF StoreInv, TypeOK
<1>3. \A v \in Writers : Name(v)' = Name(v)
  BY DEF Name
<1>4. w = Command => phase \notin {"assessing", "ended"}
  BY DEF StoreInv, QueuesMatchPhase
<1>5. w \in Workers => phase = "assessing" /\ step[w] # "put" /\ queue[w] # <<>>
  OBVIOUS
<1>6. QueuesMatchPhase'
  BY <1>2, <1>4 DEF StoreInv, QueuesMatchPhase, Writers
<1>7. StepsMatchPhase'
  BY <1>2, <1>5 DEF StoreInv, StepsMatchPhase, Writers
<1>8. TemporaryMatchesStep'
  BY <1>2 DEF StoreInv, TypeOK, TemporaryMatchesStep
<1>9. MarkedBeforeWritten'
  BY <1>2, <1>3, <1>5 DEF StoreInv, MarkedBeforeWritten, Writers
<1>10. MarkedIsAccounted'
  <2>1. \A v \in Workers : step[v] # "put" => step'[v] # "put"
    BY <1>2 DEF Writers
  <2>2. \A d : Stored(d)' = Stored(d)
    BY DEF Stored, Present
  <2>3. \A v \in Workers : step'[v] \in {"remove", "done"} => step[v] \in {"remove", "done"}
    BY <1>2 DEF Writers
  <2> QED BY <1>3, <2>1, <2>2, <2>3 DEF StoreInv, MarkedIsAccounted, Present, Writers
<1>11. ReportIsAccounted' /\ ReaderSeesWhole'
  BY DEF StoreInv, ReportIsAccounted, ReaderSeesWhole, Present
<1>12. StoredOnce'
  <2>1. \A v \in Workers : step'[v] # "put" => step[v] # "put"
    BY <1>2, <1>5 DEF Writers
  <2>2. \A v \in Workers : step'[v] \in {"open", "fill", "sync", "rename"}
                              => step[v] \in {"open", "fill", "sync", "rename"}
    BY <1>2 DEF Writers
  <2> QED BY <1>3, <2>1, <2>2 DEF StoreInv, StoredOnce, Present, Writers
<1> QED
  BY <1>1, <1>6, <1>7, <1>8, <1>9, <1>10, <1>11, <1>12 DEF StoreInv

LEMMA OpenStep == ASSUME StoreInv, NEW w \in Writers, Open(w) PROVE StoreInv'
<1>1. tmp[w] = "none" /\ tmp = [tmp EXCEPT ![w] = "none"] /\ At(w, "open")
  BY DEF StoreInv, TypeOK, TemporaryMatchesStep, Open, At
<1>2. CASE tmp' = [tmp EXCEPT ![w] = "torn"] /\ Goto(w, "fill")
  <2>1. OwnStep(w, "open", "fill")
    BY <1>1, <1>2 DEF Open, OwnStep, Goto
  <2> QED BY <2>1, OwnStepKeeps
<1>3. CASE Goto(w, "failed") /\ UNCHANGED tmp
  <2>1. OwnStep(w, "open", "failed") /\ tmp'[w] = "none"
    BY <1>1, <1>3 DEF Open, OwnStep, Goto
  <2> QED BY <2>1, OwnStepKeeps
<1> QED
  BY <1>2, <1>3 DEF Open

LEMMA FillStep == ASSUME StoreInv, NEW w \in Writers, Fill(w) PROVE StoreInv'
<1>1. /\ tmp = [tmp EXCEPT ![w] = tmp[w]] /\ tmp[w] \in {"none", "torn", "written", "synced"}
      /\ At(w, "fill")
  BY DEF StoreInv, TypeOK, Fill
<1>2. CASE tmp' = [tmp EXCEPT ![w] = "written"] /\ Goto(w, "sync")
  <2>1. OwnStep(w, "fill", "sync")
    BY <1>1, <1>2 DEF Fill, OwnStep, Goto
  <2> QED BY <2>1, OwnStepKeeps
<1>3. CASE Fail(w) /\ UNCHANGED tmp
  <2>1. OwnStep(w, "fill", "remove_failed")
    BY <1>1, <1>3 DEF Fill, OwnStep, Goto, Fail
  <2> QED BY <2>1, OwnStepKeeps
<1> QED
  BY <1>2, <1>3 DEF Fill

LEMMA SyncStep == ASSUME StoreInv, NEW w \in Writers, Sync(w) PROVE StoreInv'
<1>1. /\ tmp = [tmp EXCEPT ![w] = tmp[w]] /\ tmp[w] \in {"none", "torn", "written", "synced"}
      /\ At(w, "sync")
  BY DEF StoreInv, TypeOK, Sync
<1>2. CASE tmp' = [tmp EXCEPT ![w] = "synced"] /\ Goto(w, "rename")
  <2>1. OwnStep(w, "sync", "rename") /\ tmp'[w] = "synced"
    BY <1>1, <1>2 DEF StoreInv, TypeOK, Sync, OwnStep, Goto
  <2> QED BY <2>1, OwnStepKeeps
<1>3. CASE Fail(w) /\ UNCHANGED tmp
  <2>1. OwnStep(w, "sync", "remove_failed")
    BY <1>1, <1>3 DEF Sync, OwnStep, Goto, Fail
  <2> QED BY <2>1, OwnStepKeeps
<1> QED
  BY <1>2, <1>3 DEF Sync

LEMMA RemoveStep == ASSUME StoreInv, NEW w \in Writers, Remove(w) PROVE StoreInv'
<1>1. tmp' = [tmp EXCEPT ![w] = "none"] /\ tmp'[w] = "none"
  BY DEF StoreInv, TypeOK, Remove
<1>2. CASE At(w, "remove")
  <2>1. OwnStep(w, "remove", "done")
    BY <1>1, <1>2 DEF Remove, OwnStep, Goto, At
  <2> QED BY <1>1, <2>1, OwnStepKeeps
<1>3. CASE At(w, "remove_failed")
  <2>1. OwnStep(w, "remove_failed", "failed")
    BY <1>1, <1>3 DEF Remove, OwnStep, Goto, At
  <2> QED BY <1>1, <2>1, OwnStepKeeps
<1> QED
  BY <1>2, <1>3 DEF Remove

LEMMA RenameStep == ASSUME StoreInv, NEW w \in Writers, Rename(w) PROVE StoreInv'
<1>1. At(w, "rename") /\ tmp[w] = "synced"
  BY DEF StoreInv, TemporaryMatchesStep, Rename, At
<1>2. CASE Fail(w) /\ UNCHANGED <<file, tmp>>
  <2>1. tmp = [tmp EXCEPT ![w] = tmp[w]] /\ tmp[w] \in {"none", "torn", "written", "synced"}
    BY <1>1 DEF StoreInv, TypeOK
  <2>2. OwnStep(w, "rename", "remove_failed")
    BY <1>1, <1>2, <2>1 DEF Rename, OwnStep, Goto, Fail
  <2> QED BY <2>2, OwnStepKeeps
<1>3. CASE /\ file' = [file EXCEPT ![Name(w)] = tmp[w]]
           /\ tmp' = [tmp EXCEPT ![w] = "none"]
           /\ Goto(w, "remove")
  <2> USE <1>3, WhoseName
  <2>1. UNCHANGED <<machine, phase, queue, seen, refs, errors, report>> /\ machine = "up"
    BY <1>1 DEF Rename, At
  <2>2. Name(w) \in Names
    BY <1>1 DEF At, Writers
  <2>3. \A n \in Names : file'[n] = IF n = Name(w) THEN "synced" ELSE file[n]
    BY <1>1, <2>2 DEF StoreInv, TypeOK
  <2>4. \A v \in Writers : /\ step'[v] = IF v = w THEN "remove" ELSE step[v]
                           /\ tmp'[v] = IF v = w THEN "none" ELSE tmp[v]
    BY DEF StoreInv, TypeOK, Goto
  <2>5. \A v \in Writers : Name(v)' = Name(v)
    BY <2>1 DEF Name
  <2>6. TypeOK'
    BY <1>1, <2>1, <2>2 DEF StoreInv, TypeOK, Goto
  <2>7. QueuesMatchPhase'
    BY <1>1, <2>1, <2>4 DEF StoreInv, QueuesMatchPhase, At
  <2>8. StepsMatchPhase'
    BY <1>1, <2>1, <2>4 DEF StoreInv, StepsMatchPhase, At
  <2>9. TemporaryMatchesStep'
    BY <2>4 DEF StoreInv, TemporaryMatchesStep
  <2>10. \A v \in Workers : step'[v] # "put" <=> step[v] # "put"
    BY <1>1, <2>4 DEF At
  <2>11. MarkedBeforeWritten'
    <3>1. \A d \in Digests : d = Name(w) => d \in seen
      BY <1>1 DEF StoreInv, MarkedBeforeWritten, At, Writers
    <3> QED BY <2>1, <2>3, <2>5, <2>10, <3>1 DEF StoreInv, MarkedBeforeWritten
  <2>12. \A n \in Names : Present(n) => Present(n)'
    BY <2>3 DEF Present
  <2>13. MarkedIsAccounted'
    <3>1. \A v \in Workers : step'[v] \in {"remove", "done"} => Present(Name(v))'
      <4>1. ASSUME NEW v \in Workers, v # w, step'[v] \in {"remove", "done"}
            PROVE  Present(Name(v))'
        <5>1. step[v] \in {"remove", "done"} /\ Name(v) \in Names
          BY <2>4, <4>1
        <5>2. Present(Name(v))
          BY <2>1, <5>1 DEF StoreInv, MarkedIsAccounted
        <5> QED BY <2>3, <2>5, <5>1, <5>2 DEF Present
      <4> QED BY <2>2, <2>3, <2>5, <4>1 DEF Present
    <3>2. \A d \in seen : Stored(d) => Stored(d)'
      BY <2>1, <2>12 DEF Stored, StoreInv, TypeOK
    <3> QED BY <2>1, <2>5, <2>10, <3>1, <3>2 DEF StoreInv, MarkedIsAccounted
  <2>14. ReportIsAccounted'
    BY <2>1, <2>12 DEF StoreInv, TypeOK, ReportIsAccounted
  <2>15. ReaderSeesWhole'
    BY <2>3 DEF StoreInv, ReaderSeesWhole
  <2>16. StoredOnce'
    <3>1. ASSUME NEW v \in Workers, step'[v] \in {"open", "fill", "sync", "rename"}
          PROVE  ~ Present(Name(v))'
      <4>1. v # w /\ step[v] \in {"open", "fill", "sync", "rename"}
        BY <3>1, <2>4
      <4>2. Name(v) # Name(w) /\ Name(v) \in Digests
        BY <1>1, <4>1 DEF StoreInv, StoredOnce, At, Writers
      <4> QED BY <2>3, <2>5, <4>1, <4>2 DEF StoreInv, StoredOnce, Present
    <3> QED BY <2>5, <2>10, <3>1 DEF StoreInv, StoredOnce
  <2> QED
    BY <2>6, <2>7, <2>8, <2>9, <2>11, <2>13, <2>14, <2>15, <2>16 DEF StoreInv
<1> QED
  BY <1>2, <1>3 DEF Rename

\* PutEvidence: the exchange is marked already, or is marked and its file opened.
LEMMA MarkStep == ASSUME StoreInv, NEW w \in Workers, Mark(w) PROVE StoreInv'
<1> USE WhoseName
<1>1. /\ At(w, "put") /\ phase = "assessing" /\ machine = "up" /\ queue[w] # <<>>
      /\ UNCHANGED <<machine, phase, tmp, file, errors, report>>
  BY DEF Mark, At
<1>2. queue[w] \in Seq(Digests) /\ Name(w) \in Digests /\ Tail(queue[w]) \in Seq(Digests)
  BY <1>1, HeadAndTail DEF StoreInv, QueuesMatchPhase, Name
<1>3. ReportIsAccounted' /\ ReaderSeesWhole'
  BY <1>1 DEF StoreInv, ReportIsAccounted, ReaderSeesWhole, Present
<1>4. CASE Name(w) \in seen
  <2>1. Return(w) /\ Advance(w) /\ UNCHANGED <<seen, step>>
    BY <1>4 DEF Mark
  <2>2. \A v \in Writers : queue'[v] = IF v = w THEN Tail(queue[w]) ELSE queue[v]
    BY <2>1 DEF StoreInv, TypeOK, Advance
  <2>3. \A v \in Writers : v # w => Name(v)' = Name(v)
    BY <2>2 DEF Name
  <2>4. TypeOK'
    <3>1. Tail(queue[w]) \in Seq(Names)
      BY <1>2, WiderSequence
    <3> QED BY <1>1, <1>2, <2>1, <3>1 DEF StoreInv, TypeOK, Advance, Return
  <2>5. QueuesMatchPhase' /\ StepsMatchPhase' /\ TemporaryMatchesStep'
    BY <1>1, <1>2, <2>1, <2>2 DEF At, StoreInv, QueuesMatchPhase, StepsMatchPhase,
       TemporaryMatchesStep, Writers
  <2>6. MarkedBeforeWritten'
    BY <1>1, <1>4, <2>1, <2>3 DEF At, StoreInv, TypeOK, MarkedBeforeWritten, Return
  <2>7. MarkedIsAccounted'
    BY <1>1, <2>1, <2>3 DEF At, StoreInv, MarkedIsAccounted, Stored, Present
  <2>8. StoredOnce'
    BY <1>1, <2>1, <2>3 DEF At, StoreInv, StoredOnce, Present
  <2> QED
    BY <1>3, <2>4, <2>5, <2>6, <2>7, <2>8 DEF StoreInv
<1>5. CASE Name(w) \notin seen
  <2>1. seen' = seen \cup {Name(w)} /\ Goto(w, "open") /\ UNCHANGED <<refs, queue>>
    BY <1>5 DEF Mark
  <2>2. \A v \in Writers : step'[v] = IF v = w THEN "open" ELSE step[v]
    BY <2>1 DEF StoreInv, TypeOK, Goto
  <2>3. \A v \in Writers : Name(v)' = Name(v)
    BY <2>1 DEF Name
  <2>4. TypeOK'
    BY <1>1, <1>2, <2>1 DEF StoreInv, TypeOK, Goto
  <2>5. QueuesMatchPhase' /\ StepsMatchPhase'
    BY <1>1, <2>1, <2>2 DEF StoreInv, QueuesMatchPhase, StepsMatchPhase
  <2>6. TemporaryMatchesStep'
    BY <1>1, <2>2 DEF At, StoreInv, TemporaryMatchesStep
  <2>7. MarkedBeforeWritten'
    BY <1>1, <2>1, <2>2, <2>3 DEF StoreInv, MarkedBeforeWritten
  <2>8. MarkedIsAccounted'
    <3>1. \A d \in seen' : d \in seen \/ (d = Name(w) /\ step'[w] # "put" /\ Name(w)' = d)
      BY <2>1, <2>2, <2>3
    <3>2. \A v \in Workers : step[v] # "put" => step'[v] # "put"
      BY <2>2
    <3>3. \A d : Stored(d)' = Stored(d)
      BY <1>1 DEF Stored, Present
    <3>4. \A v \in Workers : step'[v] \in {"remove", "done"} => step[v] \in {"remove", "done"}
      BY <2>2
    <3> QED BY <1>1, <2>3, <3>1, <3>2, <3>3, <3>4 DEF StoreInv, MarkedIsAccounted, Present
  <2>9. StoredOnce'
    <3>1. ~ Present(Name(w))
      BY <1>2, <1>5 DEF StoreInv, MarkedBeforeWritten, Present
    <3>2. \A v \in Workers : v # w /\ step[v] # "put" => Name(v) # Name(w)
      BY <1>5 DEF StoreInv, MarkedBeforeWritten
    <3> QED BY <1>1, <2>2, <2>3, <3>1, <3>2 DEF StoreInv, StoredOnce, Present
  <2> QED
    BY <1>3, <2>4, <2>5, <2>6, <2>7, <2>8, <2>9 DEF StoreInv
<1> QED
  BY <1>4, <1>5

LEMMA PutDoneStep == ASSUME StoreInv, NEW w \in Workers, PutDone(w) PROVE StoreInv'
<1> USE WhoseName
<1>1. /\ step[w] \in {"done", "failed"} /\ phase = "assessing" /\ machine = "up" /\ queue[w] # <<>>
      /\ Advance(w) /\ Goto(w, "put")
      /\ UNCHANGED <<machine, phase, tmp, file, seen, report>>
  BY DEF PutDone, At
<1>2. queue[w] \in Seq(Digests) /\ Name(w) \in Digests /\ Tail(queue[w]) \in Seq(Digests)
  BY <1>1, HeadAndTail DEF StoreInv, QueuesMatchPhase, Name
<1>3. ReportIsAccounted' /\ ReaderSeesWhole'
  BY <1>1 DEF StoreInv, ReportIsAccounted, ReaderSeesWhole, Present
<1>4. \A v \in Writers : /\ queue'[v] = IF v = w THEN Tail(queue[w]) ELSE queue[v]
                         /\ step'[v] = IF v = w THEN "put" ELSE step[v]
  BY <1>1 DEF StoreInv, TypeOK, Advance, Goto
<1>5. \A v \in Writers : v # w => Name(v)' = Name(v)
  BY <1>4 DEF Name
<1>6. /\ refs' \in [Workers -> SUBSET Digests] /\ errors' \in [Workers -> SUBSET Digests]
      /\ \A v \in Workers : refs'[v] \subseteq refs[v] \cup {Name(w)}
      /\ \A v \in Workers : errors[v] \subseteq errors'[v]
      /\ step[w] = "failed" => Name(w) \in errors'[w]
  <2>1. CASE At(w, "done") /\ Return(w) /\ UNCHANGED errors
    BY <1>2, <2>1 DEF StoreInv, TypeOK, Return, At
  <2>2. CASE /\ At(w, "failed") /\ UNCHANGED refs
             /\ errors' = [errors EXCEPT ![w] = @ \cup {Name(w)}]
    BY <1>2, <2>2 DEF StoreInv, TypeOK
  <2> QED BY <2>1, <2>2 DEF PutDone
<1>7. TypeOK'
  <2>1. Tail(queue[w]) \in Seq(Names)
    BY <1>2, WiderSequence
  <2> QED BY <1>1, <1>6, <2>1 DEF StoreInv, TypeOK, Advance, Goto
<1>8. QueuesMatchPhase' /\ StepsMatchPhase'
  BY <1>1, <1>2, <1>4 DEF StoreInv, QueuesMatchPhase, StepsMatchPhase, Writers
<1>9. TemporaryMatchesStep'
  BY <1>1, <1>4 DEF StoreInv, TemporaryMatchesStep
<1>10. MarkedBeforeWritten'
  BY <1>1, <1>4, <1>5, <1>6 DEF StoreInv, MarkedBeforeWritten
<1>11. MarkedIsAccounted'
  <2>1. \A v \in Workers : step'[v] # "put" <=> v # w /\ step[v] # "put"
    BY <1>1, <1>4
  <2>2. \A d : Stored(d) => Stored(d)'
    BY <1>1, <1>6 DEF Stored, Present
  <2>3. \A d : d = Name(w) => Stored(d)'
    BY <1>1, <1>6 DEF StoreInv, MarkedIsAccounted, Stored, Present
  <2>4. \A v \in Workers : step'[v] \in {"remove", "done"} =>
           v # w /\ step[v] \in {"remove", "done"}
    BY <1>4
  <2>5. \A v \in Workers : step'[v] \in {"remove", "done"} => Present(Name(v))'
    BY <1>1, <1>5, <2>4 DEF StoreInv, MarkedIsAccounted, Present
  <2>6. ASSUME NEW d \in seen
        PROVE  Stored(d)' \/ \E v \in Workers : (step[v] # "put")' /\ Name(v)' = d
    <3>1. CASE Stored(d)
      BY <3>1, <2>2
    <3>2. ASSUME NEW v \in Workers, step[v] # "put", Name(v) = d
          PROVE  Stored(d)' \/ ((step[v] # "put")' /\ Name(v)' = d)
      BY <3>2, <1>5, <2>1, <2>3
    <3> QED BY <1>1, <3>1, <3>2 DEF StoreInv, MarkedIsAccounted
  <2> QED BY <1>1, <2>5, <2>6 DEF MarkedIsAccounted
<1>12. StoredOnce'
  BY <1>1, <1>4, <1>5 DEF StoreInv, StoredOnce, Present
<1> QED
  BY <1>3, <1>7, <1>8, <1>9, <1>10, <1>11, <1>12 DEF StoreInv

\* When the command assembles the report nobody is storing, so that what is marked is stored
\* or has its error.
LEMMA AssembleStep == ASSUME StoreInv, Assemble PROVE StoreInv'
<1> USE WhoseName
<1>1. /\ machine = "up" /\ phase = "assessing" /\ \A w \in Workers : queue[w] = <<>>
      /\ phase' = "writing" /\ queue' = [queue EXCEPT ![Command] = Output]
      /\ Goto(Command, "open") /\ UNCHANGED <<machine, tmp, file, seen, refs, errors>>
  BY DEF Assemble
<1>2. \A w \in Workers : step[w] = "put"
  BY <1>1 DEF StoreInv, StepsMatchPhase
<1>3. \A w \in Workers : queue'[w] = queue[w] /\ step'[w] = "put"
  BY <1>1, <1>2 DEF StoreInv, TypeOK, Goto
<1>4. queue'[Command] = Output /\ step'[Command] = "open" /\ tmp[Command] = "none"
  BY <1>1 DEF StoreInv, TypeOK, Goto, QueuesMatchPhase, TemporaryMatchesStep
<1>5. TypeOK'
  <2>1. Output \in Seq(Names)
    BY CommandNames DEF CommandQueues
  <2> QED BY <1>1, <2>1 DEF Assemble, StoreInv, TypeOK, Goto
<1>6. QueuesMatchPhase' /\ StepsMatchPhase'
  BY <1>1, <1>3, <1>4 DEF StoreInv, QueuesMatchPhase, StepsMatchPhase
<1>7. TemporaryMatchesStep'
  BY <1>1, <1>2, <1>3, <1>4 DEF StoreInv, TemporaryMatchesStep, Writers
<1>8. MarkedBeforeWritten' /\ ReaderSeesWhole' /\ StoredOnce'
  BY <1>1, <1>3 DEF StoreInv, MarkedBeforeWritten, ReaderSeesWhole, StoredOnce
<1>9. \A d \in seen : Stored(d)
  BY <1>1, <1>2 DEF StoreInv, MarkedIsAccounted
<1>10. MarkedIsAccounted'
  BY <1>1, <1>3, <1>9 DEF MarkedIsAccounted, Stored, Present
<1>11. ReportIsAccounted'
  <2>1. /\ report'.refs = UNION {refs[w] : w \in Workers}
        /\ report'.failures = UNION {errors[w] : w \in Workers}
    BY DEF Assemble
  <2>2. \A d \in report'.refs : d \in seen
    BY <2>1 DEF StoreInv, MarkedBeforeWritten
  <2> QED BY <1>1, <1>9, <2>1, <2>2 DEF ReportIsAccounted, Stored, Present
<1> QED
  BY <1>5, <1>6, <1>7, <1>8, <1>10, <1>11 DEF StoreInv

LEMMA WrittenStep == ASSUME StoreInv, Written PROVE StoreInv'
<1> USE WhoseName
<1>1. /\ step[Command] \in {"done", "failed"} /\ machine = "up" /\ queue[Command] # <<>>
      /\ Goto(Command, "open") /\ UNCHANGED <<machine, tmp, file, seen, refs, errors, report>>
      /\ phase \in {"setup", "writing"}
  BY DEF Written, At, StoreInv, TypeOK, QueuesMatchPhase
<1>2. /\ queue' \in [Writers -> Seq(Names)]
      /\ \A w \in Workers : queue'[w] = queue[w] /\ step'[w] = step[w]
      /\ step'[Command] = "open" /\ tmp[Command] = "none"
  <2>1. Tail(queue[Command]) \in Seq(Names) /\ <<>> \in Seq(Names)
    BY <1>1, HeadAndTail DEF StoreInv, TypeOK
  <2>2. \E q \in Seq(Names) : queue' = [queue EXCEPT ![Command] = q]
    BY <2>1 DEF Written, Advance
  <2>3. tmp[Command] = "none"
    BY <1>1 DEF StoreInv, TemporaryMatchesStep
  <2> QED BY <1>1, <2>2, <2>3 DEF StoreInv, TypeOK, Goto
<1>3. /\ phase' \in {"setup", "assessing", "writing", "ended"}
      /\ phase' = "writing" => phase = "writing"
      /\ phase' = "setup" => phase = "setup" /\ queue'[Command] = Tail(Setup)
      /\ phase' = "writing" => queue'[Command] = Tail(Output)
      /\ phase' \in {"assessing", "ended"} => queue'[Command] = <<>>
  BY <1>1, CommandNames DEF StoreInv, TypeOK, QueuesMatchPhase, Written, Advance
<1>4. TypeOK'
  BY <1>1, <1>2, <1>3 DEF StoreInv, TypeOK, Goto
<1>5. QueuesMatchPhase' /\ StepsMatchPhase'
  BY <1>1, <1>2, <1>3 DEF StoreInv, QueuesMatchPhase, StepsMatchPhase
<1>6. TemporaryMatchesStep'
  BY <1>1, <1>2 DEF StoreInv, TemporaryMatchesStep, Writers
<1>7. \A w \in Workers : Name(w)' = Name(w)
  BY <1>2 DEF Name
<1>8. /\ \A d : Present(d)' = Present(d) /\ Stored(d)' = Stored(d)
      /\ \A w \in Workers : Present(Name(w))' = Present(Name(w))
  BY <1>1, <1>7 DEF Stored, Present
<1>9. MarkedBeforeWritten' /\ ReaderSeesWhole'
  BY <1>1, <1>2, <1>7 DEF StoreInv, MarkedBeforeWritten, ReaderSeesWhole
<1>10. MarkedIsAccounted'
  BY <1>1, <1>2, <1>7, <1>8 DEF StoreInv, MarkedIsAccounted
<1>11. ReportIsAccounted'
  BY <1>1, <1>8 DEF StoreInv, ReportIsAccounted
<1>12. StoredOnce'
  BY <1>2, <1>7, <1>8 DEF StoreInv, StoredOnce
<1> QED
  BY <1>4, <1>5, <1>6, <1>9, <1>10, <1>11, <1>12 DEF StoreInv

LEMMA KillStep == ASSUME StoreInv, Kill PROVE StoreInv'
BY DEF Kill, StoreInv, TypeOK, QueuesMatchPhase, StepsMatchPhase, TemporaryMatchesStep,
  MarkedBeforeWritten, MarkedIsAccounted, ReportIsAccounted, ReaderSeesWhole, StoredOnce,
  Stored, Present, Name

\* A power loss takes files away; it tears none, because every one was synced.
LEMMA PowerLossStep == ASSUME StoreInv, PowerLoss PROVE StoreInv'
<1> USE WhoseName
<1>1. /\ machine' = "powerless"
      /\ UNCHANGED <<phase, queue, step, tmp, seen, refs, errors, report>>
  BY DEF PowerLoss
<1>2. /\ file' \in [Names -> {"none", "synced"}]
      /\ \A n \in Names : file'[n] = "synced" => file[n] = "synced"
  <2>1. PICK lost \in SUBSET Names :
          file' = [n \in Names |-> IF file[n] = "none" \/ n \in lost THEN "none"
                                   ELSE IF file[n] = "synced" THEN "synced" ELSE "torn"]
    BY DEF PowerLoss
  <2> QED BY <2>1 DEF StoreInv, ReaderSeesWhole
<1>3. TypeOK' /\ QueuesMatchPhase' /\ StepsMatchPhase' /\ TemporaryMatchesStep'
  BY <1>1, <1>2 DEF StoreInv, TypeOK, QueuesMatchPhase, StepsMatchPhase, TemporaryMatchesStep
<1>4. MarkedBeforeWritten'
  BY <1>1, <1>2 DEF StoreInv, MarkedBeforeWritten, Name
<1>5. MarkedIsAccounted' /\ ReportIsAccounted' /\ ReaderSeesWhole'
  BY <1>1, <1>2 DEF MarkedIsAccounted, ReportIsAccounted, ReaderSeesWhole
<1>6. StoredOnce'
  BY <1>1, <1>2 DEF StoreInv, StoredOnce, StepsMatchPhase, Name, Present
<1> QED
  BY <1>3, <1>4, <1>5, <1>6 DEF StoreInv

LEMMA StepKeeps == StoreInv /\ [Next]_vars => StoreInv'
<1> SUFFICES ASSUME StoreInv, [Next]_vars PROVE StoreInv'
  OBVIOUS
<1>1. ASSUME NEW w \in Writers, WriteFile(w) PROVE StoreInv'
  BY <1>1, OpenStep, FillStep, SyncStep, RenameStep, RemoveStep DEF WriteFile
<1>2. CASE UNCHANGED vars
  BY <1>2 DEF vars, StoreInv, TypeOK, QueuesMatchPhase, StepsMatchPhase, TemporaryMatchesStep,
    MarkedBeforeWritten, MarkedIsAccounted, ReportIsAccounted, ReaderSeesWhole, StoredOnce,
    Stored, Present, Name
<1> QED
  BY <1>1, <1>2, MarkStep, PutDoneStep, AssembleStep, WrittenStep, KillStep, PowerLossStep
  DEF Next, Over

\* The inductive invariant holds throughout.
THEOREM StoreInvariance == Spec => []StoreInv
<1> QED BY Initially, StepKeeps, PTL DEF Spec

-----------------------------------------------------------------------------
(* What a reader of the run directory relies on.                           *)

LEMMA StoreInvIsSound == StoreInv => EvidenceIsSound
<1> SUFFICES ASSUME StoreInv PROVE EvidenceIsSound
  OBVIOUS
<1>1. NothingLeftBehind
  <2>1. Ended => step[Command] = "open" /\ \A w \in Workers : step[w] = "put"
    BY DEF Ended, StoreInv, QueuesMatchPhase, StepsMatchPhase
  <2> QED BY <2>1 DEF NothingLeftBehind, StoreInv, TemporaryMatchesStep, Writers
<1>2. LossIsReported
  BY DEF LossIsReported, StoreInv, ReportIsAccounted
<1> QED
  BY <1>1, <1>2 DEF EvidenceIsSound, StoreInv

\* Files are whole, stored once and cleaned up after, and each reference of a report that
\* stands has its file or its failure: for any workers and exchanges, whichever step fails.
THEOREM DirectoryIsSound == Spec => []EvidenceIsSound
<1> QED BY StoreInvariance, StoreInvIsSound, PTL

-----------------------------------------------------------------------------
(* The directory is the set of module EvidenceSet.                         *)

\* An exchange that is being written is not stated lost, and one whose write has failed has
\* no file: so that what is stated lost is lost, and what is stored is not stated lost.
FailuresAreLosses ==
  /\ \A v \in Workers : errors[v] \subseteq seen
  /\ \A w, v \in Workers : step[w] # "put" => Name(w) \notin errors[v]
  /\ \A w \in Workers : step[w] \in {"remove_failed", "failed"} => ~ Present(Name(w))
  /\ phase = "setup" => seen = {}
  /\ phase \in {"setup", "assessing"} => report = Nothing

LEMMA FailuresInitially == Init => FailuresAreLosses
BY DEF Init, Writers, FailuresAreLosses

\* What a step of WriteFile may do: move its writer, and put a whole file under its name.
Writes(w, to) ==
  /\ step' = [step EXCEPT ![w] = to]
  /\ w \in Workers => /\ step[w] # "put" /\ phase = "assessing"
                      /\ to \in {"remove_failed", "failed"} => ~ Present(Name(w))
  /\ machine = "up" /\ queue[w] # <<>>
  /\ UNCHANGED <<machine, phase, queue, seen, refs, errors, report>>
  /\ \/ UNCHANGED file
     \/ step[w] = "rename" /\ to = "remove" /\ file' = [file EXCEPT ![Name(w)] = "synced"]

LEMMA WriteFileWrites ==
  ASSUME StoreInv, FailuresAreLosses, NEW w \in Writers, WriteFile(w)
  PROVE  \E to \in {"fill", "sync", "rename", "remove", "remove_failed", "done", "failed"} :
           Writes(w, to)
<1>1. CASE Open(w)
  BY <1>1 DEF Open, At, Goto, Writes, StoreInv, StoredOnce
<1>2. CASE Fill(w)
  BY <1>2 DEF Fill, At, Goto, Fail, Writes, StoreInv, StoredOnce
<1>3. CASE Sync(w)
  BY <1>3 DEF Sync, At, Goto, Fail, Writes, StoreInv, StoredOnce
<1>4. CASE Rename(w)
  BY <1>4 DEF Rename, At, Goto, Fail, Writes, StoreInv, StoredOnce, TemporaryMatchesStep
<1>5. CASE Remove(w)
  BY <1>5 DEF Remove, At, Goto, Writes, FailuresAreLosses
<1> QED
  BY <1>1, <1>2, <1>3, <1>4, <1>5 DEF WriteFile

\* A step of WriteFile touches no other writer, nor the file that writer is about.
LEMMA OthersAreApart ==
  ASSUME StoreInv, NEW w \in Writers, NEW to, Writes(w, to),
         NEW v \in Workers, v # w, step[v] # "put"
  PROVE  step'[v] = step[v] /\ Name(v)' = Name(v) /\ Present(Name(v))' = Present(Name(v))
<1>1. Name(v)' = Name(v) /\ Name(v) \in Digests /\ Name(v) \in Names
  BY WhoseName DEF Writes, Name
<1>2. step'[v] = step[v]
  BY WhoseName DEF Writes, StoreInv, TypeOK
<1>3. Name(v) # Name(w)
  BY <1>1, WhoseName DEF StoreInv, StoredOnce, Writes, Writers
<1>4. file'[Name(v)] = file[Name(v)]
  BY <1>1, <1>3 DEF Writes, StoreInv, TypeOK
<1> QED
  BY <1>1, <1>2, <1>4 DEF Present

LEMMA FailuresKept ==
  ASSUME StoreInv, FailuresAreLosses, [Next]_vars
  PROVE  FailuresAreLosses'
<1> USE DEF FailuresAreLosses
<1>1. ASSUME NEW w \in Writers, WriteFile(w) PROVE FailuresAreLosses'
  <2>1. PICK to \in {"fill", "sync", "rename", "remove", "remove_failed", "done", "failed"} :
          Writes(w, to)
    BY <1>1, WriteFileWrites
  <2>2. \A v \in Workers : step'[v] # "put" => step[v] # "put" /\ Name(v)' = Name(v)
    BY <2>1 DEF Writes, StoreInv, TypeOK, Name
  <2>3. ASSUME NEW v \in Workers, step'[v] \in {"remove_failed", "failed"}
        PROVE  ~ Present(Name(v))'
    <3>1. CASE v # w
      BY <2>1, <2>2, <2>3, <3>1, OthersAreApart
    <3>2. CASE v = w
      <4>1. step'[w] = to
        BY <2>1 DEF Writes, StoreInv, TypeOK
      <4> QED BY <2>1, <2>2, <2>3, <3>2, <4>1 DEF Writes, Present
    <3> QED BY <3>1, <3>2
  <2>4. UNCHANGED <<machine, phase, queue, seen, refs, errors, report>>
    BY <2>1 DEF Writes
  <2> QED BY <2>2, <2>3, <2>4
<1>2. ASSUME NEW w \in Workers, Mark(w) PROVE FailuresAreLosses'
  <2>1. /\ step[w] = "put" /\ phase = "assessing"
        /\ UNCHANGED <<machine, phase, tmp, file, errors, report>> /\ w \in Writers
    BY <1>2 DEF Mark, At, Writers
  <2>2. CASE Name(w) \in seen
    <3>1. UNCHANGED <<seen, step>> /\ queue' = [queue EXCEPT ![w] = Tail(queue[w])]
      BY <1>2, <2>2 DEF Mark, Advance
    <3>2. \A v \in Workers : step[v] # "put" => Name(v)' = Name(v)
      BY <2>1, <3>1 DEF Name, StoreInv, TypeOK
    <3> QED BY <2>1, <3>1, <3>2 DEF Present
  <2>3. CASE Name(w) \notin seen
    <3>1. /\ seen' = seen \cup {Name(w)} /\ UNCHANGED <<refs, queue>>
          /\ step' = [step EXCEPT ![w] = "open"]
      BY <1>2, <2>3 DEF Mark, Goto
    <3>2. \A v \in Workers : /\ Name(v)' = Name(v)
                             /\ step'[v] = IF v = w THEN "open" ELSE step[v]
      BY <3>1 DEF Name, StoreInv, TypeOK, Writers
    <3> QED BY <2>1, <2>3, <3>1, <3>2 DEF Present
  <2> QED BY <2>2, <2>3
<1>3. ASSUME NEW w \in Workers, PutDone(w) PROVE FailuresAreLosses'
  <2>1. /\ step[w] \in {"done", "failed"} /\ phase = "assessing" /\ w \in Writers
        /\ queue' = [queue EXCEPT ![w] = Tail(queue[w])] /\ step' = [step EXCEPT ![w] = "put"]
        /\ UNCHANGED <<machine, phase, tmp, file, seen, report>>
        /\ \/ UNCHANGED errors
           \/ errors' = [errors EXCEPT ![w] = errors[w] \cup {Name(w)}]
    BY <1>3 DEF PutDone, At, Advance, Goto, Writers
  <2>2. \A v \in Workers : step'[v] # "put" => /\ v # w /\ step[v] = step'[v]
                                               /\ Name(v)' = Name(v) /\ Name(v) # Name(w)
    BY <2>1 DEF Name, StoreInv, TypeOK, StoredOnce, Writers
  <2>3. \A v \in Workers : errors'[v] \subseteq errors[v] \cup {Name(w)}
    BY <2>1 DEF StoreInv, TypeOK
  <2>4. Name(w) \in seen
    BY <2>1 DEF StoreInv, MarkedBeforeWritten
  <2> QED BY <2>1, <2>2, <2>3, <2>4 DEF Present
<1>4. CASE Assemble
  <2>1. \A v \in Workers : step'[v] = step[v] /\ Name(v)' = Name(v)
    BY <1>4 DEF Assemble, Goto, Name, StoreInv, TypeOK, Writers
  <2> QED BY <1>4, <2>1 DEF Assemble, Present
<1>5. CASE Written
  <2>1. \A v \in Workers : step'[v] = step[v] /\ Name(v)' = Name(v)
    BY <1>5 DEF Written, Advance, Goto, Name, StoreInv, TypeOK, Writers
  <2>2. phase' \in {"setup", "assessing"} => phase = "setup" \/ phase' = phase
    BY <1>5 DEF Written
  <2>3. phase' = "setup" => phase = "setup"
    BY <1>5 DEF Written
  <2> QED BY <1>5, <2>1, <2>2, <2>3 DEF Written, Present
<1>6. CASE Kill
  BY <1>6 DEF Kill, Name, Present
<1>7. CASE PowerLoss
  <2>1. \A n \in Names : file'[n] = "synced" => file[n] = "synced"
    BY <1>7 DEF PowerLoss
  <2>2. \A v \in Workers : Name(v)' = Name(v) /\ (step[v] # "put" => Name(v) \in Names)
    BY <1>7, WhoseName DEF PowerLoss, Name
  <2> QED BY <1>7, <2>1, <2>2 DEF PowerLoss, Present
<1>8. CASE UNCHANGED vars
  BY <1>8 DEF vars, Name, Present
<1> QED
  BY <1>1, <1>2, <1>3, <1>4, <1>5, <1>6, <1>7, <1>8 DEF Next, Over

-----------------------------------------------------------------------------
(* The refinement mapping, and one lemma per kind of step.                 *)

StoredSet == {d \in Digests : Present(d)}
LostSet == UNION {errors[w] : w \in Workers}
PromisedSet == UNION {refs[w] : w \in Workers}

LEMMA KeptInitially == Init => Kept!Init
<1> SUFFICES ASSUME Init PROVE Kept!Init
  OBVIOUS
<1>1. StoredSet = {} /\ LostSet = {} /\ PromisedSet = {}
  BY DEF Init, StoredSet, LostSet, PromisedSet, Present, Names
<1> QED
  BY <1>1 DEF Init, Kept!Init, Nothing, StoredSet, LostSet, PromisedSet

\* What the set sees of a state in which workers are storing.
LEMMA WorkersAreWorking ==
  ASSUME StoreInv, machine = "up", phase = "assessing" PROVE Kept!Working
BY DEF Kept!Working

\* The sets the mapping is made of, when only some of the state changes.
LEMMA SameSets ==
  /\ UNCHANGED file => UNCHANGED StoredSet
  /\ UNCHANGED errors => UNCHANGED LostSet
  /\ UNCHANGED refs => UNCHANGED PromisedSet
BY DEF StoredSet, LostSet, PromisedSet, Present

LEMMA Stutters ==
  ASSUME UNCHANGED <<seen, StoredSet, errors, refs, report>>,
         phase' \in {"writing", "ended"} <=> phase \in {"writing", "ended"},
         machine' = "powerless" <=> machine = "powerless"
  PROVE  UNCHANGED Kept!vars
<1>1. UNCHANGED <<LostSet, PromisedSet>>
  BY SameSets
<1>2. (phase \in {"writing", "ended"})' = (phase \in {"writing", "ended"})
  OBVIOUS
<1>3. (machine = "powerless")' = (machine = "powerless")
  OBVIOUS
<1> QED
  BY <1>1, <1>2, <1>3 DEF Kept!vars, StoredSet, LostSet, PromisedSet

LEMMA WriteFileKeepsOne ==
  ASSUME StoreInv, FailuresAreLosses, NEW w \in Writers, WriteFile(w)
  PROVE  [\E d \in Digests : Kept!Keep(d)]_Kept!vars
<1>1. PICK to \in {"fill", "sync", "rename", "remove", "remove_failed", "done", "failed"} :
        Writes(w, to)
  BY WriteFileWrites
<1>2. CASE UNCHANGED file
  BY <1>1, <1>2, SameSets, Stutters DEF Writes
<1>3. CASE step[w] = "rename" /\ to = "remove" /\ file' = [file EXCEPT ![Name(w)] = "synced"]
  <2>1. Name(w) \in Names /\ Digests \subseteq Names
    BY <1>1, WhoseName DEF Writes, Writers
  <2>2. \A n \in Names : file'[n] = IF n = Name(w) THEN "synced" ELSE file[n]
    BY <1>3, <2>1 DEF StoreInv, TypeOK
  <2>3. CASE w = Command
    <3>1. Name(w) \notin Digests
      BY <1>1, <2>3, WhoseName DEF Writes
    <3>2. UNCHANGED StoredSet
      BY <2>1, <2>2, <3>1 DEF StoredSet, Present
    <3> QED BY <1>1, <3>2, Stutters DEF Writes
  <2>4. CASE w \in Workers
    <3>1. Name(w) \in Digests /\ Name(w) \in seen
      BY <1>1, <2>4, WhoseName DEF Writes, StoreInv, MarkedBeforeWritten
    <3>2. Name(w) \notin StoredSet
      BY <1>3, <2>4 DEF StoreInv, StoredOnce, StoredSet
    <3>3. Name(w) \notin LostSet
      BY <1>1, <2>4 DEF FailuresAreLosses, LostSet, Writes
    <3>4. StoredSet' = StoredSet \cup {Name(w)}
      BY <2>1, <2>2, <3>1 DEF StoredSet, Present
    <3>5. Kept!Working
      BY <1>1, <2>4, WorkersAreWorking DEF Writes
    <3>6. UNCHANGED <<seen, LostSet, PromisedSet, report, phase, machine>>
      BY <1>1, SameSets DEF Writes
    <3>7. Kept!Keep(Name(w))
      BY <3>1, <3>2, <3>3, <3>4, <3>5, <3>6
      DEF Kept!Keep, Kept!Pending, StoredSet, LostSet, PromisedSet
    <3> QED BY <3>1, <3>7
  <2> QED BY <2>3, <2>4 DEF Writers
<1> QED
  BY <1>1, <1>2, <1>3 DEF Writes

\* One more member in one of a family of sets is one more in their union.
LEMMA UnionGrows ==
  ASSUME NEW F \in [Workers -> SUBSET Digests], NEW w \in Workers, NEW d \in Digests
  PROVE  UNION {[F EXCEPT ![w] = F[w] \cup {d}][v] : v \in Workers} =
           (UNION {F[v] : v \in Workers}) \cup {d}
OBVIOUS

LEMMA MarkTakesOrPromises ==
  ASSUME StoreInv, FailuresAreLosses, NEW w \in Workers, Mark(w)
  PROVE  \E d \in Digests : Kept!Take(d) \/ Kept!Promise(d)
<1>1. /\ machine = "up" /\ phase = "assessing" /\ queue[w] # <<>>
      /\ UNCHANGED <<machine, phase, tmp, file, errors, report>>
  BY DEF Mark, At
<1>2. PICK d \in Digests : d = Name(w)
  BY <1>1, HeadAndTail DEF StoreInv, QueuesMatchPhase, Name
<1>3. Kept!Working
  BY <1>1, WorkersAreWorking
<1>4. UNCHANGED <<StoredSet, LostSet>>
  BY <1>1, SameSets
<1>5. CASE Name(w) \in seen
  <2>1. UNCHANGED seen /\ refs' = [refs EXCEPT ![w] = refs[w] \cup {Name(w)}]
    BY <1>5 DEF Mark, Return
  <2>2. PromisedSet' = PromisedSet \cup {d}
    BY <1>2, <2>1, UnionGrows DEF StoreInv, TypeOK, PromisedSet
  <2>3. Kept!Promise(d)
    BY <1>1, <1>2, <1>3, <1>4, <1>5, <2>1, <2>2
    DEF Kept!Promise, StoredSet, LostSet, PromisedSet
  <2> QED BY <2>3
<1>6. CASE Name(w) \notin seen
  <2>1. seen' = seen \cup {Name(w)} /\ UNCHANGED refs
    BY <1>6 DEF Mark
  <2>2. UNCHANGED PromisedSet
    BY <2>1, SameSets
  <2>3. Kept!Take(d)
    BY <1>1, <1>2, <1>3, <1>4, <1>6, <2>1, <2>2
    DEF Kept!Take, StoredSet, LostSet, PromisedSet
  <2> QED BY <2>3
<1> QED
  BY <1>5, <1>6

LEMMA PutDonePromisesOrLoses ==
  ASSUME StoreInv, FailuresAreLosses, NEW w \in Workers, PutDone(w)
  PROVE  \E d \in Digests : Kept!Lose(d) \/ Kept!Promise(d)
<1>1. /\ machine = "up" /\ phase = "assessing" /\ step[w] \in {"done", "failed"}
      /\ UNCHANGED <<machine, phase, tmp, file, seen, report>>
  BY DEF PutDone, At
<1>2. PICK d \in Digests : d = Name(w) /\ d \in seen
  BY <1>1, WhoseName DEF StoreInv, MarkedBeforeWritten
<1>3. Kept!Working
  BY <1>1, WorkersAreWorking
<1>4. UNCHANGED StoredSet
  BY <1>1, SameSets
<1>5. CASE Return(w) /\ UNCHANGED errors
  <2>1. PromisedSet' = PromisedSet \cup {d}
    BY <1>2, <1>5, UnionGrows DEF StoreInv, TypeOK, PromisedSet, Return
  <2>2. UNCHANGED LostSet
    BY <1>5, SameSets
  <2>3. Kept!Promise(d)
    BY <1>1, <1>2, <1>3, <1>4, <2>1, <2>2
    DEF Kept!Promise, StoredSet, LostSet, PromisedSet
  <2> QED BY <2>3
<1>6. CASE /\ step[w] = "failed" /\ UNCHANGED refs
           /\ errors' = [errors EXCEPT ![w] = errors[w] \cup {Name(w)}]
  <2>1. LostSet' = LostSet \cup {d}
    BY <1>2, <1>6, UnionGrows DEF StoreInv, TypeOK, LostSet
  <2>2. UNCHANGED PromisedSet
    BY <1>6, SameSets
  <2>3. d \notin StoredSet /\ d \notin LostSet
    BY <1>2, <1>6 DEF FailuresAreLosses, StoredSet, LostSet
  <2>4. Kept!Lose(d)
    BY <1>1, <1>2, <1>3, <1>4, <2>1, <2>2, <2>3
    DEF Kept!Lose, Kept!Pending, StoredSet, LostSet, PromisedSet
  <2> QED BY <2>4
<1> QED
  BY <1>5, <1>6 DEF PutDone, At

\* Nobody is storing when the report is assembled, so that nothing is pending.
LEMMA AssembleCloses == ASSUME StoreInv, FailuresAreLosses, Assemble PROVE Kept!Close
<1>1. /\ machine = "up" /\ phase = "assessing" /\ \A w \in Workers : queue[w] = <<>>
      /\ report' = [refs |-> PromisedSet, failures |-> LostSet] /\ phase' = "writing"
      /\ UNCHANGED <<machine, tmp, file, seen, refs, errors>>
  BY DEF Assemble, PromisedSet, LostSet
<1>2. \A d \in seen : Stored(d)
  BY <1>1 DEF StoreInv, StepsMatchPhase, MarkedIsAccounted
<1>3. seen \ (StoredSet \cup LostSet) = {}
  BY <1>2 DEF Stored, StoredSet, LostSet, StoreInv, TypeOK
<1>4. UNCHANGED <<StoredSet, LostSet, PromisedSet>>
  BY <1>1, SameSets
<1>5. Kept!Working
  BY <1>1, WorkersAreWorking
<1> QED
  BY <1>1, <1>3, <1>4, <1>5 DEF Kept!Close, Kept!Pending, StoredSet, LostSet, PromisedSet

\* The command's own files are not exchanges; a setup that fails closes an empty set.
LEMMA WrittenCloses ==
  ASSUME StoreInv, FailuresAreLosses, Written
  PROVE  [Kept!Close]_Kept!vars
<1>1. /\ machine = "up" /\ phase \in {"setup", "writing"}
      /\ UNCHANGED <<machine, tmp, file, seen, refs, errors, report>>
  BY DEF Written, At, StoreInv, TypeOK, QueuesMatchPhase
<1>2. UNCHANGED <<StoredSet, LostSet, PromisedSet>>
  BY <1>1, SameSets
<1>3. CASE phase' \in {"writing", "ended"} <=> phase \in {"writing", "ended"}
  BY <1>1, <1>2, <1>3, Stutters
<1>4. CASE ~ (phase' \in {"writing", "ended"} <=> phase \in {"writing", "ended"})
  <2>1. phase = "setup" /\ phase' = "ended"
    BY <1>1, <1>4 DEF Written
  <2>2. seen = {} /\ report = Nothing
    BY <2>1 DEF FailuresAreLosses
  <2>3. StoredSet = {} /\ LostSet = {} /\ PromisedSet = {}
    BY <2>2 DEF FailuresAreLosses, StoreInv, MarkedBeforeWritten, StoredSet, LostSet,
       PromisedSet, Present
  <2> QED BY <1>1, <1>2, <2>1, <2>2, <2>3
    DEF Kept!Close, Kept!Pending, Kept!Working, Nothing, StoredSet, LostSet, PromisedSet
<1> QED
  BY <1>3, <1>4

LEMMA PowerLossLoses ==
  ASSUME StoreInv, PowerLoss
  PROVE  Kept!PowerLoss
<1>1. /\ machine # "powerless" /\ machine' = "powerless"
      /\ UNCHANGED <<phase, queue, step, tmp, seen, refs, errors, report>>
  BY DEF PowerLoss
<1>2. \A n \in Names : file'[n] = "synced" => file[n] = "synced"
  BY DEF PowerLoss
<1>3. StoredSet' \in SUBSET StoredSet
  BY <1>2, WhoseName DEF StoredSet, Present
<1>4. UNCHANGED <<LostSet, PromisedSet>>
  BY <1>1, SameSets
<1> QED
  BY <1>1, <1>3, <1>4 DEF Kept!PowerLoss, StoredSet, LostSet, PromisedSet

LEMMA KeptStep ==
  ASSUME StoreInv, FailuresAreLosses, [Next]_vars
  PROVE  [Kept!Next]_Kept!vars
<1>1. ASSUME NEW w \in Writers, WriteFile(w) PROVE [Kept!Next]_Kept!vars
  BY <1>1, WriteFileKeepsOne DEF Kept!Next
<1>2. ASSUME NEW w \in Workers, Mark(w) \/ PutDone(w) PROVE [Kept!Next]_Kept!vars
  BY <1>2, MarkTakesOrPromises, PutDonePromisesOrLoses DEF Kept!Next
<1>3. CASE Assemble
  BY <1>3, AssembleCloses DEF Kept!Next
<1>4. CASE Written
  BY <1>4, WrittenCloses DEF Kept!Next
<1>5. CASE PowerLoss
  BY <1>5, PowerLossLoses DEF Kept!Next
<1>6. CASE Kill
  BY <1>6, SameSets, Stutters DEF Kill
<1>7. CASE UNCHANGED vars
  BY <1>7, SameSets, Stutters DEF vars
<1> QED
  BY <1>1, <1>2, <1>3, <1>4, <1>5, <1>6, <1>7 DEF Next, Over

\* For any workers and exchanges, whichever write fails and whenever the process dies: what
\* the run directory does with evidence is what module EvidenceSet does.
THEOREM KeepsEvidence == Spec => ImplementsEvidenceSet
<1>1. Init => StoreInv /\ FailuresAreLosses /\ Kept!Init
  BY Initially, FailuresInitially, KeptInitially
<1>2. StoreInv /\ FailuresAreLosses /\ [Next]_vars =>
        StoreInv' /\ FailuresAreLosses' /\ [Kept!Next]_Kept!vars
  BY StepKeeps, FailuresKept, KeptStep
<1> QED
  BY <1>1, <1>2, PTL DEF Spec, ImplementsEvidenceSet, Kept!Spec

-----------------------------------------------------------------------------
(* What follows from that for the reader of the report.                    *)

SetInv ==
  /\ PromisedSet \subseteq seen
  /\ machine # "powerless" =>
       /\ StoredSet \cap LostSet = {}
       /\ phase \in {"writing", "ended"} => /\ report.failures = LostSet
                                           /\ report.refs \subseteq StoredSet \cup LostSet

LEMMA SetInitially == Kept!Init => SetInv
BY DEF Kept!Init, SetInv, StoredSet, LostSet, PromisedSet

LEMMA SetStep == SetInv /\ [Kept!Next]_Kept!vars => SetInv'
<1> SUFFICES ASSUME SetInv, [Kept!Next]_Kept!vars PROVE SetInv'
  OBVIOUS
<1>1. ASSUME NEW d \in Digests, Kept!Take(d) PROVE SetInv'
  <2>1. /\ seen' = seen \cup {d} /\ ~ (phase \in {"writing", "ended"})'
        /\ UNCHANGED <<StoredSet, LostSet, PromisedSet>> /\ machine # "powerless"
    BY <1>1 DEF Kept!Take, Kept!Working, StoredSet, LostSet, PromisedSet
  <2> QED BY <2>1 DEF SetInv
<1>2. ASSUME NEW d \in Digests, Kept!Keep(d) PROVE SetInv'
  <2>1. /\ StoredSet' = StoredSet \cup {d} /\ d \notin LostSet
        /\ UNCHANGED <<seen, LostSet, PromisedSet>>
    BY <1>2 DEF Kept!Keep, Kept!Pending, StoredSet, LostSet, PromisedSet
  <2>2. ~ (phase \in {"writing", "ended"})' /\ machine # "powerless"
    BY <1>2 DEF Kept!Keep, Kept!Working
  <2> QED BY <2>1, <2>2 DEF SetInv
<1>3. ASSUME NEW d \in Digests, Kept!Lose(d) PROVE SetInv'
  <2>1. /\ LostSet' = LostSet \cup {d} /\ d \notin StoredSet
        /\ UNCHANGED <<seen, StoredSet, PromisedSet>>
    BY <1>3 DEF Kept!Lose, Kept!Pending, StoredSet, LostSet, PromisedSet
  <2>2. ~ (phase \in {"writing", "ended"})' /\ machine # "powerless"
    BY <1>3 DEF Kept!Lose, Kept!Working
  <2> QED BY <2>1, <2>2 DEF SetInv
<1>4. ASSUME NEW d \in Digests, Kept!Promise(d) PROVE SetInv'
  <2>1. /\ PromisedSet' = PromisedSet \cup {d} /\ d \in seen
        /\ UNCHANGED <<seen, StoredSet, LostSet>>
    BY <1>4 DEF Kept!Promise, StoredSet, LostSet, PromisedSet
  <2>2. ~ (phase \in {"writing", "ended"})' /\ machine # "powerless"
    BY <1>4 DEF Kept!Promise, Kept!Working
  <2> QED BY <2>1, <2>2 DEF SetInv
<1>5. CASE Kept!Close
  <2>1. /\ seen \subseteq StoredSet \cup LostSet
        /\ report' = [refs |-> PromisedSet, failures |-> LostSet]
        /\ UNCHANGED <<seen, StoredSet, LostSet, PromisedSet>>
    BY <1>5 DEF Kept!Close, Kept!Pending, StoredSet, LostSet, PromisedSet
  <2>2. machine # "powerless"
    BY <1>5 DEF Kept!Close, Kept!Working
  <2> QED BY <2>1, <2>2 DEF SetInv
<1>6. CASE Kept!PowerLoss
  <2>1. UNCHANGED <<seen, PromisedSet>> /\ machine' = "powerless"
    BY <1>6 DEF Kept!PowerLoss, PromisedSet
  <2> QED BY <2>1 DEF SetInv
<1>7. CASE UNCHANGED Kept!vars
  <2>1. /\ UNCHANGED <<seen, StoredSet, LostSet, PromisedSet, report>>
        /\ (phase \in {"writing", "ended"})' = (phase \in {"writing", "ended"})
        /\ (machine = "powerless")' = (machine = "powerless")
    BY <1>7 DEF Kept!vars, StoredSet, LostSet, PromisedSet
  <2> QED BY <2>1 DEF SetInv
<1> QED
  BY <1>1, <1>2, <1>3, <1>4, <1>5, <1>6, <1>7 DEF Kept!Next

\* As long as there is power, no exchange is both stored and stated lost, and an assembled
\* report states the losses there are, no fewer and no more.
THEOREM ReportStatesWhatIs == Spec => []Kept!StatesWhatIs
<1>1. Kept!Spec => []SetInv
  BY SetInitially, SetStep, PTL DEF Kept!Spec
<1>2. SetInv => Kept!StatesWhatIs
  BY DEF SetInv, Kept!StatesWhatIs, StoredSet, LostSet
<1> QED
  BY <1>1, <1>2, KeepsEvidence, PTL DEF ImplementsEvidenceSet

HIDE StoreAssumption

-----------------------------------------------------------------------------
(*                                Client                                   *)
-----------------------------------------------------------------------------
\* The provers do not see that a literal is a string.
Character == STRING \cup {"a", "t"}

LEMMA SuffixFacts ==
  ASSUME NEW s \in Seq(Character), NEW t \in Seq(Character), L!IsSuffix(s, t)
  PROVE  Len(s) <= Len(t) /\ \A i \in 1 .. Len(s) : s[i] = t[i + (Len(t) - Len(s))]
<1>1. /\ L!Reverse(s) \in Seq(Character) /\ Len(L!Reverse(s)) = Len(s)
      /\ L!Reverse(t) \in Seq(Character) /\ Len(L!Reverse(t)) = Len(t)
      /\ \A i \in 1 .. Len(s) : L!Reverse(s)[i] = s[Len(s) - i + 1]
      /\ \A i \in 1 .. Len(t) : L!Reverse(t)[i] = t[Len(t) - i + 1]
  BY DEF L!Reverse
<1>2. /\ Len(s) <= Len(t)
      /\ SubSeq(L!Reverse(s), 1, Len(s)) = SubSeq(L!Reverse(t), 1, Len(s))
  BY <1>1 DEF L!IsSuffix, L!IsPrefix
<1>3. ASSUME NEW i \in 1 .. Len(s) PROVE s[Len(s) - i + 1] = t[Len(t) - i + 1]
  <2> DEFINE r == L!Reverse(s)  q == L!Reverse(t)  n == Len(s)
  <2>1. SubSeq(r, 1, n)[i] = r[i] /\ SubSeq(q, 1, n)[i] = q[i]
    <3> HIDE DEF r, q
    <3>1. r \in Seq(Character) /\ q \in Seq(Character) /\ Len(r) = n /\ n <= Len(q) /\ n \in Nat
      BY <1>1, <1>2 DEF r, q
    <3> QED BY <3>1
  <2> QED BY <1>1, <1>2, <2>1
<1>4. ASSUME NEW i \in 1 .. Len(s) PROVE s[i] = t[i + (Len(t) - Len(s))]
  <2>1. Len(s) - i + 1 \in 1 .. Len(s)
    OBVIOUS
  <2> QED BY <2>1, <1>3, <1>2
<1> QED BY <1>2, <1>4

LEMMA DomainsAreFinite ==
  ASSUME NEW s \in Seq(Character)
  PROVE  IsFiniteSet({i \in DOMAIN s : s[i] = "."})
<1>1. IsFiniteSet(1 .. Len(s))
  BY FS_Interval
<1>2. {i \in DOMAIN s : s[i] = "."} \in SUBSET (1 .. Len(s))
  OBVIOUS
<1> QED BY <1>1, <1>2, FS_Subset

LEMMA FirstDot ==
  ASSUME NEW s \in Seq(Character), NEW d \in DOMAIN s, s[d] = ".",
         \A j \in 1 .. d - 1 : s[j] # "."
  PROVE  L!AfterDot(s) = SubSeq(s, d, Len(s))
<1> DEFINE Q(i) == s[i] = "." /\ \A j \in 1 .. i - 1 : s[j] # "."
<1>1. \A i \in DOMAIN s : Q(i) => i = d
  OBVIOUS
<1>2. (CHOOSE i \in DOMAIN s : Q(i)) = d
  <2> Q(d)
    OBVIOUS
  <2> HIDE DEF Q
  <2> QED BY <1>1
<1> QED BY <1>2 DEF L!AfterDot

LEMMA WildcardIsOneLabel ==
  ASSUME NEW e \in Seq(Character), NEW h \in Seq(Character), L!HostMatches(e, h)
  PROVE  L!Names(e, h)
<1> SUFFICES ASSUME e # h PROVE L!Names(e, h)
  BY DEF L!Names
<1> DEFINE k == Len(h) - (Len(e) - 1)
<1>1. Len(e) >= 2 /\ e[1] = "*" /\ e[2] = "."
  <2>1. L!IsPrefix(<<"*", ".">>, e)
    BY DEF L!HostMatches, L!Wildcard
  <2>2. 2 <= Len(e) /\ SubSeq(<<"*", ".">>, 1, 2) = SubSeq(e, 1, 2)
    BY <2>1 DEF L!IsPrefix
  <2>3. SubSeq(<<"*", ".">>, 1, 2)[1] = "*" /\ SubSeq(<<"*", ".">>, 1, 2)[2] = "."
    OBVIOUS
  <2>4. SubSeq(e, 1, 2)[1] = e[1] /\ SubSeq(e, 1, 2)[2] = e[2]
    BY <2>2
  <2> QED BY <2>2, <2>3, <2>4
<1>2. Tail(e) \in Seq(Character) /\ Len(Tail(e)) = Len(e) - 1
      /\ \A i \in 1 .. Len(e) - 1 : Tail(e)[i] = e[i + 1]
  BY <1>1
<1>3. Len(Tail(e)) <= Len(h) /\ \A i \in 1 .. Len(e) - 1 : Tail(e)[i] = h[i + k]
  <2>1. L!IsSuffix(Tail(e), h)
    BY DEF L!HostMatches
  <2> QED BY <2>1, <1>2, SuffixFacts
<1>4. k \in Nat /\ L!Label(e, h) = SubSeq(h, 1, k)
  BY <1>1, <1>2, <1>3 DEF L!Label
<1>5. k \in Nat \ {0} /\ Len(h) = k + Len(e) - 1
      /\ \A i \in 1 .. k : h[i] # "."
  <2>1. L!Label(e, h) # <<>> /\ ~ L!Contains(L!Label(e, h), ".")
    BY DEF L!HostMatches
  <2>2. k <= Len(h)
    BY <1>1
  <2>3. SubSeq(h, 1, k) \in Seq(Character) /\ Len(SubSeq(h, 1, k)) = k
        /\ \A i \in 1 .. k : SubSeq(h, 1, k)[i] = h[i]
    <3> HIDE DEF k
    <3> QED BY <1>4, <2>2
  <2>4. k # 0
    <3> HIDE DEF k
    <3> QED BY <2>1, <1>4, <2>3
  <2> QED BY <2>1, <1>4, <2>3, <2>4 DEF L!Contains
<1>6. \A i \in 1 .. Len(e) - 1 : h[i + k] = e[i + 1]
  BY <1>2, <1>3
<1> HIDE DEF k
<1>7. L!Dots(h) = L!Dots(e)
  <2> DEFINE D == {i \in DOMAIN h : h[i] = "."}
             E == {i \in DOMAIN e : e[i] = "."}
             f == [i \in D |-> i - k + 1]
  <2>1. IsFiniteSet(D)
    BY DomainsAreFinite
  <2>2. \A i \in D : i \in Nat /\ i > k /\ i - k + 1 \in E
    BY <1>1, <1>5, <1>6
  <2>3. ASSUME NEW j \in E PROVE j \in Nat /\ j >= 2 /\ j + k - 1 \in D
    <3>1. j \in 1 .. Len(e) /\ j # 1
      BY <1>1
    <3>2. h[j + k - 1] = e[j]
      <4>1. j - 1 \in 1 .. Len(e) - 1
        BY <3>1, <1>1
      <4>2. h[(j - 1) + k] = e[(j - 1) + 1]
        BY <4>1, <1>6
      <4>3. (j - 1) + k = j + k - 1 /\ (j - 1) + 1 = j
        BY <3>1, <1>5
      <4> QED BY <4>2, <4>3
    <3>3. j + k - 1 \in 1 .. Len(h)
      BY <3>1, <1>5
    <3> QED BY <3>1, <3>2, <3>3
  <2>4. f \in Bijection(D, E)
    <3> HIDE DEF D, E
    <3>1. f \in [D -> E]
      BY <2>2
    <3>2. \A i, j \in D : f[i] = f[j] => i = j
      BY <2>2, <1>5
    <3>3. ASSUME NEW j \in E PROVE \E i \in D : f[i] = j
      <4>1. j + k - 1 \in D /\ f[j + k - 1] = (j + k - 1) - k + 1
        BY <2>3
      <4>2. (j + k - 1) - k + 1 = j
        BY <2>3, <1>5
      <4> QED BY <4>1, <4>2
    <3> HIDE DEF f
    <3> QED BY <3>1, <3>2, <3>3 DEF Bijection, Injection, IsInjective, Surjection
  <2>5. L!Dots(h) = Cardinality(D) /\ L!Dots(e) = Cardinality(E)
    BY DEF L!Dots, L!Cardinality, Cardinality
  <2>6. ExistsBijection(D, E)
    BY <2>4 DEF ExistsBijection
  <2> HIDE DEF D, E
  <2> QED BY <2>1, <2>5, <2>6, FS_Bijection
<1>8. L!AfterDot(h) = SubSeq(h, k + 1, Len(h))
  <2>1. k + 1 \in DOMAIN h /\ h[k + 1] = "."
    BY <1>1, <1>5, <1>6
  <2> QED BY <2>1, <1>5, FirstDot
<1>9. L!AfterDot(e) = SubSeq(e, 2, Len(e))
  BY <1>1, FirstDot
<1>10. SubSeq(h, k + 1, Len(h)) = SubSeq(e, 2, Len(e))
  <2>1. Len(SubSeq(h, k + 1, Len(h))) = Len(e) - 1 /\ Len(SubSeq(e, 2, Len(e))) = Len(e) - 1
    BY <1>1, <1>5
  <2>2. \A i \in 1 .. Len(e) - 1 :
          SubSeq(h, k + 1, Len(h))[i] = h[k + i] /\ SubSeq(e, 2, Len(e))[i] = e[1 + i]
    BY <1>1, <1>5
  <2>3. SubSeq(h, k + 1, Len(h)) \in Seq(Character) /\ SubSeq(e, 2, Len(e)) \in Seq(Character)
    BY <1>1, <1>5
  <2>4. \A i \in 1 .. Len(e) - 1 : h[k + i] = e[1 + i]
    BY <1>6, <1>5
  <2> DEFINE a == SubSeq(h, k + 1, Len(h))  b == SubSeq(e, 2, Len(e))
  <2>5. \A i \in 1 .. Len(e) - 1 : a[i] = b[i]
    BY <2>2, <2>4
  <2>6. a \in Seq(Character) /\ b \in Seq(Character) /\ Len(a) = Len(e) - 1 /\ Len(b) = Len(e) - 1
    BY <2>1, <2>3
  <2> HIDE DEF a, b
  <2>7. a = b
    BY <2>5, <2>6
  <2> QED BY <2>7 DEF a, b
<1>11. Head(e) = "*" /\ Head(h) # "."
  BY <1>1, <1>5
<1> QED BY <1>7, <1>8, <1>9, <1>10, <1>11 DEF L!Names

USE ClientConstants DEF L!ClientAssumption

LEMMA NormalIsName == ASSUME NEW h \in Seq(Character) PROVE L!Normal(h) \in Seq(Character)
<1> DEFINE bare == IF h # <<>> /\ L!Last(h) = "." THEN L!Front(h) ELSE h
<1>1. bare \in Seq(Character)
  <2>1. h # <<>> => SubSeq(h, 1, Len(h) - 1) \in Seq(Character)
    OBVIOUS
  <2> QED BY <2>1 DEF L!Front
<1>2. \A i \in 1 .. Len(bare) : L!Small(bare[i]) \in Character
  <2>1. ASSUME NEW ch \in Character PROVE L!Small(ch) \in Character
    BY DEF L!Small, Character
  <2>2. \A i \in 1 .. Len(bare) : bare[i] \in Character
    <3> HIDE DEF bare
    <3> QED BY <1>1
  <2> QED BY <2>1, <2>2
<1>3. L!Normal(h) = [i \in 1 .. Len(bare) |-> L!Small(bare[i])]
  BY <1>1 DEF L!Normal
<1> HIDE DEF bare
<1> QED BY <1>1, <1>2, <1>3

\* What CheckURL grants, the operator granted.
LEMMA GrantsAreMeant ==
  ASSUME NEW u \in Urls, L!CheckURL(u)
  PROVE  L!Granted(u)
<1>1. PICK e \in Entries : L!Grants(e, u)
  BY DEF L!CheckURL
<1>2. L!Names(e.host, L!Normal(u.host))
  <2>1. e.host \in Seq(STRING) /\ u.host \in Seq(STRING)
    OBVIOUS
  <2>2. \A s \in Seq(STRING) : s \in Seq(Character)
    BY DEF Character
  <2> QED BY <2>1, <2>2, <1>1, NormalIsName, WildcardIsOneLabel DEF L!Grants
<1>3. e.scheme # "" => e.scheme = u.scheme
  BY <1>1 DEF L!Grants
<1>4. \/ u.port \in e.ports
      \/ u.port = L!Unstated /\ L!DefaultPort(u.scheme) \in e.ports
      \/ e.ports = {} /\ u.port \in {L!Unstated, L!DefaultPort(u.scheme)}
  BY <1>1 DEF L!Grants, L!PortMatches, L!EffectivePort
<1> QED BY <1>2, <1>3, <1>4 DEF L!Granted

-----------------------------------------------------------------------------
(* What holds of every request at every moment.                            *)

\* Nothing is looked up, tried or sent before the URL has passed.
GatedByURL(c) ==
  \/ at[c] \in {"resolve", "dial", "await"}
  \/ trace[c].looked \/ trace[c].dialled # {} \/ trace[c].sent # L!Nowhere
  => L!CheckURL(url[c])

\* A request that has not been resolved has left no trace.
UnresolvedIsQuiet(c) == at[c] \in {"wait", "gate", "resolve"} => trace[c] = L!Quiet

\* No connection is tried before all addresses have passed.
GatedByAddress(c) ==
  at[c] = "dial" \/ trace[c].dialled # {} \/ trace[c].sent # L!Nowhere =>
    \A i \in DOMAIN trace[c].resolved : L!CheckAddr(trace[c].resolved[i])

\* What is left to try, and what was sent to, is among the addresses resolved.
TriesTheResolved(c) ==
  /\ at[c] = "dial" => \A i \in DOMAIN candidates[c] : \E j \in DOMAIN trace[c].resolved :
                         candidates[c][i] = trace[c].resolved[j]
  /\ trace[c].sent # L!Nowhere => \E j \in DOMAIN trace[c].resolved :
                                    trace[c].sent = trace[c].resolved[j].reaches

RefusalIsNoted(c) ==
  result[c].kind = "refused" /\ ~ L!Unusable(url[c]) =>
    L!CheckURL(url[c]) \/ L!Normal(url[c].host) \in recorded

Bounded(c) ==
  result[c].kind = "response" =>
    /\ result[c].body <= MaxBodyBytes
    /\ result[c].truncated <=> result[c].length > MaxBodyBytes
    /\ ~ result[c].truncated => result[c].body = result[c].length
    /\ result[c].truncated /\ MaxBodyBytes > TruncationTail =>
         MaxBodyBytes - result[c].body = TruncationTail

Sound(c) ==
  /\ GatedByURL(c) /\ UnresolvedIsQuiet(c) /\ GatedByAddress(c) /\ TriesTheResolved(c)
  /\ RefusalIsNoted(c) /\ Bounded(c)

ClientInv == L!TypeOK /\ \A c \in Callers : Sound(c)

-----------------------------------------------------------------------------
\* The invariant gives the property.
LEMMA SoundStaysInScope == ASSUME ClientInv PROVE NeverLeavesScope
<1> USE DEF ClientInv, Sound
<1>1. L!TypeOK
  OBVIOUS
<1>2. \A c \in Callers : url[c] \in Urls /\ trace[c] \in [looked : BOOLEAN,
        resolved : Seq(Addresses), dialled : SUBSET L!Reachable,
        sent : L!Reachable \cup {L!Nowhere, L!Unverifiable}]
  BY DEF L!TypeOK
<1>3. L!SentWithinScope
  <2> SUFFICES ASSUME NEW c \in Callers, trace[c].sent # L!Nowhere
               PROVE  /\ L!Granted(url[c])
                      /\ trace[c].sent \in L!Reachable
                      /\ L!Permits(Kind[trace[c].sent])
                      /\ trace[c].sent \in
                           {trace[c].resolved[i].reaches : i \in DOMAIN trace[c].resolved}
    BY DEF L!SentWithinScope
  <2>1. PICK j \in DOMAIN trace[c].resolved : trace[c].sent = trace[c].resolved[j].reaches
    BY DEF TriesTheResolved
  <2>2. trace[c].resolved[j] \in Addresses
    BY <1>2
  <2>3. L!CheckAddr(trace[c].resolved[j])
    BY DEF GatedByAddress
  <2> QED BY <1>2, <2>1, <2>2, <2>3, GrantsAreMeant DEF GatedByURL, L!CheckAddr, L!Reachable
<1>4. L!ForbiddenEndsIt
  BY DEF L!ForbiddenEndsIt, GatedByAddress, L!CheckAddr
<1>5. L!NoTrafficForRefused
  BY <1>2, GrantsAreMeant DEF L!NoTrafficForRefused, GatedByURL, RefusalIsNoted
<1>6. L!BodyIsWholeOrSaysSo
  BY DEF L!BodyIsWholeOrSaysSo, Bounded
<1> QED BY <1>1, <1>3, <1>4, <1>5, <1>6 DEF NeverLeavesScope, L!NeverLeavesScope

LEMMA ClientStarts == ASSUME L!Init PROVE ClientInv
<1> USE DEF L!Init
<1>1. L!TypeOK
  <2>1. (CHOOSE u \in Urls : TRUE) \in Urls
    OBVIOUS
  <2>2. L!Quiet \in [looked : BOOLEAN, resolved : Seq(Addresses), dialled : SUBSET L!Reachable,
                    sent : L!Reachable \cup {L!Nowhere, L!Unverifiable}]
    BY DEF L!Quiet
  <2>3. L!NoResult \in [kind : {"none", "response", "lost", "refused"}, length : Nat,
                       body : Nat, truncated : BOOLEAN]
    BY DEF L!NoResult
  <2>4. url \in [Callers -> Urls]
    BY <2>1
  <2>5. /\ trace \in [Callers -> [looked : BOOLEAN, resolved : Seq(Addresses),
                                   dialled : SUBSET L!Reachable,
                                   sent : L!Reachable \cup {L!Nowhere, L!Unverifiable}]]
        /\ result \in [Callers -> [kind : {"none", "response", "lost", "refused"},
                                    length : Nat, body : Nat, truncated : BOOLEAN]]
    BY <2>2, <2>3
  <2>6. left \in [Callers -> 0 .. MaxRequests]
    OBVIOUS
  <2>7. candidates \in [Callers -> Seq(Addresses)]
    OBVIOUS
  <2>8. at \in [Callers -> {"idle"}] /\ \A c \in Callers : at[c] = "idle"
    OBVIOUS
  <2>9. at \in [Callers -> {"idle", "wait", "gate", "resolve", "dial", "await"}]
    BY <2>8
  <2>10. \A c \in Callers : at[c] = "dial" => candidates[c] # <<>>
    BY <2>8
  <2> HIDE DEF L!Init
  <2>11. tick \in BOOLEAN /\ closed \in BOOLEAN /\ cancelled \in BOOLEAN
    BY DEF L!Init
  <2> QED BY <2>4, <2>5, <2>6, <2>7, <2>9, <2>10, <2>11 DEF L!TypeOK
<1>2. \A c \in Callers : Sound(c)
  BY DEF Sound, GatedByURL, UnresolvedIsQuiet, GatedByAddress, TriesTheResolved,
         RefusalIsNoted, Bounded, L!Quiet, L!NoResult, L!Nowhere
<1> QED BY <1>1, <1>2 DEF ClientInv

\* What one caller does leaves the requests of the others as they are.
LEMMA OthersAreLeft ==
  ASSUME ClientInv, L!TypeOK', NEW c \in Callers, Sound(c)', recorded \subseteq recorded',
         \A d \in Callers \ {c} :
           /\ at'[d] = at[d] /\ url'[d] = url[d] /\ candidates'[d] = candidates[d]
           /\ trace'[d] = trace[d] /\ result'[d] = result[d]
  PROVE  ClientInv'
<1>1. ASSUME NEW d \in Callers, d # c PROVE Sound(d)'
  <2>1. Sound(d)
    BY DEF ClientInv
  <2>2. at'[d] = at[d] /\ url'[d] = url[d] /\ candidates'[d] = candidates[d]
        /\ trace'[d] = trace[d] /\ result'[d] = result[d]
    BY <1>1
  <2>3. GatedByURL(d)'
    BY <2>1, <2>2 DEF Sound, GatedByURL
  <2>4. UnresolvedIsQuiet(d)'
    BY <2>1, <2>2 DEF Sound, UnresolvedIsQuiet
  <2>5. GatedByAddress(d)'
    BY <2>1, <2>2 DEF Sound, GatedByAddress
  <2>6. TriesTheResolved(d)'
    BY <2>1, <2>2 DEF Sound, TriesTheResolved
  <2>7. RefusalIsNoted(d)'
    BY <2>1, <2>2 DEF Sound, RefusalIsNoted
  <2>8. Bounded(d)'
    BY <2>1, <2>2 DEF Sound, Bounded
  <2> QED BY <2>3, <2>4, <2>5, <2>6, <2>7, <2>8 DEF Sound
<1> QED BY <1>1 DEF ClientInv
-----------------------------------------------------------------------------
(* One lemma for each step of a request.                                   *)

Places == {"idle", "wait", "gate", "resolve", "dial", "await"}
Trace == [looked : BOOLEAN, resolved : Seq(Addresses), dialled : SUBSET L!Reachable,
          sent : L!Reachable \cup {L!Nowhere, L!Unverifiable}]
Returned == [kind : {"none", "response", "lost", "refused"}, length : Nat, body : Nat,
             truncated : BOOLEAN]

LEMMA ClientTypes ==
  /\ L!TypeOK =>
       /\ at \in [Callers -> Places] /\ url \in [Callers -> Urls]
       /\ left \in [Callers -> 0 .. MaxRequests] /\ candidates \in [Callers -> Seq(Addresses)]
       /\ \A c \in Callers : at[c] = "dial" => candidates[c] # <<>>
       /\ trace \in [Callers -> Trace] /\ result \in [Callers -> Returned]
       /\ tick \in BOOLEAN /\ closed \in BOOLEAN /\ cancelled \in BOOLEAN
  /\ (/\ at' \in [Callers -> Places] /\ url' \in [Callers -> Urls]
      /\ left' \in [Callers -> 0 .. MaxRequests] /\ candidates' \in [Callers -> Seq(Addresses)]
      /\ \A c \in Callers : at'[c] = "dial" => candidates'[c] # <<>>
      /\ trace' \in [Callers -> Trace] /\ result' \in [Callers -> Returned]
      /\ tick' \in BOOLEAN /\ closed' \in BOOLEAN /\ cancelled' \in BOOLEAN)
     => L!TypeOK'
BY DEF L!TypeOK, Places, Trace, Returned

LEMMA Moves ==
  ASSUME L!TypeOK, NEW c \in Callers, NEW from \in Places, NEW to \in Places, L!Goto(c, from, to)
  PROVE  /\ at[c] = from /\ at'[c] = to /\ at' \in [Callers -> Places]
         /\ \A d \in Callers \ {c} : at'[d] = at[d]
BY ClientTypes DEF L!Goto

LEMMA Failures ==
  \A k \in {"lost", "refused"} : L!Failed(k) \in Returned /\ L!Failed(k).kind = k
BY DEF L!Failed, L!NoResult, Returned

LEMMA Returns ==
  ASSUME L!TypeOK, NEW c \in Callers, NEW from \in Places, NEW r \in Returned, L!Return(c, from, r)
  PROVE  /\ at[c] = from /\ at'[c] = "idle" /\ at' \in [Callers -> Places]
         /\ \A d \in Callers \ {c} : at'[d] = at[d]
         /\ result'[c] = r /\ result' \in [Callers -> Returned]
         /\ \A d \in Callers \ {c} : result'[d] = result[d]
<1>1. L!Goto(c, from, "idle") /\ result' = [result EXCEPT ![c] = r]
  BY DEF L!Return
<1>2. "idle" \in Places
  BY DEF Places
<1> QED BY <1>1, <1>2, Moves, ClientTypes

LEMMA BeginKeeps ==
  ASSUME ClientInv, NEW c \in Callers, NEW u \in UrlsOf[c], L!Begin(c, u)
  PROVE  ClientInv'
<1> USE DEF ClientInv
<1>1. u \in Urls
  OBVIOUS
<1>2. /\ at'[c] = "wait" /\ at' \in [Callers -> Places]
      /\ \A d \in Callers \ {c} : at'[d] = at[d]
  BY Moves DEF L!Begin, Places
<1>3. /\ url'[c] = u /\ url' \in [Callers -> Urls]
      /\ trace'[c] = L!Quiet /\ trace' \in [Callers -> Trace]
      /\ candidates'[c] = <<>> /\ candidates' \in [Callers -> Seq(Addresses)]
      /\ result'[c] = L!NoResult /\ result' \in [Callers -> Returned]
  <2>1. L!Quiet \in Trace /\ L!NoResult \in Returned /\ <<>> \in Seq(Addresses)
    BY DEF L!Quiet, L!NoResult, Trace, Returned
  <2> QED BY <1>1, <2>1, ClientTypes DEF L!Begin
<1>4. \A d \in Callers \ {c} : url'[d] = url[d] /\ trace'[d] = trace[d] /\ result'[d] = result[d]
                               /\ candidates'[d] = candidates[d]
  BY ClientTypes DEF L!Begin
<1>5. left' \in [Callers -> 0 .. MaxRequests]
  <2>1. left \in [Callers -> 0 .. MaxRequests] /\ MaxRequests \in Nat
    BY ClientTypes
  <2>2. left[c] > 0 /\ left' = [left EXCEPT ![c] = left[c] - 1]
    BY DEF L!Begin
  <2>3. left[c] - 1 \in 0 .. MaxRequests
    BY <2>1, <2>2
  <2> QED BY <2>1, <2>2, <2>3
<1>6. tick' = tick /\ closed' = closed /\ cancelled' = cancelled /\ recorded' = recorded
  BY DEF L!Begin, L!shared
<1>7. L!TypeOK'
  <2>1. \A d \in Callers : at'[d] = "dial" => candidates'[d] # <<>>
    BY <1>2, <1>4, ClientTypes
  <2> QED BY <1>2, <1>3, <1>5, <1>6, <2>1, ClientTypes
<1>8. Sound(c)'
  BY <1>2, <1>3 DEF Sound, GatedByURL, UnresolvedIsQuiet, GatedByAddress, TriesTheResolved,
                    RefusalIsNoted, Bounded, L!Quiet, L!NoResult, L!Nowhere
<1> HIDE DEF ClientInv
<1> QED BY <1>2, <1>4, <1>6, <1>7, <1>8, OthersAreLeft

LEMMA WaitKeeps ==
  ASSUME ClientInv, NEW c \in Callers, L!Wait(c)
  PROVE  ClientInv'
<1> USE DEF ClientInv
<1>1. /\ at[c] = "wait" /\ at'[c] \in {"gate", "idle"} /\ at' \in [Callers -> Places]
      /\ \A d \in Callers \ {c} : at'[d] = at[d] /\ result'[d] = result[d]
      /\ result'[c] = result[c] \/ result'[c] = L!Failed("lost")
      /\ result' \in [Callers -> Returned]
      /\ tick' \in BOOLEAN
  <2>1. ASSUME L!Goto(c, "wait", "gate"), UNCHANGED result, tick' \in BOOLEAN PROVE <1>1!:
    BY <2>1, Moves, ClientTypes DEF Places
  <2>2. ASSUME L!Return(c, "wait", L!Failed("lost")), tick' = tick PROVE <1>1!:
    BY <2>2, Returns, Failures, ClientTypes DEF Places
  <2>3. tick \in BOOLEAN
    BY ClientTypes
  <2> QED BY <2>1, <2>2, <2>3 DEF L!Wait
<1>2. /\ url' = url /\ left' = left /\ candidates' = candidates /\ trace' = trace
      /\ closed' = closed /\ cancelled' = cancelled /\ recorded' = recorded
  BY DEF L!Wait
<1>3. L!TypeOK'
  <2>1. \A d \in Callers : at'[d] = "dial" => candidates'[d] # <<>>
    BY <1>1, <1>2, ClientTypes
  <2> QED BY <1>1, <1>2, <2>1, ClientTypes
<1>4. Sound(c)'
  <2>1. Sound(c) /\ L!Failed("lost").kind = "lost"
    BY Failures
  <2> QED BY <1>1, <1>2, <2>1 DEF Sound, GatedByURL, UnresolvedIsQuiet, GatedByAddress,
             TriesTheResolved, RefusalIsNoted, Bounded
<1> HIDE DEF ClientInv
<1> QED BY <1>1, <1>2, <1>3, <1>4, OthersAreLeft

LEMMA GateKeeps ==
  ASSUME ClientInv, NEW c \in Callers, L!Gate(c)
  PROVE  ClientInv'
<1> USE DEF ClientInv
<1>1. /\ at[c] = "gate" /\ at' \in [Callers -> Places]
      /\ \A d \in Callers \ {c} : at'[d] = at[d] /\ result'[d] = result[d]
      /\ result' \in [Callers -> Returned]
      /\ \/ at'[c] = "resolve" /\ L!CheckURL(url[c]) /\ result'[c] = result[c]
            /\ recorded' = recorded
         \/ /\ at'[c] = "idle" /\ result'[c] = L!Failed("refused")
            /\ recorded \subseteq recorded'
            /\ ~ L!Unusable(url[c]) => L!Normal(url[c].host) \in recorded'
  <2>1. CASE L!CheckURL(url[c])
    <3>1. L!Goto(c, "gate", "resolve") /\ UNCHANGED <<result, recorded>>
      BY <2>1 DEF L!Gate
    <3> QED BY <2>1, <3>1, Moves, ClientTypes DEF Places
  <2>2. CASE ~ L!CheckURL(url[c])
    <3>1. /\ L!Return(c, "gate", L!Failed("refused"))
          /\ recorded' = IF L!Unusable(url[c]) THEN recorded
                         ELSE recorded \cup {L!Normal(url[c].host)}
      BY <2>2 DEF L!Gate
    <3> QED BY <3>1, Returns, Failures DEF Places
  <2> QED BY <2>1, <2>2
<1>2. /\ url' = url /\ left' = left /\ candidates' = candidates /\ trace' = trace
      /\ tick' = tick /\ closed' = closed /\ cancelled' = cancelled
  BY DEF L!Gate
<1>3. L!TypeOK'
  <2>1. \A d \in Callers : at'[d] = "dial" => candidates'[d] # <<>>
    BY <1>1, <1>2, ClientTypes
  <2> QED BY <1>1, <1>2, <2>1, ClientTypes
<1>4. Sound(c)'
  <2>1. Sound(c) /\ L!Failed("refused").kind = "refused"
    BY Failures
  <2>2. trace[c] = L!Quiet
    BY <1>1, <2>1 DEF Sound, UnresolvedIsQuiet
  <2> QED BY <1>1, <1>2, <2>1, <2>2 DEF Sound, GatedByURL, UnresolvedIsQuiet, GatedByAddress,
             TriesTheResolved, RefusalIsNoted, Bounded, L!Quiet, L!Nowhere
<1> HIDE DEF ClientInv
<1> QED BY <1>1, <1>2, <1>3, <1>4, OthersAreLeft

LEMMA ResolveKeeps ==
  ASSUME ClientInv, NEW c \in Callers, L!Resolve(c)
  PROVE  ClientInv'
<1> USE DEF ClientInv
<1> DEFINE host == url[c].host
           Answers == IF host \in DOMAIN Literals THEN {<<Literals[host]>>} ELSE Resolutions
           Looked == host \notin DOMAIN Literals
<1>1. ASSUME NEW addrs \in Answers PROVE addrs \in Seq(Addresses)
  <2>1. CASE host \in DOMAIN Literals
    <3>1. Literals[host] \in Addresses
      BY <2>1
    <3>2. addrs = <<Literals[host]>>
      BY <2>1
    <3> HIDE DEF host
    <3> QED BY <3>1, <3>2
  <2>2. CASE host \notin DOMAIN Literals
    BY <2>2
  <2> QED BY <2>1, <2>2
<1> HIDE DEF Answers
<1>2. trace[c] = L!Quiet /\ trace[c] \in Trace /\ L!CheckURL(url[c]) /\ Looked \in BOOLEAN
  <2>1. at[c] = "resolve" /\ Sound(c)
    BY DEF L!Resolve, L!Goto, L!Return
  <2> QED BY <2>1, ClientTypes DEF Sound, GatedByURL, UnresolvedIsQuiet
<1> HIDE DEF Looked
<1>3. /\ url' = url /\ left' = left /\ tick' = tick /\ closed' = closed /\ cancelled' = cancelled
      /\ recorded' = recorded
  BY DEF L!Resolve, L!shared
<1>4. CASE /\ trace' = [trace EXCEPT ![c].looked = Looked]
           /\ L!Return(c, "resolve", L!Failed("lost"))
           /\ candidates' = candidates
  <2>1. /\ at'[c] = "idle" /\ at' \in [Callers -> Places]
        /\ result'[c] = L!Failed("lost") /\ result' \in [Callers -> Returned]
        /\ \A d \in Callers \ {c} : at'[d] = at[d] /\ result'[d] = result[d]
    BY <1>4, Returns, Failures DEF Places
  <2>2. /\ trace'[c] = [L!Quiet EXCEPT !.looked = Looked]
        /\ \A d \in Callers \ {c} : trace'[d] = trace[d]
        /\ trace' \in [Callers -> Trace]
    <3> DEFINE new == [L!Quiet EXCEPT !.looked = Looked]
    <3>1. new \in Trace
      BY <1>2 DEF Trace
    <3>2. trace' = [trace EXCEPT ![c] = new]
      BY <1>2, <1>4, ClientTypes
    <3> HIDE DEF new
    <3>3. trace \in [Callers -> Trace]
      BY ClientTypes
    <3>4. /\ trace'[c] = new /\ trace' \in [Callers -> Trace]
          /\ \A d \in Callers \ {c} : trace'[d] = trace[d]
      BY <3>1, <3>2, <3>3
    <3> QED BY <3>4 DEF new
  <2>3. L!TypeOK'
    <3>1. \A d \in Callers : at'[d] = "dial" => candidates'[d] # <<>>
      BY <2>1, <1>4, ClientTypes
    <3> QED BY <1>3, <1>4, <2>1, <2>2, <3>1, ClientTypes
  <2>4. Sound(c)'
    <3>1. Sound(c) /\ L!Failed("lost").kind = "lost"
      BY Failures
    <3> QED BY <1>2, <1>3, <2>1, <2>2, <3>1 DEF Sound, GatedByURL, UnresolvedIsQuiet,
               GatedByAddress, TriesTheResolved, RefusalIsNoted, Bounded, L!Quiet, L!Nowhere
  <2> HIDE DEF ClientInv
  <2> QED BY <1>3, <1>4, <2>1, <2>2, <2>3, <2>4, OthersAreLeft
<1>5. ASSUME NEW addrs \in Answers,
             trace' = [trace EXCEPT ![c].looked = Looked, ![c].resolved = addrs],
             candidates' = [candidates EXCEPT ![c] = L!Evaluated(addrs)],
             IF L!Evaluated(addrs) # <<>>
             THEN L!Goto(c, "resolve", "dial") /\ UNCHANGED result
             ELSE L!Return(c, "resolve", L!Failed(IF addrs = <<>> THEN "lost" ELSE "refused"))
      PROVE  ClientInv'
  <2> DEFINE kept == L!Evaluated(addrs)
  <2>1. /\ kept \in Seq(Addresses)
        /\ kept # <<>> => kept = addrs /\ \A i \in DOMAIN addrs : L!CheckAddr(addrs[i])
    BY <1>1, <1>5 DEF L!Evaluated
  <2> HIDE DEF kept
  <2>2. /\ at' \in [Callers -> Places] /\ result' \in [Callers -> Returned]
        /\ \A d \in Callers \ {c} : at'[d] = at[d] /\ result'[d] = result[d]
        /\ \/ kept # <<>> /\ at'[c] = "dial" /\ result'[c] = result[c]
           \/ at'[c] = "idle" /\ result'[c] \in {L!Failed("lost"), L!Failed("refused")}
    <3>1. CASE kept # <<>>
      <4>1. L!Goto(c, "resolve", "dial") /\ UNCHANGED result
        BY <1>5, <3>1 DEF kept
      <4> QED BY <3>1, <4>1, Moves, ClientTypes DEF Places
    <3>2. CASE kept = <<>>
      <4>1. PICK k \in {"lost", "refused"} : L!Return(c, "resolve", L!Failed(k))
        <5> QED BY <1>5, <3>2 DEF kept
      <4> QED BY <4>1, Returns, Failures DEF Places
    <3> QED BY <3>1, <3>2
  <2>3. /\ trace'[c] = [L!Quiet EXCEPT !.looked = Looked, !.resolved = addrs]
        /\ \A d \in Callers \ {c} : trace'[d] = trace[d]
        /\ trace' \in [Callers -> Trace]
    BY <1>1, <1>2, <1>5, ClientTypes DEF Trace
  <2>4. /\ candidates'[c] = kept /\ candidates' \in [Callers -> Seq(Addresses)]
        /\ \A d \in Callers \ {c} : candidates'[d] = candidates[d]
    BY <1>5, <2>1, ClientTypes DEF kept
  <2>5. L!TypeOK'
    <3>1. \A d \in Callers : at'[d] = "dial" => candidates'[d] # <<>>
      BY <2>2, <2>4, ClientTypes
    <3> QED BY <1>3, <2>2, <2>3, <2>4, <3>1, ClientTypes
  <2>6. Sound(c)'
    <3>1. Sound(c)
      OBVIOUS
    <3>2. GatedByURL(c)' /\ UnresolvedIsQuiet(c)'
      BY <1>2, <1>3, <2>2 DEF GatedByURL, UnresolvedIsQuiet
    <3>3. GatedByAddress(c)' /\ TriesTheResolved(c)'
      <4>1. /\ trace'[c].resolved = addrs /\ trace'[c].dialled = {}
            /\ trace'[c].sent = L!Nowhere
        BY <2>3 DEF L!Quiet
      <4> QED BY <4>1, <2>1, <2>2, <2>4 DEF GatedByAddress, TriesTheResolved
    <3>4. RefusalIsNoted(c)' /\ Bounded(c)'
      BY <1>2, <1>3, <2>2, <3>1, Failures DEF Sound, RefusalIsNoted, Bounded
    <3> QED BY <3>2, <3>3, <3>4 DEF Sound
  <2> HIDE DEF ClientInv
  <2> QED BY <1>3, <2>2, <2>3, <2>4, <2>5, <2>6, OthersAreLeft
<1>6. \/ <1>4!1
      \/ \E addrs \in Answers :
           /\ trace' = [trace EXCEPT ![c].looked = Looked, ![c].resolved = addrs]
           /\ candidates' = [candidates EXCEPT ![c] = L!Evaluated(addrs)]
           /\ IF L!Evaluated(addrs) # <<>>
              THEN L!Goto(c, "resolve", "dial") /\ UNCHANGED result
              ELSE L!Return(c, "resolve", L!Failed(IF addrs = <<>> THEN "lost" ELSE "refused"))
  <2> HIDE DEF ClientInv
  <2> QED BY Zenon DEF L!Resolve, Answers, Looked
<1> QED BY <1>4, <1>5, <1>6

LEMMA DialKeeps ==
  ASSUME ClientInv, NEW c \in Callers, L!Dial(c)
  PROVE  ClientInv'
<1> USE DEF ClientInv
<1> DEFINE tried == trace[c].dialled \cup {L!Chosen(c)}
<1>1. /\ at[c] = "dial" /\ Sound(c) /\ trace[c] \in Trace
      /\ candidates[c] \in Seq(Addresses) /\ candidates[c] # <<>>
  BY ClientTypes DEF L!Dial
<1>2. /\ url' = url /\ left' = left /\ tick' = tick /\ closed' = closed /\ cancelled' = cancelled
      /\ recorded' = recorded
  BY DEF L!Dial, L!shared
<1>3. L!Chosen(c) \in L!Reachable
      /\ \E j \in DOMAIN trace[c].resolved : L!Chosen(c) = trace[c].resolved[j].reaches
  <2>1. 1 \in DOMAIN candidates[c] /\ Head(candidates[c]) = candidates[c][1]
        /\ candidates[c][1] \in Addresses
    BY <1>1
  <2> QED BY <1>1, <2>1 DEF L!Chosen, L!Reachable, Sound, TriesTheResolved
<1> DEFINE Step(sent) ==
        /\ trace' = [trace EXCEPT ![c].dialled = tried, ![c].sent = sent]
        /\ \/ /\ candidates' = [candidates EXCEPT ![c] = Tail(@)] /\ Len(candidates[c]) > 1
              /\ sent = trace[c].sent /\ UNCHANGED <<at, result>>
           \/ /\ candidates' = [candidates EXCEPT ![c] = <<>>]
              /\ \/ sent = trace[c].sent /\ L!Return(c, "dial", L!Failed("lost"))
                 \/ sent = L!Nowhere /\ L!Return(c, "dial", L!Failed("refused"))
                 \/ sent = L!Chosen(c) /\ L!Goto(c, "dial", "await") /\ UNCHANGED result
<1>4. PICK sent \in L!Reachable \cup {L!Nowhere, L!Unverifiable} : Step(sent)
  <2>1. CASE /\ trace' = [trace EXCEPT ![c].dialled = @ \cup {L!Chosen(c)}]
             /\ \/ /\ candidates' = [candidates EXCEPT ![c] = Tail(@)] /\ Len(candidates[c]) > 1
                   /\ UNCHANGED <<at, result>>
                \/ /\ candidates' = [candidates EXCEPT ![c] = <<>>]
                   /\ L!Return(c, "dial", L!Failed("lost"))
    <3>1. trace[c].sent \in L!Reachable \cup {L!Nowhere, L!Unverifiable}
      BY <1>1 DEF Trace
    <3>2. [trace EXCEPT ![c].dialled = @ \cup {L!Chosen(c)}]
            = [trace EXCEPT ![c].dialled = tried, ![c].sent = trace[c].sent]
      BY <1>1, ClientTypes DEF Trace
    <3> HIDE DEF tried
    <3> QED BY <2>1, <3>1, <3>2
  <2>2. ASSUME NEW landed \in L!Reachable \cup {L!Unverifiable},
               candidates' = [candidates EXCEPT ![c] = <<>>],
               IF L!Verified(c, landed)
               THEN L!Goto(c, "dial", "await") /\ UNCHANGED result
               ELSE L!Return(c, "dial", L!Failed("refused")),
               trace' = [trace EXCEPT ![c].dialled = @ \cup {L!Chosen(c)},
                         ![c].sent = IF L!Verified(c, landed) THEN landed ELSE L!Nowhere]
        PROVE  \E sent \in L!Reachable \cup {L!Nowhere, L!Unverifiable} : Step(sent)
    <3>1. CASE L!Verified(c, landed)
      <4>1. landed = L!Chosen(c)
        BY <3>1 DEF L!Verified
      <4>2. trace' = [trace EXCEPT ![c].dialled = tried, ![c].sent = landed]
        BY <2>2, <3>1, ClientTypes
      <4> QED BY <2>2, <3>1, <4>1, <4>2
    <3>2. CASE ~ L!Verified(c, landed)
      <4>1. trace' = [trace EXCEPT ![c].dialled = tried, ![c].sent = L!Nowhere]
        BY <2>2, <3>2, ClientTypes
      <4> QED BY <2>2, <3>2, <4>1
    <3> QED BY <3>1, <3>2
  <2> HIDE DEF ClientInv, tried
  <2> QED BY <2>1, <2>2 DEF L!Dial
<1>5. /\ trace'[c] = [trace[c] EXCEPT !.dialled = tried, !.sent = sent]
      /\ \A d \in Callers \ {c} : trace'[d] = trace[d]
      /\ trace' \in [Callers -> Trace]
  <2>1. tried \in SUBSET L!Reachable
    BY <1>1, <1>3 DEF Trace
  <2> HIDE DEF tried
  <2>2. [trace[c] EXCEPT !.dialled = tried, !.sent = sent] \in Trace
    BY <1>1, <2>1 DEF Trace
  <2>3. trace' = [trace EXCEPT ![c] = [trace[c] EXCEPT !.dialled = tried, !.sent = sent]]
    BY <1>4, ClientTypes
  <2> QED BY <2>2, <2>3, ClientTypes
<1>6. /\ trace'[c].looked = trace[c].looked /\ trace'[c].resolved = trace[c].resolved
      /\ trace'[c].sent = sent /\ trace'[c].dialled = tried
  BY <1>1, <1>5 DEF Trace
<1>7. /\ candidates' \in [Callers -> Seq(Addresses)]
      /\ \A d \in Callers \ {c} : candidates'[d] = candidates[d]
      /\ at' \in [Callers -> Places] /\ result' \in [Callers -> Returned]
      /\ \A d \in Callers \ {c} : at'[d] = at[d] /\ result'[d] = result[d]
      /\ sent \in {L!Nowhere, trace[c].sent, L!Chosen(c)}
      /\ \/ /\ at'[c] = "dial" /\ Len(candidates[c]) > 1
            /\ candidates'[c] = Tail(candidates[c]) /\ result'[c] = result[c]
         \/ at'[c] = "idle" /\ result'[c] \in {L!Failed("lost"), L!Failed("refused")}
         \/ at'[c] = "await" /\ result'[c] = result[c]
  <2>1. CASE candidates' = [candidates EXCEPT ![c] = Tail(@)] /\ Len(candidates[c]) > 1
             /\ sent = trace[c].sent /\ UNCHANGED <<at, result>>
    <3>1. Tail(candidates[c]) \in Seq(Addresses)
      BY <1>1
    <3> QED BY <1>1, <2>1, <3>1, ClientTypes
  <2>2. CASE /\ candidates' = [candidates EXCEPT ![c] = <<>>]
             /\ \/ sent = trace[c].sent /\ L!Return(c, "dial", L!Failed("lost"))
                \/ sent = L!Nowhere /\ L!Return(c, "dial", L!Failed("refused"))
    <3>1. PICK k \in {"lost", "refused"} : L!Return(c, "dial", L!Failed(k))
      BY <2>2
    <3> QED BY <2>2, <3>1, Returns, Failures, ClientTypes DEF Places
  <2>3. CASE /\ candidates' = [candidates EXCEPT ![c] = <<>>]
             /\ sent = L!Chosen(c) /\ L!Goto(c, "dial", "await") /\ UNCHANGED result
    BY <2>3, Moves, ClientTypes DEF Places
  <2> QED BY <1>4, <2>1, <2>2, <2>3
<1>8. L!TypeOK'
  <2>1. at'[c] = "dial" => candidates'[c] # <<>>
    BY <1>1, <1>7
  <2>2. \A d \in Callers : at'[d] = "dial" => candidates'[d] # <<>>
    BY <1>7, <2>1, ClientTypes
  <2> QED BY <1>2, <1>5, <1>7, <2>2, ClientTypes
<1>9. Sound(c)'
  <2>1. GatedByURL(c)' /\ UnresolvedIsQuiet(c)'
    BY <1>1, <1>2, <1>7 DEF Sound, GatedByURL, UnresolvedIsQuiet
  <2>2. GatedByAddress(c)'
    BY <1>1, <1>6 DEF Sound, GatedByAddress
  <2>3. TriesTheResolved(c)'
    <3>1. at'[c] = "dial" => \A i \in DOMAIN candidates'[c] : \E j \in DOMAIN trace'[c].resolved :
                               candidates'[c][i] = trace'[c].resolved[j]
      <4> SUFFICES ASSUME at'[c] = "dial", NEW i \in DOMAIN candidates'[c]
                   PROVE  \E j \in DOMAIN trace[c].resolved :
                            candidates'[c][i] = trace[c].resolved[j]
        BY <1>6
      <4>1. candidates'[c] = Tail(candidates[c])
        BY <1>7
      <4>2. i + 1 \in DOMAIN candidates[c] /\ candidates'[c][i] = candidates[c][i + 1]
        BY <1>1, <4>1
      <4> QED BY <1>1, <4>2 DEF Sound, TriesTheResolved
    <3>2. trace'[c].sent # L!Nowhere => \E j \in DOMAIN trace'[c].resolved :
                                          trace'[c].sent = trace'[c].resolved[j].reaches
      BY <1>1, <1>3, <1>6, <1>7 DEF Sound, TriesTheResolved
    <3> QED BY <3>1, <3>2 DEF TriesTheResolved
  <2>4. RefusalIsNoted(c)' /\ Bounded(c)'
    <3>1. L!CheckURL(url[c])
      BY <1>1 DEF Sound, GatedByURL
    <3> QED BY <1>1, <1>2, <1>7, <3>1, Failures DEF Sound, RefusalIsNoted, Bounded
  <2> QED BY <2>1, <2>2, <2>3, <2>4 DEF Sound
<1> HIDE DEF ClientInv
<1> QED BY <1>2, <1>5, <1>7, <1>8, <1>9, OthersAreLeft

\* What readBounded returns of a body of any length.
LEMMA BodiesAreBounded ==
  ASSUME NEW n \in Nat
  PROVE  /\ L!ReadBounded(n).body \in Nat /\ L!ReadBounded(n).truncated \in BOOLEAN
         /\ L!ReadBounded(n).body <= MaxBodyBytes
         /\ L!ReadBounded(n).truncated <=> n > MaxBodyBytes
         /\ ~ L!ReadBounded(n).truncated => L!ReadBounded(n).body = n
         /\ L!ReadBounded(n).truncated /\ MaxBodyBytes > TruncationTail =>
              MaxBodyBytes - L!ReadBounded(n).body = TruncationTail
<1>1. CASE n <= MaxBodyBytes
  BY <1>1 DEF L!ReadBounded
<1>2. CASE n > MaxBodyBytes
  BY <1>2 DEF L!ReadBounded
<1> QED BY <1>1, <1>2

LEMMA AnswerKeeps ==
  ASSUME ClientInv, NEW c \in Callers, L!Answer(c)
  PROVE  ClientInv'
<1> USE DEF ClientInv
<1> DEFINE Due(r) ==
        /\ L!Return(c, "await", r)
        /\ r.kind \in {"lost", "response"}
        /\ r.kind = "response" =>
             /\ r.body <= MaxBodyBytes
             /\ r.truncated <=> r.length > MaxBodyBytes
             /\ ~ r.truncated => r.body = r.length
             /\ r.truncated /\ MaxBodyBytes > TruncationTail =>
                  MaxBodyBytes - r.body = TruncationTail
<1>1. \E r \in Returned : Due(r)
  <2>1. CASE L!Return(c, "await", L!Failed("lost"))
    BY <2>1, Failures
  <2>2. ASSUME NEW n \in Lengths,
               L!Return(c, "await", [kind |-> "response", length |-> n,
                                     body |-> L!ReadBounded(n).body,
                                     truncated |-> L!ReadBounded(n).truncated])
        PROVE  \E r \in Returned : Due(r)
    <3> DEFINE body == L!ReadBounded(n).body  cut == L!ReadBounded(n).truncated
               given == [kind |-> "response", length |-> n, body |-> body, truncated |-> cut]
    <3>1. n \in Nat
      OBVIOUS
    <3>2. /\ body \in Nat /\ cut \in BOOLEAN /\ body <= MaxBodyBytes
          /\ cut <=> n > MaxBodyBytes
          /\ ~ cut => body = n
          /\ cut /\ MaxBodyBytes > TruncationTail => MaxBodyBytes - body = TruncationTail
      BY <3>1, BodiesAreBounded
    <3>3. L!Return(c, "await", given)
      BY <2>2
    <3> HIDE DEF body, cut
    <3>4. given \in Returned
      BY <3>1, <3>2 DEF Returned
    <3>5. given.kind = "response" /\ given.length = n /\ given.body = body
          /\ given.truncated = cut
      OBVIOUS
    <3> HIDE DEF given
    <3> QED BY <3>2, <3>3, <3>4, <3>5
  <2> HIDE DEF ClientInv
  <2> QED BY <2>1, <2>2 DEF L!Answer
<1> HIDE DEF Due
<1>2. PICK r \in Returned : Due(r)
  BY <1>1
<1> USE DEF Due
<1>3. /\ url' = url /\ left' = left /\ candidates' = candidates /\ trace' = trace
      /\ tick' = tick /\ closed' = closed /\ cancelled' = cancelled /\ recorded' = recorded
  BY DEF L!Answer, L!shared
<1>4. /\ at[c] = "await" /\ at'[c] = "idle" /\ at' \in [Callers -> Places]
      /\ result'[c] = r /\ result' \in [Callers -> Returned]
      /\ \A d \in Callers \ {c} : at'[d] = at[d] /\ result'[d] = result[d]
  BY <1>2, Returns DEF Places
<1>5. L!TypeOK'
  <2>1. \A d \in Callers : at'[d] = "dial" => candidates'[d] # <<>>
    BY <1>3, <1>4, ClientTypes
  <2> QED BY <1>3, <1>4, <2>1, ClientTypes
<1>6. Sound(c)'
  BY <1>2, <1>3, <1>4 DEF Sound, GatedByURL, UnresolvedIsQuiet, GatedByAddress,
                          TriesTheResolved, RefusalIsNoted, Bounded
<1> HIDE DEF ClientInv
<1> QED BY <1>3, <1>4, <1>5, <1>6, OthersAreLeft

\* The ticker, the closing and the cancelling of the context touch no request.
LEMMA AroundKeeps ==
  ASSUME ClientInv, UNCHANGED <<at, url, left, candidates, trace, result, recorded>>,
         tick' \in BOOLEAN, closed' \in BOOLEAN, cancelled' \in BOOLEAN
  PROVE  ClientInv'
<1>1. L!TypeOK'
  BY DEF ClientInv, L!TypeOK
<1>2. ASSUME NEW c \in Callers PROVE Sound(c)'
  BY DEF ClientInv, Sound, GatedByURL, UnresolvedIsQuiet, GatedByAddress, TriesTheResolved,
         RefusalIsNoted, Bounded
<1> QED BY <1>1, <1>2 DEF ClientInv

\* Every request, and every two requests that share the limiter and the policy's notes,
\* stay inside the scope: no step of the client, in any order, breaks what keeps them there.
THEOREM RequestsStayInScope == L!Spec => []NeverLeavesScope
<1>1. L!Init => ClientInv
  BY ClientStarts
<1>2. ClientInv /\ [L!Next]_(L!vars) => ClientInv'
  <2> SUFFICES ASSUME ClientInv, [L!Next]_(L!vars) PROVE ClientInv'
    OBVIOUS
  <2>1. ASSUME NEW c \in Callers, L!Do(c) PROVE ClientInv'
    BY <2>1, WaitKeeps, GateKeeps, ResolveKeeps, DialKeeps, AnswerKeeps DEF L!Do
  <2>2. ASSUME NEW c \in Callers, NEW u \in UrlsOf[c], L!Begin(c, u) PROVE ClientInv'
    BY <2>2, BeginKeeps
  <2>3. tick \in BOOLEAN /\ closed \in BOOLEAN /\ cancelled \in BOOLEAN
    BY ClientTypes DEF ClientInv
  <2>4. CASE L!Tick
    BY <2>3, <2>4, AroundKeeps DEF L!Tick
  <2>5. CASE L!Close
    BY <2>3, <2>5, AroundKeeps DEF L!Close
  <2>6. CASE L!Cancel
    BY <2>3, <2>6, AroundKeeps DEF L!Cancel
  <2>7. CASE UNCHANGED L!vars
    BY <2>3, <2>7, AroundKeeps DEF L!vars
  <2> QED BY <2>1, <2>2, <2>4, <2>5, <2>6, <2>7 DEF L!Next, L!Over
<1>3. ClientInv => NeverLeavesScope
  BY SoundStaysInScope
<1> QED BY <1>1, <1>2, <1>3, PTL DEF L!Spec

HIDE ClientConstants DEF L!ClientAssumption

-----------------------------------------------------------------------------
(*                               Pipeline                                  *)
-----------------------------------------------------------------------------
\* An exit code, by its name.
LEMMA CodesOfExit ==
  /\ P!Codes["ok"] = 0 /\ P!Codes["findings"] = 1 /\ P!Codes["usage"] = 2
  /\ P!Codes["nothing"] = 3 /\ P!Codes["aborted"] = 4 /\ P!Codes["internal"] = 5
  /\ P!Codes.ok = 0 /\ P!Codes.findings = 1 /\ P!Codes.usage = 2
  /\ P!Codes.nothing = 3 /\ P!Codes.aborted = 4 /\ P!Codes.internal = 5
  /\ P!None = 99 /\ P!Signal = 98
  /\ {P!Codes[c] : c \in DOMAIN P!Codes} = 0 .. 5
<1>1. /\ P!Codes["ok"] = 0 /\ P!Codes["findings"] = 1 /\ P!Codes["usage"] = 2
  /\ P!Codes["nothing"] = 3 /\ P!Codes["aborted"] = 4 /\ P!Codes["internal"] = 5
  BY DEF P!Codes
<1>2. P!Codes.ok = 0 /\ P!Codes.findings = 1 /\ P!Codes.usage = 2
  /\ P!Codes.nothing = 3 /\ P!Codes.aborted = 4 /\ P!Codes.internal = 5
  BY DEF P!Codes
<1>3. DOMAIN P!Codes = {"ok", "findings", "usage", "nothing", "aborted", "internal"}
  BY DEF P!Codes
<1>4. P!None = 99 /\ P!Signal = 98
  BY DEF P!None, P!Signal
<1>5. {P!Codes[c] : c \in DOMAIN P!Codes} = 0 .. 5
  BY <1>1, <1>3
<1> QED BY <1>1, <1>2, <1>4, <1>5

-----------------------------------------------------------------------------
(* What every stage finds done by those before it.                         *)

EndsWithACode == exit = P!None <=> stage # "ended"

\* Nothing is sent before the client exists, nothing is written before the run is created.
NothingYet ==
  /\ stage \in {"configure", "client"} => requests = {} /\ probe = 1 /\ answers = {}
  /\ stage \in {"configure", "client", "specification", "adapters", "discovery", "create"}
       => files = {}

WrittenInOrder ==
  /\ stage = "sarif" => "report.json" \in files
  /\ stage = "summary" => {"report.json", "report.sarif"} \subseteq files

\* The grade is that of the surface from the moment there is one.
GradedThroughout ==
  /\ stage \in {"adapters", "discovery", "create", "identities", "assess"} => fidelity = surface
  /\ stage = "adapters" => surface = {"documented"}
  /\ stage \in {"discovery", "create", "identities", "assess"} =>
       ("adapter" \in surface => cfg.adapters /\ cfg.assessDiscovered)

RegisteredFirst ==
  /\ stage \in {"assess", "report", "sarif", "summary"} => registered
  /\ P!CredentialsAreRegistered

\* A run that has sent nothing has met refusals only, one for each path it has probed.
RefusedSoFar ==
  stage = "specification" /\ cfg.spec = "probe" =>
    /\ probe > 1 => answers # {}
    /\ requests = {} => answers \subseteq {"refused"}

Ordered ==
  /\ EndsWithACode /\ NothingYet /\ WrittenInOrder /\ GradedThroughout /\ RegisteredFirst
  /\ RefusedSoFar

ScanInv ==
  /\ P!TypeOK
  /\ Ordered
  /\ P!ConclusionIsOnDisk /\ P!UsageMeansNothingRan /\ P!CleanIsBelowThreshold


\* What the proofs need of the constants.
LEMMA SomePathIsProbed == WellKnownPaths \in Nat \ {0}
BY PipelineConstants, Zenon DEF P!PipelineAssumption

\* An end without a conclusion about the target.
LEMMA NoConclusion ==
  ASSUME \/ exit' \in {P!None, P!Codes["aborted"], P!Codes["internal"], P!Signal}
         \/ exit' = P!Codes["usage"] /\ requests' = {} /\ files' = {}
  PROVE  P!ConclusionIsOnDisk' /\ P!UsageMeansNothingRan' /\ P!CleanIsBelowThreshold'
BY CodesOfExit DEF P!ConclusionIsOnDisk, P!UsageMeansNothingRan, P!CleanIsBelowThreshold

\* A document that parses is the surface; what does not ends the run.
LEMMA Parsed ==
  ASSUME NEW ok, P!Parse(ok)
  PROVE  \/ /\ surface' = {"documented"} /\ fidelity' = {"documented"}
            /\ stage' = "adapters" /\ exit' = exit
         \/ /\ surface' = surface /\ fidelity' = fidelity
            /\ stage' = "ended" /\ exit' = P!Codes["aborted"]
BY DEF P!Parse, P!Continue, P!Exit, P!told

-----------------------------------------------------------------------------
(* One lemma for each stage: its types, the order, and whether it concludes. *)

LEMMA ConfigureKeeps == ASSUME ScanInv, P!Configure PROVE ScanInv'
<1> USE DEF P!Configure, P!Running, P!Continue, P!Exit, P!told, P!found
<1>1. P!TypeOK'
  BY CodesOfExit DEF ScanInv, P!TypeOK
<1>2. Ordered'
  BY CodesOfExit DEF ScanInv, P!TypeOK, Ordered, EndsWithACode, NothingYet, WrittenInOrder,
     GradedThroughout, RegisteredFirst, P!CredentialsAreRegistered, RefusedSoFar
<1>3. P!ConclusionIsOnDisk' /\ P!UsageMeansNothingRan' /\ P!CleanIsBelowThreshold'
  BY NoConclusion DEF ScanInv, Ordered, NothingYet
<1> QED BY <1>1, <1>2, <1>3 DEF ScanInv, Ordered

LEMMA ClientKeeps == ASSUME ScanInv, P!Client PROVE ScanInv'
<1> USE DEF P!Client, P!Running, P!Continue, P!Exit, P!told, P!found
<1>1. P!TypeOK'
  BY CodesOfExit DEF ScanInv, P!TypeOK
<1>2. Ordered'
  BY CodesOfExit DEF ScanInv, P!TypeOK, Ordered, EndsWithACode, NothingYet, WrittenInOrder,
     GradedThroughout, RegisteredFirst, P!CredentialsAreRegistered, RefusedSoFar
<1>3. P!ConclusionIsOnDisk' /\ P!UsageMeansNothingRan' /\ P!CleanIsBelowThreshold'
  BY NoConclusion DEF ScanInv, Ordered, NothingYet
<1> QED BY <1>1, <1>2, <1>3 DEF ScanInv, Ordered

LEMMA ReadSpecificationKeeps == ASSUME ScanInv, P!ReadSpecification PROVE ScanInv'
<1>0. /\ stage = "specification" /\ exit = P!None /\ cfg.spec = "file"
      /\ \E ok \in BOOLEAN : P!Parse(ok)
      /\ UNCHANGED <<cfg, reachable, probe, answers, requests, registered, files, res, shown,
                    interrupted>>
  BY DEF P!ReadSpecification, P!Running, P!found
<1>1. P!TypeOK'
  <2>1. exit' \in {P!Codes[c] : c \in DOMAIN P!Codes} \cup {P!None, P!Signal}
    BY <1>0, Parsed, CodesOfExit
  <2>2. stage' \in {"adapters", "ended", "specification"}
    BY <1>0, Parsed
  <2>3. surface' \in {surface, {"documented"}} /\ fidelity' \in {fidelity, {"documented"}}
    BY <1>0, Parsed
  <2>4. /\ probe' \in 1 .. WellKnownPaths + 1
        /\ answers' \subseteq {"refused", "failed", "empty", "malformed", "document"}
        /\ requests' \subseteq {"specification", "discovery", "checks", "authenticated"}
    BY <1>0, SomePathIsProbed DEF ScanInv, P!TypeOK
  <2> QED BY <1>0, <2>1, <2>2, <2>3, <2>4 DEF ScanInv, P!TypeOK
<1>2. Ordered'
  <2>1. EndsWithACode' /\ NothingYet' /\ WrittenInOrder'
    BY <1>0, Parsed, CodesOfExit DEF ScanInv, Ordered, EndsWithACode, NothingYet, WrittenInOrder
  <2>2. GradedThroughout'
    BY <1>0, Parsed DEF ScanInv, Ordered, GradedThroughout
  <2>3. RegisteredFirst'
    BY <1>0, Parsed DEF ScanInv, Ordered, RegisteredFirst, P!CredentialsAreRegistered
  <2>4. RefusedSoFar'
    BY <1>0, Parsed DEF ScanInv, Ordered, RefusedSoFar
  <2> QED BY <2>1, <2>2, <2>3, <2>4 DEF Ordered
<1>3. P!ConclusionIsOnDisk' /\ P!UsageMeansNothingRan' /\ P!CleanIsBelowThreshold'
  BY <1>0, Parsed, NoConclusion
<1> QED BY <1>1, <1>2, <1>3 DEF ScanInv, Ordered

LEMMA FetchSpecificationKeeps == ASSUME ScanInv, P!FetchSpecification PROVE ScanInv'
<1>0. /\ stage = "specification" /\ exit = P!None /\ cfg.spec = "url"
      /\ requests' \in {requests, requests \cup {"specification"}}
      /\ \E ok : P!Parse(ok)
      /\ UNCHANGED <<cfg, reachable, probe, answers, registered, files, res, shown, interrupted>>
  BY DEF P!FetchSpecification, P!Running, P!found
<1>1. P!TypeOK'
  <2>1. exit' \in {P!Codes[c] : c \in DOMAIN P!Codes} \cup {P!None, P!Signal}
    BY <1>0, Parsed, CodesOfExit
  <2>2. stage' \in {"adapters", "ended", "specification"}
    BY <1>0, Parsed
  <2>3. surface' \in {surface, {"documented"}} /\ fidelity' \in {fidelity, {"documented"}}
    BY <1>0, Parsed
  <2>4. /\ probe' \in 1 .. WellKnownPaths + 1
        /\ answers' \subseteq {"refused", "failed", "empty", "malformed", "document"}
        /\ requests' \subseteq {"specification", "discovery", "checks", "authenticated"}
    BY <1>0, SomePathIsProbed DEF ScanInv, P!TypeOK
  <2> QED BY <1>0, <2>1, <2>2, <2>3, <2>4 DEF ScanInv, P!TypeOK
<1>2. Ordered'
  <2>1. EndsWithACode' /\ NothingYet' /\ WrittenInOrder'
    BY <1>0, Parsed, CodesOfExit DEF ScanInv, Ordered, EndsWithACode, NothingYet, WrittenInOrder
  <2>2. GradedThroughout'
    BY <1>0, Parsed DEF ScanInv, Ordered, GradedThroughout
  <2>3. RegisteredFirst'
    BY <1>0, Parsed DEF ScanInv, Ordered, RegisteredFirst, P!CredentialsAreRegistered
  <2>4. RefusedSoFar'
    BY <1>0, Parsed DEF ScanInv, Ordered, RefusedSoFar
  <2> QED BY <2>1, <2>2, <2>3, <2>4 DEF Ordered
<1>3. P!ConclusionIsOnDisk' /\ P!UsageMeansNothingRan' /\ P!CleanIsBelowThreshold'
  BY <1>0, Parsed, NoConclusion
<1> QED BY <1>1, <1>2, <1>3 DEF ScanInv, Ordered

LEMMA ProbePathKeeps == ASSUME ScanInv, P!ProbePath PROVE ScanInv'
<1>0. /\ stage = "specification" /\ exit = P!None /\ cfg.spec = "probe"
      /\ probe <= WellKnownPaths /\ probe' = probe + 1
      /\ \E a \in {"refused", "failed", "empty", "malformed", "document"} :
           /\ requests' = IF a = "refused" THEN requests ELSE requests \cup {"specification"}
           /\ answers' = answers \cup {a}
      /\ \/ \E ok : P!Parse(ok)
         \/ UNCHANGED <<stage, exit, surface, fidelity>>
      /\ UNCHANGED <<cfg, reachable, registered, files, res, shown, interrupted>>
  BY DEF P!ProbePath, P!Running, P!Remember, P!Answers, P!told
<1>1. P!TypeOK'
  <2>1. exit' \in {P!Codes[c] : c \in DOMAIN P!Codes} \cup {P!None, P!Signal}
    BY <1>0, Parsed, CodesOfExit
  <2>2. stage' \in {"adapters", "ended", "specification"}
    BY <1>0, Parsed
  <2>3. surface' \in {surface, {"documented"}} /\ fidelity' \in {fidelity, {"documented"}}
    BY <1>0, Parsed
  <2>4. /\ probe' \in 1 .. WellKnownPaths + 1
        /\ answers' \subseteq {"refused", "failed", "empty", "malformed", "document"}
        /\ requests' \subseteq {"specification", "discovery", "checks", "authenticated"}
    BY <1>0, SomePathIsProbed DEF ScanInv, P!TypeOK
  <2> QED BY <1>0, <2>1, <2>2, <2>3, <2>4 DEF ScanInv, P!TypeOK
<1>2. Ordered'
  <2>1. EndsWithACode' /\ NothingYet' /\ WrittenInOrder'
    BY <1>0, Parsed, CodesOfExit DEF ScanInv, Ordered, EndsWithACode, NothingYet, WrittenInOrder
  <2>2. GradedThroughout'
    BY <1>0, Parsed DEF ScanInv, Ordered, GradedThroughout
  <2>3. RegisteredFirst'
    BY <1>0, Parsed DEF ScanInv, Ordered, RegisteredFirst, P!CredentialsAreRegistered
  <2>4. RefusedSoFar'
    BY <1>0, Parsed DEF ScanInv, Ordered, RefusedSoFar
  <2> QED BY <2>1, <2>2, <2>3, <2>4 DEF Ordered
<1>3. P!ConclusionIsOnDisk' /\ P!UsageMeansNothingRan' /\ P!CleanIsBelowThreshold'
  BY <1>0, Parsed, NoConclusion
<1> QED BY <1>1, <1>2, <1>3 DEF ScanInv, Ordered

LEMMA NoSpecificationKeeps == ASSUME ScanInv, P!NoSpecification PROVE ScanInv'
<1> USE DEF P!NoSpecification, P!Running, P!Continue, P!Exit, P!told, P!found, P!Probed
<1>1. P!TypeOK'
  BY CodesOfExit DEF ScanInv, P!TypeOK
<1>2. Ordered'
  BY CodesOfExit DEF ScanInv, P!TypeOK, Ordered, EndsWithACode, NothingYet, WrittenInOrder,
     GradedThroughout, RegisteredFirst, P!CredentialsAreRegistered, RefusedSoFar
<1>3. P!ConclusionIsOnDisk' /\ P!UsageMeansNothingRan' /\ P!CleanIsBelowThreshold'
  BY NoConclusion DEF ScanInv, Ordered, NothingYet
<1> QED BY <1>1, <1>2, <1>3 DEF ScanInv, Ordered

LEMMA AdaptersKeeps == ASSUME ScanInv, P!Adapters PROVE ScanInv'
<1> USE DEF P!Adapters, P!Running, P!Continue, P!Exit, P!told, P!found, P!Grade, P!AddDiscovered
<1>1. P!TypeOK'
  BY CodesOfExit DEF ScanInv, P!TypeOK
<1>2. Ordered'
  BY CodesOfExit DEF ScanInv, P!TypeOK, Ordered, EndsWithACode, NothingYet, WrittenInOrder,
     GradedThroughout, RegisteredFirst, P!CredentialsAreRegistered, RefusedSoFar
<1>3. P!ConclusionIsOnDisk' /\ P!UsageMeansNothingRan' /\ P!CleanIsBelowThreshold'
  BY NoConclusion DEF ScanInv, Ordered, NothingYet
<1> QED BY <1>1, <1>2, <1>3 DEF ScanInv, Ordered

LEMMA DiscoverKeeps == ASSUME ScanInv, P!Discover PROVE ScanInv'
<1> USE DEF P!Discover, P!Running, P!Continue, P!Exit, P!told, P!found
<1>1. P!TypeOK'
  BY CodesOfExit DEF ScanInv, P!TypeOK
<1>2. Ordered'
  BY CodesOfExit DEF ScanInv, P!TypeOK, Ordered, EndsWithACode, NothingYet, WrittenInOrder,
     GradedThroughout, RegisteredFirst, P!CredentialsAreRegistered, RefusedSoFar
<1>3. P!ConclusionIsOnDisk' /\ P!UsageMeansNothingRan' /\ P!CleanIsBelowThreshold'
  BY NoConclusion DEF ScanInv, Ordered, NothingYet
<1> QED BY <1>1, <1>2, <1>3 DEF ScanInv, Ordered

LEMMA CreateRunKeeps == ASSUME ScanInv, P!CreateRun PROVE ScanInv'
<1> USE DEF P!CreateRun, P!Running, P!Continue, P!Exit, P!told, P!found
<1>1. P!TypeOK'
  BY CodesOfExit DEF ScanInv, P!TypeOK
<1>2. Ordered'
  BY CodesOfExit DEF ScanInv, P!TypeOK, Ordered, EndsWithACode, NothingYet, WrittenInOrder,
     GradedThroughout, RegisteredFirst, P!CredentialsAreRegistered, RefusedSoFar
<1>3. P!ConclusionIsOnDisk' /\ P!UsageMeansNothingRan' /\ P!CleanIsBelowThreshold'
  BY NoConclusion DEF ScanInv, Ordered, NothingYet
<1> QED BY <1>1, <1>2, <1>3 DEF ScanInv, Ordered

LEMMA ResolveIdentitiesKeeps == ASSUME ScanInv, P!ResolveIdentities PROVE ScanInv'
<1> USE DEF P!ResolveIdentities, P!Running, P!Continue, P!Exit, P!told, P!found
<1>1. P!TypeOK'
  BY CodesOfExit DEF ScanInv, P!TypeOK
<1>2. Ordered'
  BY CodesOfExit DEF ScanInv, P!TypeOK, Ordered, EndsWithACode, NothingYet, WrittenInOrder,
     GradedThroughout, RegisteredFirst, P!CredentialsAreRegistered, RefusedSoFar
<1>3. P!ConclusionIsOnDisk' /\ P!UsageMeansNothingRan' /\ P!CleanIsBelowThreshold'
  BY NoConclusion DEF ScanInv, Ordered, NothingYet
<1> QED BY <1>1, <1>2, <1>3 DEF ScanInv, Ordered

LEMMA AssessKeeps == ASSUME ScanInv, P!Assess PROVE ScanInv'
<1> USE DEF P!Assess, P!Running, P!Continue, P!Exit, P!told, P!found, P!PossibleResults
<1>1. P!TypeOK'
  BY CodesOfExit DEF ScanInv, P!TypeOK
<1>2. Ordered'
  BY CodesOfExit DEF ScanInv, P!TypeOK, Ordered, EndsWithACode, NothingYet, WrittenInOrder,
     GradedThroughout, RegisteredFirst, P!CredentialsAreRegistered, RefusedSoFar
<1>3. P!ConclusionIsOnDisk' /\ P!UsageMeansNothingRan' /\ P!CleanIsBelowThreshold'
  BY NoConclusion DEF ScanInv, Ordered, NothingYet
<1> QED BY <1>1, <1>2, <1>3 DEF ScanInv, Ordered

LEMMA WriteReportKeeps == ASSUME ScanInv, P!WriteReport PROVE ScanInv'
<1> USE DEF P!WriteReport, P!Running, P!Continue, P!Exit, P!told, P!found
<1>1. P!TypeOK'
  <2>1. exit' \in {P!Codes[c] : c \in DOMAIN P!Codes} \cup {P!None, P!Signal}
    BY CodesOfExit DEF ScanInv, P!TypeOK
  <2>2. /\ stage' \in {"sarif", "summary", "ended"}
        /\ files' \subseteq {"meta.json", "fingerprint.key", "report.json", "report.sarif"}
    BY DEF ScanInv, P!TypeOK
  <2> QED BY <2>1, <2>2 DEF ScanInv, P!TypeOK
<1>2. Ordered'
  BY CodesOfExit DEF ScanInv, P!TypeOK, Ordered, EndsWithACode, NothingYet, WrittenInOrder,
     GradedThroughout, RegisteredFirst, P!CredentialsAreRegistered, RefusedSoFar
<1>3. P!ConclusionIsOnDisk' /\ P!UsageMeansNothingRan' /\ P!CleanIsBelowThreshold'
  BY NoConclusion DEF ScanInv, Ordered, NothingYet
<1> QED BY <1>1, <1>2, <1>3 DEF ScanInv, Ordered

LEMMA WriteSARIFKeeps == ASSUME ScanInv, P!WriteSARIF PROVE ScanInv'
<1> USE DEF P!WriteSARIF, P!Running, P!Continue, P!Exit, P!told, P!found
<1>1. P!TypeOK'
  <2>1. exit' \in {P!Codes[c] : c \in DOMAIN P!Codes} \cup {P!None, P!Signal}
    BY CodesOfExit DEF ScanInv, P!TypeOK
  <2>2. /\ stage' \in {"sarif", "summary", "ended"}
        /\ files' \subseteq {"meta.json", "fingerprint.key", "report.json", "report.sarif"}
    BY DEF ScanInv, P!TypeOK
  <2> QED BY <2>1, <2>2 DEF ScanInv, P!TypeOK
<1>2. Ordered'
  BY CodesOfExit DEF ScanInv, P!TypeOK, Ordered, EndsWithACode, NothingYet, WrittenInOrder,
     GradedThroughout, RegisteredFirst, P!CredentialsAreRegistered, RefusedSoFar
<1>3. P!ConclusionIsOnDisk' /\ P!UsageMeansNothingRan' /\ P!CleanIsBelowThreshold'
  BY NoConclusion DEF ScanInv, Ordered, NothingYet
<1> QED BY <1>1, <1>2, <1>3 DEF ScanInv, Ordered

LEMMA InterruptKeeps == ASSUME ScanInv, P!Interrupt PROVE ScanInv'
<1> USE DEF P!Interrupt, P!Running, P!Continue, P!Exit, P!told, P!found
<1>1. P!TypeOK'
  BY CodesOfExit DEF ScanInv, P!TypeOK
<1>2. Ordered'
  BY CodesOfExit DEF ScanInv, P!TypeOK, Ordered, EndsWithACode, NothingYet, WrittenInOrder,
     GradedThroughout, RegisteredFirst, P!CredentialsAreRegistered, RefusedSoFar
<1>3. P!ConclusionIsOnDisk' /\ P!UsageMeansNothingRan' /\ P!CleanIsBelowThreshold'
  BY NoConclusion DEF ScanInv, Ordered, NothingYet
<1> QED BY <1>1, <1>2, <1>3 DEF ScanInv, Ordered

LEMMA SummarizeKeeps == ASSUME ScanInv, P!Summarize PROVE ScanInv'
<1>1. /\ stage = "summary" /\ exit = P!None /\ shown' = TRUE /\ stage' = "ended"
      /\ UNCHANGED <<cfg, reachable, probe, answers, requests, registered, surface, fidelity,
                     files, res, interrupted>>
  BY DEF P!Summarize, P!Running, P!Exit, P!found, P!told
<1>2. \/ exit' = P!Codes["nothing"]
      \/ exit' = P!Codes["findings"] /\ res.executed
      \/ exit' = P!Codes["ok"] /\ res.executed /\ P!PolicyFailures = {}
  BY DEF P!Summarize, P!Exit, P!Verdict
<1>3. P!TypeOK'
  <2>1. exit' \in {P!Codes[c] : c \in DOMAIN P!Codes} \cup {P!None, P!Signal}
    BY <1>2, CodesOfExit
  <2> QED BY <1>1, <2>1 DEF ScanInv, P!TypeOK
<1>4. Ordered'
  BY <1>1, <1>2, CodesOfExit DEF ScanInv, Ordered, EndsWithACode, NothingYet, WrittenInOrder,
     GradedThroughout, RegisteredFirst, P!CredentialsAreRegistered, RefusedSoFar
<1>5. P!ConclusionIsOnDisk' /\ P!UsageMeansNothingRan'
  BY <1>1, <1>2, CodesOfExit DEF ScanInv, Ordered, WrittenInOrder, P!ConclusionIsOnDisk,
     P!UsageMeansNothingRan
<1>6. P!CleanIsBelowThreshold'
  <2> SUFFICES ASSUME exit' = P!Codes.ok PROVE P!CleanIsBelowThreshold'
    BY DEF P!CleanIsBelowThreshold
  <2>1. res.executed /\ P!PolicyFailures = {}
    BY <1>2, CodesOfExit
  <2>2. cfg' = cfg /\ res' = res
    BY <1>1
  <2> QED BY <2>1, <2>2 DEF P!CleanIsBelowThreshold, P!PolicyFailures, P!AtLeast, P!HasRank,
             P!Rank
<1> QED BY <1>3, <1>4, <1>5, <1>6 DEF ScanInv, Ordered

LEMMA ScanStarts == ASSUME P!Init PROVE ScanInv
<1> USE DEF P!Init
<1>1. P!TypeOK
  <2>1. P!NoResult \in [executed : BOOLEAN, findings : SUBSET P!Findings]
    BY DEF P!NoResult
  <2>2. probe \in 1 .. WellKnownPaths + 1
    BY SomePathIsProbed
  <2> QED BY <2>1, <2>2 DEF P!TypeOK
<1>2. Ordered
  BY DEF Ordered, EndsWithACode, NothingYet, WrittenInOrder, GradedThroughout, RegisteredFirst,
         P!CredentialsAreRegistered, RefusedSoFar
<1>3. P!ConclusionIsOnDisk /\ P!UsageMeansNothingRan /\ P!CleanIsBelowThreshold
  BY CodesOfExit DEF P!ConclusionIsOnDisk, P!UsageMeansNothingRan, P!CleanIsBelowThreshold
<1> QED BY <1>1, <1>2, <1>3 DEF ScanInv, Ordered

LEMMA ScanStutters == ASSUME ScanInv, UNCHANGED P!vars PROVE ScanInv'
<1>1. UNCHANGED <<cfg, reachable, stage, probe, answers, requests, registered, surface, fidelity,
                  files, res, shown, exit, interrupted>>
  BY DEF P!vars, P!found, P!told
<1>2. P!TypeOK'
  BY <1>1 DEF ScanInv, P!TypeOK
<1>3. Ordered'
  BY <1>1 DEF ScanInv, Ordered, EndsWithACode, NothingYet, WrittenInOrder, GradedThroughout,
     RegisteredFirst, P!CredentialsAreRegistered, RefusedSoFar
<1>4. P!ConclusionIsOnDisk' /\ P!UsageMeansNothingRan' /\ P!CleanIsBelowThreshold'
  BY <1>1 DEF ScanInv, P!ConclusionIsOnDisk, P!UsageMeansNothingRan, P!CleanIsBelowThreshold,
     P!AtLeast, P!HasRank, P!Rank
<1> QED BY <1>2, <1>3, <1>4 DEF ScanInv, Ordered

LEMMA ScanKeeps == ASSUME ScanInv, [P!Next]_(P!vars) PROVE ScanInv'
<1>1. CASE P!Steps
  BY <1>1, ConfigureKeeps, ClientKeeps, ReadSpecificationKeeps, FetchSpecificationKeeps,
     ProbePathKeeps, NoSpecificationKeeps, AdaptersKeeps, DiscoverKeeps, CreateRunKeeps,
     ResolveIdentitiesKeeps, AssessKeeps, WriteReportKeeps, WriteSARIFKeeps, SummarizeKeeps
     DEF P!Steps
<1>2. CASE P!Interrupt
  BY <1>2, InterruptKeeps
<1>3. CASE P!Over \/ UNCHANGED P!vars
  BY <1>3, ScanStutters DEF P!Over
<1> QED BY <1>1, <1>2, <1>3 DEF P!Next

\* An exit code means what exit.go says it means, for any number of probed paths, any
\* thresholds and any configuration, whichever stage fails or is interrupted.
THEOREM ScansAreConsistent == P!Spec => []ScanIsConsistent
<1>1. P!Init => ScanInv
  BY ScanStarts
<1>2. ScanInv /\ [P!Next]_(P!vars) => ScanInv'
  BY ScanKeeps
<1>3. ScanInv => ScanIsConsistent
  BY DEF ScanInv, Ordered, ScanIsConsistent, P!ScanIsConsistent, P!GradedAsAssessed,
         GradedThroughout, RegisteredFirst
<1> QED BY <1>1, <1>2, <1>3, PTL DEF P!Spec

\* Only NoSpecification ends the run of an operator who named no specification with that code,
\* and it has probed a path by then.
LEMMA AbortsAreExplained ==
  ASSUME ScanInv, P!Next, requests = {}, exit' = P!Codes.aborted, cfg.spec = "probe",
         ~ UNCHANGED P!vars
  PROVE  P!Reason # "none found"
<1>1. exit' \notin {P!None, P!Signal, P!Codes["usage"], P!Codes["internal"], P!Codes["nothing"],
                  P!Codes["findings"], P!Codes["ok"]}
  BY CodesOfExit
<1>2. CASE P!NoSpecification
  <2>1. /\ stage = "specification" /\ probe > WellKnownPaths
    BY <1>2 DEF P!NoSpecification, P!Running, P!Probed
  <2>2. probe > 1
    BY <2>1, SomePathIsProbed DEF ScanInv, P!TypeOK
  <2>3. answers # {} /\ answers \subseteq {"refused"}
    BY <2>1, <2>2 DEF ScanInv, Ordered, RefusedSoFar
  <2> QED BY <2>3 DEF P!Reason
<1>3. CASE P!ProbePath
  <2>1. exit = P!None /\ ((\E ok : ok /\ P!Parse(ok)) \/ exit' = exit)
    BY <1>3, Zenon DEF P!ProbePath, P!Running
  <2> QED BY <1>1, <2>1 DEF P!Parse, P!Continue
<1>4. CASE P!Summarize
  <2>1. exit' \in {P!Codes["nothing"], P!Codes["findings"], P!Codes["ok"]}
    BY <1>4 DEF P!Summarize, P!Exit, P!Verdict
  <2> QED BY <1>1, <2>1
<1>5. CASE P!ReadSpecification \/ P!FetchSpecification
  BY <1>5 DEF P!ReadSpecification, P!FetchSpecification
<1>6. CASE P!Configure \/ P!Client
  <2>1. exit' \in {P!None, P!Codes["usage"]}
    BY <1>6 DEF P!Configure, P!Client, P!Running, P!Continue, P!Exit
  <2> QED BY <1>1, <2>1
<1>7. CASE P!Adapters \/ P!Discover \/ P!ResolveIdentities \/ P!Assess
  BY <1>1, <1>7 DEF P!Adapters, P!Discover, P!ResolveIdentities, P!Assess, P!Running, P!Continue
<1>8. CASE P!CreateRun \/ P!WriteReport \/ P!WriteSARIF
  <2>1. exit' \in {P!None, P!Codes["internal"]}
    BY <1>8 DEF P!CreateRun, P!WriteReport, P!WriteSARIF, P!Running, P!Continue, P!Exit
  <2> QED BY <1>1, <2>1
<1>9. CASE P!Interrupt
  BY <1>1, <1>9 DEF P!Interrupt
<1>10. CASE P!Over
  BY <1>10 DEF P!Over
<1> QED BY <1>2, <1>3, <1>4, <1>5, <1>6, <1>7, <1>8, <1>9, <1>10 DEF P!Next, P!Steps

\* A run that was refused everywhere says so, with any number of well-known paths.
THEOREM RefusalsAreTold == P!Spec => RefusalIsNotAbsence
<1>1. P!Init => ScanInv
  BY ScanStarts
<1>2. ScanInv /\ [P!Next]_(P!vars) => ScanInv'
  BY ScanKeeps
<1>3. ScanInv /\ [P!Next]_(P!vars) =>
        [requests = {} /\ exit' = P!Codes.aborted /\ cfg.spec = "probe"
           => P!Reason # "none found"]_(P!vars)
  BY AbortsAreExplained
<1> QED BY <1>1, <1>2, <1>3, PTL DEF P!Spec, RefusalIsNotAbsence, P!RefusalIsNotAbsence

-----------------------------------------------------------------------------
(*                              Reporting                                  *)
-----------------------------------------------------------------------------
Disps == {"executed", "blocked", "untested"}
Drawn(g) == {R!RowOf(u, g[u]) : u \in DOMAIN g}
PartlyDrawn == UNION {[D -> Disps] : D \in SUBSET Units}
EngineRows == {R!EngineRow(e) : e \in R!Ran}
PathRows == {R!PathRow(p) : p \in input.discovered}
IdentityRows == {R!IdentityRow(i) : i \in Identities}

\* What the proofs need of the constants.
LEMMA ReportingFacts ==
  /\ Units \subseteq R!UnitSpace /\ IsFiniteSet(Units)
  /\ \A u, v \in Units : R!Key(u) = R!Key(v) /\ u.who = v.who => u = v
  /\ Identities \subseteq STRING /\ Engines \subseteq STRING /\ Paths \subseteq STRING
  /\ IsFiniteSet(Engines) /\ IsFiniteSet(Paths)
  /\ \A i \in Inputs : /\ i.engines \in [Engines -> R!Outcomes] /\ i.discovered \subseteq Paths
  /\ \A i \in Inputs, e \in Engines : i.engines[e].covers => i.engines[e].status = "completed"
<1>1. \A S : R!IsFiniteSet(S) <=> IsFiniteSet(S)
  BY DEF R!IsFiniteSet, IsFiniteSet
<1>2. Inputs \subseteq R!AllInputs
  BY ReportingConstants DEF R!ReportingAssumption
<1>3. \A i \in R!AllInputs : i.engines \in [Engines -> R!Outcomes] /\ i.discovered \subseteq Paths
  BY DEF R!AllInputs
<1> QED BY <1>1, <1>2, <1>3, ReportingConstants DEF R!ReportingAssumption

LEMMA SameCardinality == \A S : R!Cardinality(S) = Cardinality(S)
BY DEF R!Cardinality, Cardinality

-----------------------------------------------------------------------------
(* Counting rows.                                                          *)

\* Disjoint sets are counted apart.
LEMMA DisjointUnion ==
  ASSUME NEW S, NEW T, IsFiniteSet(S), IsFiniteSet(T), S \cap T = {}
  PROVE  /\ IsFiniteSet(S \cup T)
         /\ Cardinality(S \cup T) = Cardinality(S) + Cardinality(T)
<1>1. Cardinality(S) \in Nat /\ Cardinality(T) \in Nat
  BY FS_CardinalityType
<1>2. Cardinality(S \cap T) = 0
  BY FS_EmptySet
<1>3. IsFiniteSet(S \cup T)
      /\ Cardinality(S \cup T) = Cardinality(S) + Cardinality(T) - Cardinality(S \cap T)
  BY FS_Union
<1> QED BY <1>1, <1>2, <1>3

\* A set of rows is as large as its three dispositions together.
LEMMA DispositionsPartition ==
  ASSUME NEW S, IsFiniteSet(S), \A r \in S : r.disp \in Disps
  PROVE  /\ \A d \in Disps : Cardinality({r \in S : r.disp = d}) \in Nat
         /\ Cardinality({r \in S : r.disp = "executed"})
              + Cardinality({r \in S : r.disp = "blocked"})
              + Cardinality({r \in S : r.disp = "untested"}) = Cardinality(S)
<1> DEFINE Of(d) == {r \in S : r.disp = d}
<1>1. \A d \in Disps : IsFiniteSet(Of(d)) /\ Cardinality(Of(d)) \in Nat
  <2> TAKE d \in Disps
  <2>1. Of(d) \in SUBSET S
    OBVIOUS
  <2> QED BY <2>1, FS_Subset, FS_CardinalityType
<1>2. /\ Of("executed") \cap Of("blocked") = {}
      /\ (Of("executed") \cup Of("blocked")) \cap Of("untested") = {}
      /\ (Of("executed") \cup Of("blocked")) \cup Of("untested") = S
  BY DEF Disps
<1>6. /\ IsFiniteSet(Of("executed")) /\ Cardinality(Of("executed")) \in Nat
      /\ IsFiniteSet(Of("blocked")) /\ Cardinality(Of("blocked")) \in Nat
      /\ IsFiniteSet(Of("untested")) /\ Cardinality(Of("untested")) \in Nat
  <2> HIDE DEF Of
  <2> QED BY <1>1 DEF Disps
<1> HIDE DEF Of
<1>3. /\ IsFiniteSet(Of("executed") \cup Of("blocked"))
      /\ Cardinality(Of("executed") \cup Of("blocked"))
           = Cardinality(Of("executed")) + Cardinality(Of("blocked"))
  BY <1>2, <1>6, DisjointUnion
<1>4. Cardinality(S) = Cardinality(Of("executed") \cup Of("blocked")) + Cardinality(Of("untested"))
  <2>1. Cardinality((Of("executed") \cup Of("blocked")) \cup Of("untested"))
          = Cardinality(Of("executed") \cup Of("blocked")) + Cardinality(Of("untested"))
    BY <1>2, <1>3, <1>6, DisjointUnion
  <2> QED BY <1>2, <2>1
<1>5. Cardinality(S) = Cardinality(Of("executed")) + Cardinality(Of("blocked"))
                         + Cardinality(Of("untested"))
  BY <1>3, <1>4, <1>6
<1> QED BY <1>1, <1>5 DEF Of

\* Each unit has one row, each engine that was enabled and each discovered path too.
LEMMA OneRowEach ==
  ASSUME NEW g \in [Units -> Disps], input \in Inputs
  PROVE  LET work == Drawn(g) \cup EngineRows \cup PathRows IN
         /\ IsFiniteSet(work)
         /\ Cardinality(work)
              = Cardinality(Units) + Cardinality(R!Ran) + Cardinality(input.discovered)
<1>1. IsFiniteSet(Drawn(g)) /\ Cardinality(Drawn(g)) = Cardinality(Units)
  <2> DEFINE f == [u \in Units |-> R!RowOf(u, g[u])]
  <2>1. f \in [Units -> Drawn(g)]
    BY DEF Drawn
  <2>2. \A u, v \in Units : f[u] = f[v] => u = v
    BY ReportingFacts DEF R!RowOf, R!Key
  <2>3. \A r \in Drawn(g) : \E u \in Units : f[u] = r
    BY DEF Drawn
  <2> HIDE DEF f
  <2>4. f \in Bijection(Units, Drawn(g))
    BY <2>1, <2>2, <2>3 DEF Bijection, Injection, IsInjective, Surjection
  <2> QED BY <2>4, ReportingFacts, FS_Bijection DEF ExistsBijection
<1>2. IsFiniteSet(R!Ran) /\ IsFiniteSet(EngineRows) /\ Cardinality(EngineRows) = Cardinality(R!Ran)
  <2> DEFINE f == [e \in R!Ran |-> R!EngineRow(e)]
  <2>1. f \in [R!Ran -> EngineRows]
    BY DEF EngineRows
  <2>2. \A d, e \in R!Ran : f[d] = f[e] => d = e
    BY DEF R!EngineRow
  <2>3. \A r \in EngineRows : \E e \in R!Ran : f[e] = r
    BY DEF EngineRows
  <2> HIDE DEF f
  <2>4. f \in Bijection(R!Ran, EngineRows)
    BY <2>1, <2>2, <2>3 DEF Bijection, Injection, IsInjective, Surjection
  <2>5. R!Ran \in SUBSET Engines
    BY DEF R!Ran
  <2>6. IsFiniteSet(R!Ran)
    BY <2>5, ReportingFacts, FS_Subset
  <2> QED BY <2>4, <2>6, FS_Bijection DEF ExistsBijection
<1>3. /\ IsFiniteSet(input.discovered) /\ IsFiniteSet(PathRows)
      /\ Cardinality(PathRows) = Cardinality(input.discovered)
  <2> DEFINE f == [p \in input.discovered |-> R!PathRow(p)]
  <2>1. f \in [input.discovered -> PathRows]
    BY DEF PathRows
  <2>2. \A p, q \in input.discovered : f[p] = f[q] => p = q
    BY DEF R!PathRow
  <2>3. \A r \in PathRows : \E p \in input.discovered : f[p] = r
    BY DEF PathRows
  <2> HIDE DEF f
  <2>4. f \in Bijection(input.discovered, PathRows)
    BY <2>1, <2>2, <2>3 DEF Bijection, Injection, IsInjective, Surjection
  <2>5. IsFiniteSet(input.discovered)
    BY ReportingFacts, FS_Subset
  <2> QED BY <2>4, <2>5, FS_Bijection DEF ExistsBijection
<1>4. Drawn(g) \cap EngineRows = {} /\ (Drawn(g) \cup EngineRows) \cap PathRows = {}
  <2>1. \A r \in Drawn(g) : r.dim \in {"operation", "ownership"}
    BY ReportingFacts DEF Drawn, R!RowOf, R!UnitSpace
  <2>2. \A r \in EngineRows : r.dim = "engine"
    BY DEF EngineRows, R!EngineRow
  <2>3. \A r \in PathRows : r.dim = "path"
    BY DEF PathRows, R!PathRow
  <2> QED BY <2>1, <2>2, <2>3
<1>5. /\ IsFiniteSet(Drawn(g) \cup EngineRows)
      /\ Cardinality(Drawn(g) \cup EngineRows) = Cardinality(Units) + Cardinality(R!Ran)
  <2>1. Cardinality(Units) \in Nat /\ Cardinality(R!Ran) \in Nat
    BY <1>2, ReportingFacts, FS_CardinalityType
  <2> QED BY <1>1, <1>2, <1>4, <2>1, FS_Union, FS_EmptySet
<1>6. /\ Cardinality(Units) \in Nat /\ Cardinality(R!Ran) \in Nat
      /\ Cardinality(input.discovered) \in Nat
  BY <1>2, <1>3, ReportingFacts, FS_CardinalityType
<1> QED BY <1>3, <1>4, <1>5, <1>6, FS_Union, FS_EmptySet

-----------------------------------------------------------------------------
(* What holds of the report at every moment.                               *)

Finding == [subject : STRING, check : STRING, resource : STRING, who : STRING,
            state : {"suspected", "confirmed"}]

\* The ledger has a row for each unit that is done, and no other; at the end for all.
OneRowPerUnit ==
  \E g \in PartlyDrawn :
    /\ ledger = Drawn(g)
    /\ reporting # "working" => DOMAIN g = Units

\* Each document exists from its phase on.
InPhase ==
  /\ reporting \in {"working", "probing", "assembling"} => assembled = R!Nothing
  /\ reporting \in {"working", "probing", "assembling", "sorting", "building"} => doc = R!Nothing
  /\ reporting # "printed" => summary = R!Nothing

\* The rows of the result are those of the units, whatever their dispositions have become,
\* and one for each identity, engine and path.
Accounted ==
  \E g \in [Units -> Disps] :
    assembled.coverage = Drawn(g) \cup IdentityRows \cup EngineRows \cup PathRows

Boundaries == {r \in assembled.coverage : r.dim = "ownership" /\ r.disp = "executed"}

Credited ==
  \A c \in assembled.classes :
    /\ c.extent \in {0, R!Cardinality(Boundaries)}
    /\ c.by # {} => \E e \in c.by : input.engines[e].covers /\ c.class \in R!Capabilities(e)

AssembledWell ==
  reporting \in {"sorting", "building", "printing", "printed"} =>
    /\ assembled = [coverage |-> assembled.coverage, findings |-> assembled.findings,
                    ownership |-> assembled.ownership, failures |-> assembled.failures,
                    classes |-> assembled.classes]
    /\ Accounted
    /\ \E n \in Nat : DOMAIN assembled.findings = 1 .. n
    /\ assembled.ownership.verified = Boundaries
    /\ assembled.failures = {e \in Engines : input.engines[e].status = "blocked"}
    /\ Credited

BuiltWell ==
  reporting \in {"printing", "printed"} =>
    /\ doc.executed = R!CountDisposition("executed")
    /\ doc.blocked = R!CountDisposition("blocked")
    /\ doc.untested = R!CountDisposition("untested")
    /\ doc.confirmed \in Nat /\ doc.suspected \in Nat
    /\ doc.failures = assembled.failures

PrintedWell ==
  reporting = "printed" =>
    /\ summary.executed = doc.executed /\ summary.blocked = doc.blocked
    /\ summary.untested = doc.untested
    /\ summary.confirmed = doc.confirmed /\ summary.suspected = doc.suspected
    /\ summary.failed = doc.failures /\ summary.identities = R!Warned

ReportTypes ==
  /\ input \in Inputs /\ reporting \in R!Phases /\ controls \subseteq Units
  /\ found \in Seq(Finding) /\ standing \in [Identities -> R!Standings]

ReportInv ==
  /\ ReportTypes /\ OneRowPerUnit /\ InPhase /\ AssembledWell /\ BuiltWell /\ PrintedWell

-----------------------------------------------------------------------------
\* Every row has its type and its dimension.
LEMMA RowsAreRows ==
  ASSUME ReportTypes, NEW g \in [Units -> Disps]
  PROVE  /\ \A r \in Drawn(g) : r \in R!Row /\ r.dim \in {"operation", "ownership"}
         /\ \A r \in IdentityRows : r \in R!Row /\ r.dim = "identity"
         /\ \A r \in EngineRows : r \in R!Row /\ r.dim = "engine"
         /\ \A r \in PathRows : r \in R!Row /\ r.dim = "path"
<1>1. ASSUME NEW u \in Units
      PROVE  R!RowOf(u, g[u]) \in R!Row
             /\ R!RowOf(u, g[u]).dim \in {"operation", "ownership"}
  <2>1. u \in R!UnitSpace /\ g[u] \in Disps
    BY ReportingFacts
  <2> QED BY <2>1, ReportingFacts DEF R!UnitSpace, R!RowOf, R!Row, R!Name, Disps
<1>2. ASSUME NEW i \in Identities
      PROVE  R!IdentityRow(i) \in R!Row /\ R!IdentityRow(i).dim = "identity"
  BY ReportingFacts DEF R!IdentityRow, R!Row, R!Name
<1>3. ASSUME NEW e \in R!Ran PROVE R!EngineRow(e) \in R!Row /\ R!EngineRow(e).dim = "engine"
  BY ReportingFacts DEF R!EngineRow, R!Ran, R!Row, R!Name
<1>4. ASSUME NEW p \in input.discovered
      PROVE  R!PathRow(p) \in R!Row /\ R!PathRow(p).dim = "path"
  BY ReportingFacts DEF R!PathRow, R!Row, R!Name, ReportTypes
<1> QED BY <1>1, <1>2, <1>3, <1>4 DEF Drawn, IdentityRows, EngineRows, PathRows

\* The three dispositions of the report count every unit, enabled engine and discovered path.
LEMMA EveryPieceIsCounted ==
  ASSUME ReportTypes, NEW g \in [Units -> Disps],
         assembled.coverage = Drawn(g) \cup IdentityRows \cup EngineRows \cup PathRows
  PROVE  /\ \A d \in Disps : R!CountDisposition(d) \in Nat
         /\ R!CountDisposition("executed") + R!CountDisposition("blocked")
              + R!CountDisposition("untested")
              = Cardinality(Units) + Cardinality(R!Ran) + Cardinality(input.discovered)
         /\ R!CountDisposition("blocked") = 0 =>
              \A r \in Drawn(g) \cup EngineRows \cup PathRows : r.disp # "blocked"
<1> DEFINE work == Drawn(g) \cup EngineRows \cup PathRows
           Of(d) == {r \in work : r.disp = d}
<1>1. \A d \in Disps : {r \in assembled.coverage : R!IsAssessmentWork(r.dim) /\ r.disp = d} = Of(d)
  BY RowsAreRows DEF R!IsAssessmentWork
<1>2. \A d \in Disps : R!CountDisposition(d) = Cardinality(Of(d))
  BY <1>1, SameCardinality DEF R!CountDisposition
<1>3. \A r \in work : r.disp \in Disps
  BY RowsAreRows DEF R!Row, Disps
<1>4. IsFiniteSet(work)
      /\ Cardinality(work) = Cardinality(Units) + Cardinality(R!Ran) + Cardinality(input.discovered)
  BY OneRowEach DEF ReportTypes
<1> HIDE DEF work
<1>5. /\ \A d \in Disps : Cardinality(Of(d)) \in Nat
      /\ Cardinality(Of("executed")) + Cardinality(Of("blocked")) + Cardinality(Of("untested"))
           = Cardinality(work)
  BY <1>3, <1>4, DispositionsPartition
<1>6. Cardinality(Of("blocked")) = 0 => Of("blocked") = {}
  <2>1. Of("blocked") \in SUBSET work
    OBVIOUS
  <2> HIDE DEF Of
  <2> QED BY <2>1, <1>4, FS_Subset, FS_EmptySet
<1>7. "executed" \in Disps /\ "blocked" \in Disps /\ "untested" \in Disps
  BY DEF Disps
<1>8. \A r \in work : r.disp = "blocked" => Of("blocked") # {}
  OBVIOUS
<1> HIDE DEF Of
<1>9. R!CountDisposition("blocked") = 0 => \A r \in work : r.disp # "blocked"
  BY <1>2, <1>6, <1>7, <1>8
<1>10. R!CountDisposition("executed") + R!CountDisposition("blocked")
         + R!CountDisposition("untested") = Cardinality(work)
  BY <1>2, <1>5, <1>7
<1> QED BY <1>2, <1>4, <1>5, <1>9, <1>10 DEF work

-----------------------------------------------------------------------------
\* The invariant gives the property.
LEMMA ReportInvFollows == ASSUME ReportInv PROVE ReportFollowsLedger
<1> USE DEF ReportInv
<1>1. assembled # R!Nothing => reporting \in {"sorting", "building", "printing", "printed"}
  BY DEF ReportTypes, InPhase, R!Phases
<1>2. doc # R!Nothing => reporting \in {"printing", "printed"}
  BY DEF ReportTypes, InPhase, R!Phases
<1>3. summary # R!Nothing => reporting = "printed"
  BY DEF InPhase
<1>4. ASSUME reporting \in {"sorting", "building", "printing", "printed"}
      PROVE  \E g \in [Units -> Disps] :
               /\ assembled.coverage = Drawn(g) \cup IdentityRows \cup EngineRows \cup PathRows
               /\ \A d \in Disps : R!CountDisposition(d) \in Nat
               /\ R!CountDisposition("executed") + R!CountDisposition("blocked")
                    + R!CountDisposition("untested")
                    = Cardinality(Units) + Cardinality(R!Ran) + Cardinality(input.discovered)
               /\ R!CountDisposition("blocked") = 0 =>
                    \A r \in Drawn(g) \cup EngineRows \cup PathRows : r.disp # "blocked"
  <2>1. PICK g \in [Units -> Disps] :
          assembled.coverage = Drawn(g) \cup IdentityRows \cup EngineRows \cup PathRows
    BY <1>4 DEF AssembledWell, Accounted
  <2> QED BY <2>1, EveryPieceIsCounted
<1>5. R!TypeOK
  <2>1. ledger \subseteq R!Row
    <3>1. PICK g \in PartlyDrawn : ledger = Drawn(g)
      BY DEF OneRowPerUnit
    <3>2. PICK D \in SUBSET Units : g \in [D -> Disps]
      BY DEF PartlyDrawn
    <3>3. ASSUME NEW u \in D PROVE R!RowOf(u, g[u]) \in R!Row
      <4>1. u \in R!UnitSpace /\ g[u] \in Disps
        BY <3>2, ReportingFacts
      <4> QED BY <4>1, ReportingFacts DEF R!UnitSpace, R!RowOf, R!Row, R!Name, Disps
    <3> QED BY <3>1, <3>2, <3>3 DEF Drawn
  <2>2. \A k \in DOMAIN found : found[k].state \in {"suspected", "confirmed"}
    <3>1. \A k \in DOMAIN found : found[k] \in Finding
      BY DEF ReportTypes
    <3> QED BY <3>1 DEF Finding
  <2>3. assembled # R!Nothing => assembled.coverage \subseteq R!Row
    <3> SUFFICES ASSUME assembled # R!Nothing PROVE assembled.coverage \subseteq R!Row
      OBVIOUS
    <3>1. PICK g \in [Units -> Disps] :
            assembled.coverage = Drawn(g) \cup IdentityRows \cup EngineRows \cup PathRows
      BY <1>1, <1>4
    <3> QED BY <3>1, RowsAreRows
  <2>4. doc # R!Nothing =>
          {doc.executed, doc.blocked, doc.untested, doc.confirmed, doc.suspected} \subseteq Nat
    BY <1>2, <1>4 DEF BuiltWell, Disps
  <2>5. summary # R!Nothing =>
          {summary.executed, summary.blocked, summary.untested, summary.confirmed,
           summary.suspected} \subseteq Nat
    BY <1>3, <1>4 DEF BuiltWell, PrintedWell, Disps
  <2> QED BY <2>1, <2>2, <2>3, <2>4, <2>5 DEF R!TypeOK, ReportTypes
<1>6. R!EveryPieceOfWorkCounted
  BY <1>2, <1>4, SameCardinality DEF R!EveryPieceOfWorkCounted, BuiltWell
<1>7. R!OwnershipCountsWhatSurvived
  BY <1>1 DEF R!OwnershipCountsWhatSurvived, AssembledWell, Credited, Boundaries
<1>8. R!CreditNeedsCoverage
  BY <1>1 DEF R!CreditNeedsCoverage, AssembledWell, Credited
<1>9. R!CleanSummaryWasClean
  <2> SUFFICES ASSUME summary # R!Nothing, summary.failed = {}, summary.identities = {}
               PROVE  /\ \A i \in Identities : standing[i].usable
                           /\ (standing[i].monitored => standing[i].live = "good")
                      /\ summary.blocked = 0 =>
                           /\ \A r \in assembled.coverage : r.disp # "blocked"
                           /\ \A e \in R!Ran : input.engines[e].status = "completed"
    BY DEF R!CleanSummaryWasClean
  <2>1. reporting = "printed" /\ R!Warned = {}
    BY <1>3 DEF PrintedWell
  <2>2. \A i \in Identities : standing[i].usable
                              /\ (standing[i].monitored => standing[i].live = "good")
    BY <2>1 DEF R!Warned
  <2>3. ASSUME summary.blocked = 0
        PROVE  /\ \A r \in assembled.coverage : r.disp # "blocked"
               /\ \A e \in R!Ran : input.engines[e].status = "completed"
    <3>1. R!CountDisposition("blocked") = 0
      BY <2>1, <2>3 DEF PrintedWell, BuiltWell
    <3>2. PICK g \in [Units -> Disps] :
            /\ assembled.coverage = Drawn(g) \cup IdentityRows \cup EngineRows \cup PathRows
            /\ \A r \in Drawn(g) \cup EngineRows \cup PathRows : r.disp # "blocked"
      BY <1>4, <2>1, <3>1
    <3>3. \A i \in Identities : R!IdentityRow(i).disp # "blocked"
      <4> TAKE i \in Identities
      <4>1. standing[i] \in R!Standings
        BY DEF ReportTypes
      <4> QED BY <2>2, <4>1 DEF R!IdentityRow, R!Standings
    <3>4. \A e \in R!Ran : R!EngineRow(e).disp # "blocked"
      BY <3>2 DEF EngineRows
    <3> QED BY <3>2, <3>3, <3>4 DEF IdentityRows, R!EngineRow
  <2> QED BY <2>2, <2>3
<1> QED BY <1>5, <1>6, <1>7, <1>8, <1>9 DEF ReportFollowsLedger, R!ReportFollowsLedger

\* Nothing is reported yet.
LEMMA ReportStarts == ASSUME R!Init PROVE ReportInv
<1> USE DEF R!Init
<1>1. ReportTypes
  BY DEF ReportTypes, R!Phases
<1>2. OneRowPerUnit
  <2> DEFINE none == [u \in {} |-> "untested"]
  <2>1. none \in [{} -> Disps] /\ DOMAIN none = {}
    OBVIOUS
  <2> HIDE DEF none
  <2>2. none \in PartlyDrawn
    <3>1. {} \in SUBSET Units
      OBVIOUS
    <3> QED BY <2>1, <3>1 DEF PartlyDrawn
  <2>3. Drawn(none) = {}
    BY <2>1 DEF Drawn
  <2> QED BY <2>2, <2>3 DEF OneRowPerUnit
<1>3. InPhase /\ AssembledWell /\ BuiltWell /\ PrintedWell
  BY DEF InPhase, AssembledWell, BuiltWell, PrintedWell
<1> QED BY <1>1, <1>2, <1>3 DEF ReportInv

-----------------------------------------------------------------------------
(* One lemma for each step of the report.                                  *)

\* A unit that is done adds its row.
LEMMA FinishKeeps == ASSUME ReportInv, NEW u \in Units, R!Finish(u) PROVE ReportInv'
<1> USE DEF ReportInv
<1>1. PICK r \in R!ResultsOf(u) :
        /\ ledger' = ledger \cup {R!RowOf(u, r.disp)}
        /\ controls' = IF r.relied THEN controls \cup {u} ELSE controls
        /\ found' = IF r.state = "none" THEN found ELSE Append(found, R!FindingOf(u, r.state))
  BY DEF R!Finish
<1>2. /\ reporting = "working" /\ reporting' = reporting
      /\ UNCHANGED <<input, standing, assembled, doc, summary>>
  BY DEF R!Finish
<1>3. r.disp \in Disps /\ r.state \in {"none", "suspected", "confirmed"}
  BY DEF R!ResultsOf, R!States, Disps
<1>4. ReportTypes'
  <2>1. r.state # "none" => R!FindingOf(u, r.state) \in Finding
    BY <1>3, ReportingFacts DEF R!FindingOf, R!UnitSpace, Finding
  <2>2. found' \in Seq(Finding)
    BY <1>1, <2>1 DEF ReportTypes
  <2>3. controls' \subseteq Units
    BY <1>1 DEF ReportTypes
  <2> QED BY <1>2, <2>2, <2>3 DEF ReportTypes
<1>5. OneRowPerUnit'
  <2>1. PICK g \in PartlyDrawn : ledger = Drawn(g)
    BY DEF OneRowPerUnit
  <2>2. PICK D \in SUBSET Units : g \in [D -> Disps]
    BY DEF PartlyDrawn
  <2>3. u \notin D
    <3>1. ~ R!Reported(u)
      BY DEF R!Finish
    <3>2. u \in D => R!RowOf(u, g[u]) \in ledger
      BY <2>1, <2>2 DEF Drawn
    <3>3. R!Key(R!RowOf(u, g[u])) = R!Key(u) /\ R!RowOf(u, g[u]).who = u.who
      BY DEF R!RowOf, R!Key
    <3> QED BY <3>1, <3>2, <3>3 DEF R!Reported
  <2> DEFINE h == [v \in D \cup {u} |-> IF v = u THEN r.disp ELSE g[v]]
  <2>4. h \in [D \cup {u} -> Disps] /\ DOMAIN h = D \cup {u} /\ h[u] = r.disp
        /\ \A v \in D : h[v] = g[v]
    BY <1>3, <2>2, <2>3
  <2> HIDE DEF h
  <2>5. h \in PartlyDrawn
    <3>1. D \cup {u} \in SUBSET Units
      OBVIOUS
    <3> QED BY <2>4, <3>1 DEF PartlyDrawn
  <2>6. Drawn(h) = Drawn(g) \cup {R!RowOf(u, r.disp)}
    BY <2>2, <2>4 DEF Drawn
  <2>7. ledger' = Drawn(h)
    BY <1>1, <2>1, <2>6
  <2> QED BY <1>2, <2>5, <2>7 DEF OneRowPerUnit
<1>6. InPhase' /\ AssembledWell' /\ BuiltWell' /\ PrintedWell'
  BY <1>2 DEF InPhase, AssembledWell, BuiltWell, PrintedWell
<1> QED BY <1>4, <1>5, <1>6

\* When every unit is done the ledger has a row for each.
LEMMA AllFinishedKeeps == ASSUME ReportInv, R!AllFinished PROVE ReportInv'
<1> USE DEF ReportInv
<1>1. /\ reporting = "working" /\ reporting' = "probing"
      /\ UNCHANGED <<input, ledger, controls, found, standing, assembled, doc, summary>>
      /\ \A u \in Units : R!Reported(u)
  BY DEF R!AllFinished
<1>2. ReportTypes'
  BY <1>1 DEF ReportTypes, R!Phases
<1>3. OneRowPerUnit'
  <2>1. PICK g \in PartlyDrawn : ledger = Drawn(g)
    BY DEF OneRowPerUnit
  <2>2. PICK D \in SUBSET Units : g \in [D -> Disps]
    BY DEF PartlyDrawn
  <2>3. ASSUME NEW u \in Units PROVE u \in D
    <3>1. PICK r \in ledger : R!Key(r) = R!Key(u) /\ r.who = u.who
      BY <1>1 DEF R!Reported
    <3>2. PICK v \in D : r = R!RowOf(v, g[v])
      BY <2>1, <2>2, <3>1 DEF Drawn
    <3>3. R!Key(v) = R!Key(u) /\ v.who = u.who
      BY <3>1, <3>2 DEF R!RowOf, R!Key
    <3>4. v = u
      <4>1. v \in Units
        OBVIOUS
      <4> QED BY <3>3, <4>1, ReportingFacts
    <3> QED BY <3>4
  <2>4. DOMAIN g = Units
    BY <2>2, <2>3
  <2> QED BY <1>1, <2>1, <2>4 DEF OneRowPerUnit, Drawn
<1>4. InPhase' /\ AssembledWell' /\ BuiltWell' /\ PrintedWell'
  BY <1>1 DEF InPhase, AssembledWell, BuiltWell, PrintedWell
<1> QED BY <1>2, <1>3, <1>4

\* The closing canaries change what is known of the identities, before their rows are drawn.
LEMMA ProbeKeeps == ASSUME ReportInv, R!Probe PROVE ReportInv'
<1> USE DEF ReportInv
<1>1. /\ reporting = "probing" /\ reporting' = "assembling"
      /\ standing' \in [Identities -> R!Standings]
      /\ UNCHANGED <<input, ledger, controls, found, assembled, doc, summary>>
  BY DEF R!Probe
<1>2. ReportTypes'
  BY <1>1 DEF ReportTypes, R!Phases
<1>3. OneRowPerUnit'
  BY <1>1 DEF OneRowPerUnit, Drawn
<1>4. InPhase' /\ AssembledWell' /\ BuiltWell' /\ PrintedWell'
  BY <1>1 DEF InPhase, AssembledWell, BuiltWell, PrintedWell
<1> QED BY <1>2, <1>3, <1>4

\* A set of observations becomes a sequence.
LEMMA ImportedIsSequence ==
  ASSUME input \in Inputs
  PROVE  \E S : R!Imported \in Seq(S)
<1> DEFINE S == {[subject |-> R!NoName, check |-> e, resource |-> R!NoName, who |-> R!NoName,
                  state |-> "observed"] : e \in {x \in Engines : input.engines[x].observed > 0}}
           Injective(f) == R!IsInjective(f)
           n == R!Cardinality(S)
<1>1. IsFiniteSet(S) /\ n = Cardinality(S)
  <2> DEFINE E == {x \in Engines : input.engines[x].observed > 0}
             F == [e \in E |-> [subject |-> R!NoName, check |-> e, resource |-> R!NoName,
                                who |-> R!NoName, state |-> "observed"]]
  <2>1. E \in SUBSET Engines
    OBVIOUS
  <2>2. IsFiniteSet(E)
    <3> HIDE DEF E
    <3> QED BY <2>1, ReportingFacts, FS_Subset
  <2>3. F \in Surjection(E, S)
    BY DEF Surjection
  <2> HIDE DEF E, F, S
  <2> QED BY <2>2, <2>3, FS_Surjection, SameCardinality
<1>2. R!Imported = CHOOSE f \in [1 .. n -> S] : Injective(f)
  BY DEF R!Imported, R!SetToSeq
<1> HIDE DEF S
<1>3. \E f \in [1 .. n -> S] : Injective(f)
  <2>1. PICK f : f \in Bijection(1 .. n, S)
    BY <1>1, FS_CardinalityType DEF ExistsBijection
  <2> QED BY <2>1 DEF Bijection, Injection, IsInjective, R!IsInjective
<1>4. n \in Nat
  BY <1>1, FS_CardinalityType
<1> HIDE DEF n, Injective
<1>5. R!Imported \in [1 .. n -> S]
  BY <1>2, <1>3
<1>6. R!Imported \in Seq(S)
  <2> DEFINE I == R!Imported
  <2>1. I \in [1 .. n -> S]
    BY <1>5
  <2> HIDE DEF I
  <2>2. I \in Seq(S)
    BY <1>4, <2>1
  <2> QED BY <2>2 DEF I
<1> QED BY <1>6

\* The withdrawal changes dispositions and leaves every row with its name.
LEMMA AssembleKeeps == ASSUME ReportInv, R!Assemble PROVE ReportInv'
<1> USE DEF ReportInv
<1>1. /\ reporting = "assembling" /\ reporting' = "sorting"
      /\ UNCHANGED <<input, ledger, controls, found, standing, doc, summary>>
  BY DEF R!Assemble
<1>2. PICK stale \in SUBSET {u \in controls : standing[u.who].live = "bad"} :
        LET affected == {R!Key(u) : u \in stale}
            rows == {R!Withdraw(r, affected) :
                       r \in ledger \cup {R!IdentityRow(i) : i \in Identities}}
            ownership == R!Ownership(rows)
        IN assembled' =
             [coverage |-> rows \cup {R!EngineRow(e) : e \in R!Ran}
                                \cup {R!PathRow(p) : p \in input.discovered},
              findings |-> [k \in 1 .. Len(found) |-> R!Demote(found[k], affected)] \o R!Imported,
              ownership |-> ownership,
              failures |-> {e \in Engines : input.engines[e].status = "blocked"},
              classes |-> R!QualifiedClasses(R!Cardinality(ownership.verified))]
  BY DEF R!Assemble
<1> DEFINE affected == {R!Key(u) : u \in stale}
           rows == {R!Withdraw(r, affected) : r \in ledger \cup IdentityRows}
           findings == [k \in 1 .. Len(found) |-> R!Demote(found[k], affected)] \o R!Imported
           ownership == R!Ownership(rows)
           failed == {e \in Engines : input.engines[e].status = "blocked"}
           classes == R!QualifiedClasses(R!Cardinality(ownership.verified))
<1>3. /\ assembled' = [coverage |-> rows \cup EngineRows \cup PathRows, findings |-> findings,
                       ownership |-> ownership, failures |-> failed, classes |-> classes]
  BY <1>2 DEF IdentityRows, EngineRows, PathRows
<1>4. EngineRows' = EngineRows /\ PathRows' = PathRows /\ IdentityRows' = IdentityRows
      /\ R!Ran' = R!Ran
  BY <1>1 DEF EngineRows, PathRows, IdentityRows, R!EngineRow, R!PathRow, R!IdentityRow, R!Ran
<1>5. PICK h \in [Units -> Disps] : rows = Drawn(h) \cup IdentityRows
  <2>1. PICK g \in [Units -> Disps] : ledger = Drawn(g)
    <3>1. PICK g \in PartlyDrawn : ledger = Drawn(g) /\ DOMAIN g = Units
      BY <1>1 DEF OneRowPerUnit
    <3> QED BY <3>1 DEF PartlyDrawn
  <2> DEFINE h == [u \in Units |-> IF R!Key(u) \in affected THEN "blocked" ELSE g[u]]
  <2>2. h \in [Units -> Disps]
    BY DEF Disps
  <2>3. ASSUME NEW u \in Units
        PROVE  R!Withdraw(R!RowOf(u, g[u]), affected) = R!RowOf(u, h[u])
    <3>1. u \in R!UnitSpace
      BY ReportingFacts
    <3>2. R!Key(R!RowOf(u, g[u])) = R!Key(u)
          /\ R!RowOf(u, g[u]).dim \in {"operation", "ownership"}
      BY <3>1 DEF R!Key, R!RowOf, R!UnitSpace
    <3> HIDE DEF affected
    <3>3. CASE R!Key(u) \in affected
      BY <3>2, <3>3 DEF R!Withdraw, R!RowOf
    <3>4. CASE R!Key(u) \notin affected
      BY <3>2, <3>4 DEF R!Withdraw
    <3> QED BY <3>3, <3>4
  <2>4. ASSUME NEW r \in IdentityRows PROVE R!Withdraw(r, affected) = r
    <3>1. r.dim = "identity"
      BY DEF IdentityRows, R!IdentityRow
    <3> QED BY <3>1 DEF R!Withdraw
  <2> HIDE DEF affected
  <2>5. DOMAIN g = Units /\ DOMAIN h = Units
    BY <2>2
  <2> HIDE DEF h
  <2>6. rows = Drawn(h) \cup IdentityRows
    BY <2>1, <2>3, <2>4, <2>5 DEF Drawn
  <2> QED BY <2>2, <2>6
<1>6. \E n \in Nat : DOMAIN findings = 1 .. n
  <2> DEFINE own == [k \in 1 .. Len(found) |-> R!Demote(found[k], affected)]
             D == {R!Demote(found[k], affected) : k \in 1 .. Len(found)}
  <2>1. PICK S : R!Imported \in Seq(S)
    BY ImportedIsSequence DEF ReportTypes
  <2>2. Len(found) \in Nat
    BY DEF ReportTypes
  <2>3. own \in Seq(D)
    BY <2>2
  <2> HIDE DEF D, own
  <2>4. own \in Seq(D \cup S) /\ R!Imported \in Seq(D \cup S)
    <3>1. D \subseteq D \cup S /\ S \subseteq D \cup S
      OBVIOUS
    <3> QED BY <2>1, <2>3, <3>1, WiderSequence
  <2>5. own \o R!Imported \in Seq(D \cup S)
    BY <2>4
  <2>6. DOMAIN (own \o R!Imported) = 1 .. Len(own \o R!Imported)
        /\ Len(own \o R!Imported) \in Nat
    BY <2>5
  <2>7. findings = own \o R!Imported
    BY DEF own
  <2> QED BY <2>6, <2>7
<1>7. ownership.verified = {r \in rows : r.dim = "ownership" /\ r.disp = "executed"}
  <2> HIDE DEF rows
  <2> QED BY DEF R!Ownership, R!Summarise, R!InLedger
<1>8. \A c \in classes :
        /\ c.extent \in {0, R!Cardinality(ownership.verified)}
        /\ c.by # {} => \E e \in c.by : input.engines[e].covers /\ c.class \in R!Capabilities(e)
  <2> HIDE DEF ownership
  <2> SUFFICES ASSUME NEW c \in classes
               PROVE  /\ c.extent \in {0, R!Cardinality(ownership.verified)}
                      /\ c.by # {} => \E e \in c.by : /\ input.engines[e].covers
                                                      /\ c.class \in R!Capabilities(e)
    OBVIOUS
  <2>1. /\ c.extent \in {0, R!Cardinality(ownership.verified)}
        /\ c.by = IF c.class \in R!Covered THEN R!Completed ELSE {}
    <3>1. PICK k \in R!Notable :
            c = [class |-> k,
                 extent |-> IF k \in R!OwnershipClasses THEN R!Cardinality(ownership.verified)
                            ELSE 0,
                 by |-> IF k \in R!Covered THEN R!Completed ELSE {}]
      BY DEF R!QualifiedClasses
    <3> QED BY <3>1
  <2>2. ASSUME c.class \in R!Covered
        PROVE  \E e \in R!Completed : input.engines[e].covers /\ c.class \in R!Capabilities(e)
    <3>1. PICK e \in Engines : input.engines[e].covers /\ c.class \in R!Capabilities(e)
      BY <2>2 DEF R!Covered
    <3>2. e \in R!Completed
      BY <3>1, ReportingFacts DEF R!Completed, ReportTypes
    <3> QED BY <3>1, <3>2
  <2> QED BY <2>1, <2>2
<1> HIDE DEF rows, findings, ownership, failed, classes
<1>9. AssembledWell'
  <2>1. /\ assembled'.coverage = rows \cup EngineRows \cup PathRows
        /\ assembled'.findings = findings /\ assembled'.ownership = ownership
        /\ assembled'.failures = failed /\ assembled'.classes = classes
        /\ assembled' = [coverage |-> assembled'.coverage, findings |-> assembled'.findings,
                         ownership |-> assembled'.ownership, failures |-> assembled'.failures,
                         classes |-> assembled'.classes]
    BY <1>3
  <2>2. Accounted'
    <3>1. Drawn(h)' = Drawn(h)
      BY DEF Drawn
    <3>2. assembled'.coverage = Drawn(h) \cup IdentityRows' \cup EngineRows' \cup PathRows'
      BY <1>4, <1>5, <2>1
    <3> QED BY <3>1, <3>2 DEF Accounted
  <2>3. Boundaries' = ownership.verified
    <3>1. \A r \in EngineRows \cup PathRows : r.dim # "ownership"
      BY DEF EngineRows, PathRows, R!EngineRow, R!PathRow
    <3> QED BY <1>7, <2>1, <3>1 DEF Boundaries
  <2>4. Credited'
    BY <1>1, <1>8, <2>1, <2>3 DEF Credited
  <2>5. failed = {e \in Engines : input'.engines[e].status = "blocked"}
    BY <1>1 DEF failed
  <2> QED BY <1>6, <2>1, <2>2, <2>3, <2>4, <2>5 DEF AssembledWell
<1>10. ReportTypes'
  BY <1>1 DEF ReportTypes, R!Phases
<1>11. OneRowPerUnit'
  BY <1>1 DEF OneRowPerUnit, Drawn
<1>12. InPhase' /\ BuiltWell' /\ PrintedWell'
  BY <1>1 DEF InPhase, BuiltWell, PrintedWell
<1> QED BY <1>9, <1>10, <1>11, <1>12

\* The rows of identities, engines and paths follow from the input and the standing.
LEMMA RowsStay ==
  ASSUME UNCHANGED <<input, standing>>
  PROVE  IdentityRows' = IdentityRows /\ EngineRows' = EngineRows /\ PathRows' = PathRows
BY DEF IdentityRows, EngineRows, PathRows, R!IdentityRow, R!EngineRow, R!PathRow, R!Ran

\* The order of the findings says nothing of the rows, the account or the classes.
LEMMA SortKeeps == ASSUME ReportInv, R!Sort PROVE ReportInv'
<1> USE DEF ReportInv
<1>1. /\ reporting = "sorting" /\ reporting' = "building"
      /\ UNCHANGED <<input, ledger, controls, found, standing, doc, summary>>
  BY DEF R!Sort
<1>2. PICK t \in R!Orders(assembled.findings) : assembled' = [assembled EXCEPT !.findings = t]
  BY DEF R!Sort
<1>3. PICK n \in Nat : DOMAIN assembled.findings = 1 .. n
  BY <1>1 DEF AssembledWell
<1>4. Len(assembled.findings) \in Nat
  <2>1. Len(assembled.findings) = n
    BY <1>3
  <2> QED BY <2>1
<1>5. DOMAIN t = 1 .. Len(assembled.findings)
  BY DEF R!Orders
<1>6. /\ assembled'.coverage = assembled.coverage /\ assembled'.findings = t
      /\ assembled'.ownership = assembled.ownership /\ assembled'.failures = assembled.failures
      /\ assembled'.classes = assembled.classes
      /\ assembled' = [coverage |-> assembled'.coverage, findings |-> assembled'.findings,
                       ownership |-> assembled'.ownership, failures |-> assembled'.failures,
                       classes |-> assembled'.classes]
  BY <1>1, <1>2 DEF AssembledWell
<1>7. AssembledWell'
  <2>1. /\ Accounted /\ Credited /\ assembled.ownership.verified = Boundaries
        /\ assembled.failures = {e \in Engines : input.engines[e].status = "blocked"}
    BY <1>1 DEF AssembledWell
  <2>2. Accounted'
    BY <1>1, <1>6, <2>1, RowsStay DEF Accounted, Drawn
  <2>3. Boundaries' = Boundaries
    BY <1>6 DEF Boundaries
  <2>4. Credited'
    BY <1>1, <1>6, <2>1, <2>3 DEF Credited
  <2> QED BY <1>1, <1>4, <1>5, <1>6, <2>1, <2>2, <2>3, <2>4 DEF AssembledWell
<1>8. ReportTypes'
  BY <1>1 DEF ReportTypes, R!Phases
<1>9. OneRowPerUnit'
  BY <1>1 DEF OneRowPerUnit, Drawn
<1>10. InPhase' /\ BuiltWell' /\ PrintedWell'
  BY <1>1 DEF InPhase, BuiltWell, PrintedWell
<1> QED BY <1>7, <1>8, <1>9, <1>10

\* The document counts what the result holds.
LEMMA BuildKeeps == ASSUME ReportInv, R!Build PROVE ReportInv'
<1> USE DEF ReportInv
<1>1. /\ reporting = "building" /\ reporting' = "printing"
      /\ UNCHANGED <<input, ledger, controls, found, standing, assembled, summary>>
  BY DEF R!Build
<1>2. /\ doc'.executed = R!CountDisposition("executed")
      /\ doc'.blocked = R!CountDisposition("blocked")
      /\ doc'.untested = R!CountDisposition("untested")
      /\ doc'.confirmed = R!FindingsIn("confirmed")
      /\ doc'.suspected = R!FindingsIn("suspected")
      /\ doc'.failures = assembled.failures
  BY DEF R!Build
<1>3. \A s : R!FindingsIn(s) \in Nat
  <2> TAKE s
  <2>1. PICK n \in Nat : DOMAIN assembled.findings = 1 .. n
    BY <1>1 DEF AssembledWell
  <2>2. IsFiniteSet(DOMAIN assembled.findings)
    <3>1. 1 \in Int /\ n \in Int
      OBVIOUS
    <3>2. IsFiniteSet(1 .. n)
      BY <3>1, FS_Interval
    <3> QED BY <2>1, <3>2
  <2>3. {k \in DOMAIN assembled.findings : assembled.findings[k].state = s}
          \in SUBSET (DOMAIN assembled.findings)
    OBVIOUS
  <2>4. Cardinality({k \in DOMAIN assembled.findings : assembled.findings[k].state = s}) \in Nat
    BY <2>2, <2>3, FS_Subset, FS_CardinalityType
  <2> QED BY <2>4, SameCardinality DEF R!FindingsIn
<1>4. AssembledWell'
  BY <1>1, RowsStay DEF AssembledWell, Accounted, Drawn, Boundaries, Credited
<1>5. BuiltWell'
  <2>1. \A d \in Disps : R!CountDisposition(d)' = R!CountDisposition(d)
    BY <1>1 DEF R!CountDisposition
  <2> QED BY <1>1, <1>2, <1>3 DEF BuiltWell, R!CountDisposition
<1>6. ReportTypes'
  BY <1>1 DEF ReportTypes, R!Phases
<1>7. OneRowPerUnit'
  BY <1>1 DEF OneRowPerUnit, Drawn
<1>8. InPhase' /\ PrintedWell'
  BY <1>1 DEF InPhase, PrintedWell
<1> QED BY <1>4, <1>5, <1>6, <1>7, <1>8

\* The terminal repeats the document and names the identities to warn of.
LEMMA ShowSummaryKeeps == ASSUME ReportInv, R!ShowSummary PROVE ReportInv'
<1> USE DEF ReportInv
<1>1. /\ reporting = "printing" /\ reporting' = "printed"
      /\ UNCHANGED <<input, ledger, controls, found, standing, assembled, doc>>
  BY DEF R!ShowSummary
<1>2. /\ summary'.executed = doc.executed /\ summary'.blocked = doc.blocked
      /\ summary'.untested = doc.untested
      /\ summary'.confirmed = doc.confirmed /\ summary'.suspected = doc.suspected
      /\ summary'.failed = doc.failures /\ summary'.identities = R!Warned
  BY DEF R!ShowSummary
<1>3. AssembledWell'
  BY <1>1, RowsStay DEF AssembledWell, Accounted, Drawn, Boundaries, Credited
<1>4. BuiltWell'
  BY <1>1 DEF BuiltWell, R!CountDisposition
<1>5. PrintedWell'
  BY <1>1, <1>2 DEF PrintedWell, R!Warned
<1>6. ReportTypes'
  BY <1>1 DEF ReportTypes, R!Phases
<1>7. OneRowPerUnit'
  BY <1>1 DEF OneRowPerUnit, Drawn
<1>8. InPhase'
  BY <1>1 DEF InPhase
<1> QED BY <1>3, <1>4, <1>5, <1>6, <1>7, <1>8

\* A report that has been printed stays as it is.
LEMMA NothingReportedKeeps == ASSUME ReportInv, UNCHANGED R!vars PROVE ReportInv'
<1> USE DEF ReportInv
<1>1. UNCHANGED <<input, reporting, ledger, controls, found, standing, assembled, doc, summary>>
  BY DEF R!vars
<1>2. AssembledWell'
  BY <1>1, RowsStay DEF AssembledWell, Accounted, Drawn, Boundaries, Credited
<1>3. BuiltWell' /\ PrintedWell'
  BY <1>1 DEF BuiltWell, PrintedWell, R!CountDisposition, R!Warned
<1>4. ReportTypes' /\ InPhase' /\ OneRowPerUnit'
  BY <1>1 DEF ReportTypes, InPhase, OneRowPerUnit, Drawn
<1> QED BY <1>2, <1>3, <1>4

\* Every count, credit and warning of the report follows from the rows of its ledger:
\* engine.Run's assembly, report.Build and report.Summary, for any units, identities,
\* engines and paths.
THEOREM ReportsFollowLedgers == R!Spec => []ReportFollowsLedger
<1>1. R!Init => ReportInv
  BY ReportStarts
<1>2. ASSUME ReportInv, R!Next PROVE ReportInv'
  <2>1. ASSUME NEW u \in Units, R!Finish(u) PROVE ReportInv'
    BY <1>2, <2>1, FinishKeeps
  <2>2. CASE R!AllFinished
    BY <1>2, <2>2, AllFinishedKeeps
  <2>3. CASE R!Probe
    BY <1>2, <2>3, ProbeKeeps
  <2>4. CASE R!Assemble
    BY <1>2, <2>4, AssembleKeeps
  <2>5. CASE R!Sort
    BY <1>2, <2>5, SortKeeps
  <2>6. CASE R!Build
    BY <1>2, <2>6, BuildKeeps
  <2>7. CASE R!ShowSummary
    BY <1>2, <2>7, ShowSummaryKeeps
  <2>8. CASE R!Printed
    BY <1>2, <2>8, NothingReportedKeeps DEF R!Printed
  <2> QED BY <1>2, <2>1, <2>2, <2>3, <2>4, <2>5, <2>6, <2>7, <2>8 DEF R!Next
<1>3. ReportInv /\ UNCHANGED R!vars => ReportInv'
  BY NothingReportedKeeps
<1>4. ReportInv => ReportFollowsLedger
  BY ReportInvFollows
<1> QED BY <1>1, <1>2, <1>3, <1>4, PTL DEF R!Spec
=============================================================================
