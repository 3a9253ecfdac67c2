-------------------------- MODULE ConfigFileProofs --------------------------
(***************************************************************************)
(* What is proved of the configuration file, whatever the number of        *)
(* threads, the configurations and the bounds are.                         *)
(*                                                                         *)
(* Part one: no change of the file is forgotten.  NoChangeIsForgotten      *)
(* speaks of a store that is Ready; what keeps it true is that every       *)
(* result somebody waits for is fresh: it is what the file holds, or the   *)
(* change since then is still to be heard of (FileInv).                    *)
(*                                                                         *)
(* Part two: what a job may replace, and what becomes of the draft of a    *)
(* conflict (DraftInv, GapInv).  A job that replaces the file holds the    *)
(* lock, and what it expects to find is what the store holds, since nobody *)
(* else settles the operation while a write is out, or something it has    *)
(* backed up.  The job of a conflict either carries the draft of that      *)
(* conflict to its end or is one the user asked for.                       *)
(***************************************************************************)
EXTENDS ConfigFile, TLAPS

IsJob(j) ==
  j = [step |-> j.step, purpose |-> j.purpose, expected |-> j.expected,
       draft |-> j.draft, intent |-> j.intent, result |-> j.result]

AreThreads(ths) ==
  /\ ths = [t \in Threads |-> ths[t]]
  /\ \A t \in Threads : IsJob(ths[t])

Shapes ==
  /\ AreThreads(threads)
  /\ op = Operation(op.phase, op.data, op.problem)
  /\ op.phase \in Phases \ {"Idle"}
  /\ task \in Threads \cup {None} /\ save \in Threads \cup {None}
  /\ probe = NoProbe \/ probe.thread \in Threads

TaskRuns == task # None => IsRunning(op)

Fresh(v) == v = file \/ unseen \/ dirty

Answered(t) ==
  t # None /\ threads[t].step = "Done" /\ threads[t].result.ok
    => Fresh(threads[t].result.value)
Answers == Answered(task) /\ Answered(save) /\ Answered(probe.thread)

\* commit_update runs on an operation that is Ready, and stays so.
CommitIsAlone == save # None => op.phase = "Ready"

FileInv ==
  /\ Shapes /\ TaskRuns /\ CommitIsAlone /\ Answers
  /\ NoChangeIsForgotten /\ PendingDirtyIsTakenUp

-----------------------------------------------------------------------------
(* Jobs and threads *)

\* A job that has not ended.
IsPending(j) == IsJob(j) /\ j.step # "Done"

LEMMA JobsArePending ==
  /\ IsPending(NoJob) /\ IsPending(ObserveJob) /\ IsPending(LoadJob)
  /\ \A purpose, expected, draft : IsPending(WriteJob(purpose, expected, draft))
  BY ConstantsAreApart DEF IsPending, IsJob, NoJob, ObserveJob, LoadJob, WriteJob, Job

LEMMA RepairJobsArePending ==
  ASSUME NEW problem, NEW data,
         NEW repair \in {"RetryWrite", "CreateDefault", "OverwritePending"}
  PROVE  IsPending(RepairJob(problem, data, repair))
  <1>1. CASE repair = "CreateDefault" \/ repair = "OverwritePending"
    BY <1>1 DEF IsPending, IsJob, RepairJob, Job
  <1>2. CASE repair = "RetryWrite" /\ (data = None \/ problem.kind # "WriteAfterBackup")
    <2>1. \/ RepairJob(problem, data, repair) = WriteJob("Write", Missing, problem.draft)
          \/ RepairJob(problem, data, repair) = WriteJob("Write", data, problem.draft)
      BY <1>2 DEF RepairJob
    <2> QED
      BY <2>1, JobsArePending
  <1>3. CASE repair = "RetryWrite" /\ data # None /\ problem.kind = "WriteAfterBackup"
    BY <1>3 DEF IsPending, IsJob, RepairJob, WriteJob, Job
  <1> QED
    BY <1>1, <1>2, <1>3

LEMMA JobEnds ==
  ASSUME NEW j, IsJob(j), NEW r
  PROVE  /\ IsJob([j EXCEPT !.step = "Done", !.result = r])
         /\ [j EXCEPT !.step = "Done", !.result = r].result = r
  <1> DEFINE k == [j EXCEPT !.step = "Done"]
             l == [k EXCEPT !.result = r]
  <1>1. IsJob(k)
    BY DEF IsJob
  <1>2. IsJob(l) /\ l.result = r
    <2> HIDE DEF k
    <2> QED
      BY <1>1 DEF IsJob
  <1>3. [j EXCEPT !.step = "Done", !.result = r] = l
    BY DEF IsJob
  <1> QED
    BY <1>2, <1>3

LEMMA ThreadGetsJob ==
  ASSUME NEW ths, AreThreads(ths), NEW t, NEW j, IsJob(j)
  PROVE  AreThreads([ths EXCEPT ![t] = j])
  BY DEF AreThreads

LEMMA FreeThreadIsAThread ==
  ASSUME NEW ths, FreeThreads(ths) # {}
  PROVE  FreeThread(ths) \in Threads /\ FreeThread(ths) # None
  BY ConstantsAreApart DEF FreeThread, FreeThreads

\* Invalidating the probe leaves threads.
LEMMA InvalidatedAreThreads ==
  ASSUME Shapes
  PROVE  AreThreads(Invalidated)
  BY JobsArePending DEF Shapes, AreThreads, Invalidated, IsPending

\* StartProbe gives a thread that reads the file to the new probe.
LEMMA ProbeStarts ==
  ASSUME NEW o, NEW ths, AreThreads(ths), StartProbe(o, ths)
  PROVE  /\ AreThreads(threads')
         /\ probe' # NoProbe /\ probe'.thread \in Threads
         /\ threads'[probe'.thread].step # "Done"
  <1>1. FreeThread(ths) \in Threads /\ FreeThread(ths) # None
    BY FreeThreadIsAThread DEF StartProbe
  <1>2. /\ threads' = [ths EXCEPT ![FreeThread(ths)] = ObserveJob]
        /\ probe' = [thread |-> FreeThread(ths), phase |-> o.phase, data |-> o.data]
    BY DEF StartProbe
  <1>3. probe'.thread = FreeThread(ths) /\ NoProbe.thread = None
    BY <1>2 DEF NoProbe
  <1>4. threads'[probe'.thread] = ObserveJob
    BY <1>1, <1>2, <1>3 DEF AreThreads
  <1> QED
    BY <1>1, <1>2, <1>3, <1>4, JobsArePending, ThreadGetsJob DEF IsPending

\* consume_pending leaves everything alone, and then the mark is not stranded,
\* or clears the mark for a new probe.
LEMMA ConsumeDoes ==
  ASSUME NEW o, NEW c, NEW ths, NEW p, NEW d, AreThreads(ths), Consume(o, c, ths, p, d)
  PROVE  \/ /\ threads' = ths /\ probe' = p /\ dirty' = d
            /\ d => p # NoProbe \/ Busy(c) \/ IsRunning(o)
         \/ /\ ~IsRunning(o) /\ dirty' = FALSE
            /\ AreThreads(threads')
            /\ probe' # NoProbe /\ probe'.thread \in Threads
            /\ threads'[probe'.thread].step # "Done"
  BY ProbeStarts DEF Consume

\* Handing out a job: the thread is not done, and the probe is dropped.
LEMMA HandsDoes ==
  ASSUME NEW job, NEW ths, IsPending(job), AreThreads(ths), Hands(job, ths)
  PROVE  /\ AreThreads(threads') /\ probe' = NoProbe /\ dirty' = dirty
         /\ FreeThread(ths) \in Threads /\ FreeThread(ths) # None
         /\ threads'[FreeThread(ths)].step # "Done"
  <1>1. FreeThread(ths) \in Threads /\ FreeThread(ths) # None
    BY FreeThreadIsAThread DEF Hands
  <1>2. threads' = [ths EXCEPT ![FreeThread(ths)] = job]
    BY DEF Hands
  <1>3. threads'[FreeThread(ths)] = job
    BY <1>1, <1>2 DEF AreThreads
  <1>4. AreThreads([ths EXCEPT ![FreeThread(ths)] = job])
    BY ThreadGetsJob DEF IsPending
  <1> QED
    BY <1>1, <1>2, <1>3, <1>4 DEF Hands, IsPending

-----------------------------------------------------------------------------
(* Blocking work *)

\* What a step of a thread does: the job it comes to has, if it has ended with
\* a value, the value the file holds, and a write is not unseen.
JobStep(t) ==
  /\ \E j : /\ IsJob(j) /\ threads' = [threads EXCEPT ![t] = j]
            /\ j.step = "Done" /\ j.result.ok => j.result.value = file'
  /\ \/ file' = file /\ unseen' = unseen
     \/ unseen' = TRUE
  /\ UNCHANGED <<op, task, save, dirty, probe, cleanup>>

LEMMA GoesDoes ==
  ASSUME Shapes, NEW t \in Threads, NEW step, step # "Done", Goes(t, step)
  PROVE  \E j : /\ IsJob(j) /\ threads' = [threads EXCEPT ![t] = j]
                /\ j.step = "Done" /\ j.result.ok => j.result.value = file'
  <1> DEFINE j == [threads[t] EXCEPT !.step = step]
  <1>1. IsJob(threads[t])
    BY DEF Shapes, AreThreads
  <1>2. IsJob(j) /\ j.step = step
    BY <1>1 DEF IsJob
  <1>3. threads' = [threads EXCEPT ![t] = j]
    BY DEF Goes, Shapes, AreThreads
  <1> QED
    BY <1>2, <1>3

LEMMA EndsDoes ==
  ASSUME Shapes, NEW t \in Threads, NEW r, r.ok => r.value = file', Ends(t, r)
  PROVE  \E j : /\ IsJob(j) /\ threads' = [threads EXCEPT ![t] = j]
                /\ j.step = "Done" /\ j.result.ok => j.result.value = file'
  <1> DEFINE done == [threads[t] EXCEPT !.step = "Done", !.result = r]
             j    == IF Awaited(t) THEN done ELSE NoJob
  <1>1. IsJob(threads[t])
    BY DEF Shapes, AreThreads
  <1>2. IsJob(done) /\ done.result = r
    BY <1>1, JobEnds
  <1>3. IsJob(j) /\ (j.step = "Done" => j.result = r)
    BY <1>2, JobsArePending DEF IsPending
  <1>4. threads' = [threads EXCEPT ![t] = j]
    BY DEF Ends, Shapes, AreThreads
  <1> HIDE DEF j
  <1> QED
    BY <1>3, <1>4

LEMMA LoadedDoes ==
  ASSUME Shapes, NEW t \in Threads, NEW r, r.ok => r.value = file', Loaded(t, r)
  PROVE  \E j : /\ IsJob(j) /\ threads' = [threads EXCEPT ![t] = j]
                /\ j.step = "Done" /\ j.result.ok => j.result.value = file'
  <1>1. CASE threads[t].purpose = "BackUp" /\ ~r.ok
    <2>1. Goes(t, "Original") \/ threads' = [threads EXCEPT ![t].step = "Original"]
      BY <1>1 DEF Loaded
    <2> DEFINE j == [threads[t] EXCEPT !.step = "Original"]
    <2>2. IsJob(j) /\ j.step = "Original"
      BY DEF Shapes, AreThreads, IsJob
    <2>3. threads' = [threads EXCEPT ![t] = j]
      BY <2>1 DEF Goes, Shapes, AreThreads
    <2> QED
      BY <2>2, <2>3
  <1>2. CASE ~(threads[t].purpose = "BackUp" /\ ~r.ok)
    BY <1>2, EndsDoes DEF Loaded
  <1> QED
    BY <1>1, <1>2

LEMMA DecodedIsTheFile ==
  ASSUME Decoded(file).ok PROVE Decoded(file).value = file
  BY DEF Decoded, Ok, Err

LEMMA WriteFailsWithAProblem ==
  ASSUME NEW j, NEW kind PROVE ~WriteFailure(j, kind).ok
  BY DEF WriteFailure, Err

\* read_for_observer and load_or_create end at most with what the file holds.
LEMMA LoadingIsAJobStep ==
  ASSUME Shapes, NEW t \in Threads,
         Observe(t) \/ Read(t) \/ Create(t) \/ Created(t) \/ Reread(t)
  PROVE  JobStep(t)
  <1>1. CASE Observe(t)
    <2> DEFINE r == IF file = Missing THEN Ok(Missing) ELSE Decoded(file)
    <2>1. r.ok => r.value = file
      BY DecodedIsTheFile DEF Ok
    <2>2. Ends(t, r) /\ file' = file
      BY <1>1 DEF Observe, Touches
    <2> HIDE DEF r
    <2> QED
      BY <1>1, <2>1, <2>2, EndsDoes DEF Observe, Touches, JobFrame, JobStep, storeVars, probeVars
  <1>2. CASE Read(t)
    <2>1. CASE file = Missing
      BY <1>2, <2>1, GoesDoes DEF Read, Touches, JobFrame, JobStep, storeVars, probeVars
    <2>2. CASE file # Missing
      BY <1>2, <2>2, LoadedDoes, DecodedIsTheFile
         DEF Read, Touches, JobFrame, JobStep, storeVars, probeVars
    <2> QED
      BY <2>1, <2>2
  <1>3. CASE Create(t)
    <2>1. CASE lock # None
      <3>1. Loaded(t, Err(Problem("Locked", Default, None))) /\ Touches
        BY <1>3, <2>1 DEF Create
      <3>2. ~Err(Problem("Locked", Default, None)).ok
        BY DEF Err
      <3> QED
        BY <1>3, <3>1, <3>2, LoadedDoes
           DEF Create, Touches, JobFrame, JobStep, storeVars, probeVars
    <2>2. CASE lock = None /\ file # Missing
      BY <1>3, <2>2, GoesDoes DEF Create, Touches, JobFrame, JobStep, storeVars, probeVars
    <2>3. CASE lock = None /\ file = Missing
      <3>1. threads' = [threads EXCEPT ![t].step = "Created"] /\ unseen' = TRUE
        BY <1>3, <2>3 DEF Create
      <3>2. threads' = [threads EXCEPT ![t] = [threads[t] EXCEPT !.step = "Created"]]
        BY <3>1
      <3>3. /\ IsJob([threads[t] EXCEPT !.step = "Created"])
            /\ [threads[t] EXCEPT !.step = "Created"].step = "Created"
        BY DEF Shapes, AreThreads, IsJob
      <3> QED
        BY <1>3, <3>1, <3>2, <3>3 DEF Create, JobFrame, JobStep, storeVars, probeVars
    <2> QED
      BY <2>1, <2>2, <2>3
  <1>4. CASE Created(t)
    <2> DEFINE r == IF file = Default THEN Ok(Default) ELSE Err(Problem("Write", Default, None))
    <2>1. r.ok => r.value = file
      BY DEF Ok, Err
    <2>2. Loaded(t, r) /\ file' = file
      BY <1>4 DEF Created, Touches
    <2> HIDE DEF r
    <2> QED
      BY <1>4, <2>1, <2>2, LoadedDoes
         DEF Created, Touches, JobFrame, JobStep, storeVars, probeVars
  <1>5. CASE Reread(t)
    <2> DEFINE r == IF file = Missing THEN Err(Plain("Read")) ELSE Decoded(file)
    <2>1. r.ok => r.value = file
      BY DecodedIsTheFile DEF Err
    <2>2. Loaded(t, r) /\ file' = file
      BY <1>5 DEF Reread, Touches
    <2> HIDE DEF r
    <2> QED
      BY <1>5, <2>1, <2>2, LoadedDoes
         DEF Reread, Touches, JobFrame, JobStep, storeVars, probeVars
  <1> QED
    BY <1>1, <1>2, <1>3, <1>4, <1>5

\* A step to another one than the end, which may take the lock and note what is
\* expected.
LEMMA NextStepIsAJobStep ==
  ASSUME Shapes, NEW t \in Threads, NEW j, IsJob(j), j.step # "Done",
         threads' = [threads EXCEPT ![t] = j],
         (file' = file /\ unseen' = unseen) \/ unseen' = TRUE,
         JobFrame
  PROVE  JobStep(t)
  BY DEF JobStep, JobFrame, storeVars, probeVars

\* backup_and_replace and write_pending_at end at most with what the file holds.
LEMMA ReplacingIsAJobStep ==
  ASSUME Shapes, NEW t \in Threads,
         Original(t) \/ Recheck(t) \/ Lock(t) \/ Compare(t) \/ Rename(t) \/ Verify(t)
  PROVE  JobStep(t)
  <1>0. IsJob(threads[t])
    BY DEF Shapes, AreThreads
  <1>1. CASE Original(t)
    <2>1. CASE lock # None
      <3> DEFINE r == Err(Problem("Locked", threads[t].draft, None))
      <3>1. Ends(t, r) /\ ~r.ok
        BY <1>1, <2>1 DEF Original, Err
      <3> HIDE DEF r
      <3> QED
        BY <1>1, <3>1, EndsDoes DEF Original, JobFrame, JobStep, storeVars, probeVars
    <2>2. CASE lock = None /\ file = Missing
      <3>1. Ends(t, Err(Plain("Read"))) /\ ~Err(Plain("Read")).ok
        BY <1>1, <2>2 DEF Original, Err
      <3> QED
        BY <1>1, <3>1, EndsDoes DEF Original, JobFrame, JobStep, storeVars, probeVars
    <2>3. CASE lock = None /\ file # Missing
      <3> DEFINE k == [threads[t] EXCEPT !.step = "Recheck"]
                 j == [k EXCEPT !.expected = file]
      <3>1. threads' = [threads EXCEPT ![t].step = "Recheck", ![t].expected = file]
        BY <1>1, <2>3 DEF Original
      <3>2. threads' = [threads EXCEPT ![t] = j]
        BY <3>1, <1>0 DEF Shapes, AreThreads, IsJob
      <3>3. IsJob(k) /\ k.step = "Recheck"
        BY <1>0 DEF IsJob
      <3>4. IsJob(j) /\ j.step = "Recheck"
        <4> HIDE DEF k
        <4> QED
          BY <3>3 DEF IsJob
      <3> HIDE DEF j
      <3> QED
        BY <1>1, <3>2, <3>4, NextStepIsAJobStep DEF Original
    <2> QED
      BY <2>1, <2>2, <2>3
  <1>2. CASE Recheck(t)
    <2> DEFINE r == Err(Problem("ExternalChange", threads[t].draft, None))
    <2>1. Goes(t, "Compare") \/ Ends(t, r)
      BY <1>2 DEF Recheck
    <2>2. ~r.ok
      BY DEF Err
    <2> HIDE DEF r
    <2> QED
      BY <1>2, <2>1, <2>2, GoesDoes, EndsDoes
         DEF Recheck, Touches, JobFrame, JobStep, storeVars, probeVars
  <1>3. CASE Lock(t)
    <2>1. CASE lock # None
      BY <1>3, <2>1, EndsDoes, WriteFailsWithAProblem
         DEF Lock, Touches, JobFrame, JobStep, storeVars, probeVars
    <2>2. CASE lock = None
      <3> DEFINE step == IF threads[t].expected = Missing THEN "Rename" ELSE "Compare"
                 j == [threads[t] EXCEPT !.step = step]
      <3>1. threads' = [threads EXCEPT ![t] = j]
        BY <1>3, <2>2 DEF Lock
      <3>2. step # "Done"
        OBVIOUS
      <3>3. IsJob(j) /\ j.step = step
        <4> HIDE DEF step
        <4> QED
          BY <1>0 DEF IsJob
      <3> HIDE DEF j, step
      <3> QED
        BY <1>3, <3>1, <3>2, <3>3, NextStepIsAJobStep DEF Lock, Touches
    <2> QED
      BY <2>1, <2>2
  <1>4. CASE Compare(t)
    <2>1. Goes(t, "Rename") \/ Ends(t, WriteFailure(threads[t], "ExternalChange"))
      BY <1>4 DEF Compare
    <2> QED
      BY <1>4, <2>1, GoesDoes, EndsDoes, WriteFailsWithAProblem
         DEF Compare, Touches, JobFrame, JobStep, storeVars, probeVars
  <1>5. CASE Rename(t)
    <2>1. \/ Ends(t, WriteFailure(threads[t], "ExternalChange")) /\ UNCHANGED <<file, unseen>>
          \/ Goes(t, "Verify") /\ unseen' = TRUE
      BY <1>5 DEF Rename
    <2> QED
      BY <1>5, <2>1, GoesDoes, EndsDoes, WriteFailsWithAProblem
         DEF Rename, JobFrame, JobStep, storeVars, probeVars
  <1>6. CASE Verify(t)
    <2> DEFINE r == IF file = threads[t].draft THEN Ok(threads[t].draft)
                    ELSE WriteFailure(threads[t], "Write")
    <2>1. r.ok => r.value = file
      BY WriteFailsWithAProblem DEF Ok
    <2>2. Ends(t, r) /\ file' = file
      BY <1>6 DEF Verify, Touches
    <2> HIDE DEF r
    <2> QED
      BY <1>6, <2>1, <2>2, EndsDoes
         DEF Verify, Touches, JobFrame, JobStep, storeVars, probeVars
  <1> QED
    BY <1>1, <1>2, <1>3, <1>4, <1>5, <1>6

\* A failure ends a job with no value.
LEMMA FailureIsAJobStep ==
  ASSUME Shapes, NEW t \in Threads, Fails(t)
  PROVE  JobStep(t)
  <1>1. \E r : ~r.ok /\ (Ends(t, r) \/ Loaded(t, r))
    <2>1. \A p : ~Err(p).ok
      BY DEF Err
    <2>2. \/ \E p : Ends(t, Err(p)) \/ Loaded(t, Err(p))
          \/ Ends(t, WriteFailure(threads[t], "Locked"))
          \/ Ends(t, WriteFailure(threads[t], "Write"))
      BY DEF Fails
    <2> QED
      BY <2>1, <2>2, WriteFailsWithAProblem
  <1>2. PICK r : ~r.ok /\ (Ends(t, r) \/ Loaded(t, r))
    BY <1>1
  <1>3. \E j : /\ IsJob(j) /\ threads' = [threads EXCEPT ![t] = j]
               /\ j.step = "Done" /\ j.result.ok => j.result.value = file'
    BY <1>2, EndsDoes, LoadedDoes
  <1> QED
    BY <1>3 DEF Fails, Touches, JobStep, storeVars, probeVars

\* Blocking work leaves the invariant as it is.
LEMMA JobStepKeepsFileInv ==
  ASSUME FileInv, NEW t \in Threads, JobStep(t)
  PROVE  FileInv'
  <1>1. PICK j : /\ IsJob(j) /\ threads' = [threads EXCEPT ![t] = j]
                 /\ j.step = "Done" /\ j.result.ok => j.result.value = file'
    BY DEF JobStep
  <1>2. Shapes'
    <2>1. AreThreads(threads')
      BY <1>1, ThreadGetsJob DEF FileInv, Shapes
    <2> QED
      BY <2>1 DEF FileInv, Shapes, JobStep, AreThreads
  <1>3. ASSUME NEW v, Fresh(v) PROVE Fresh(v)'
    BY <1>3 DEF Fresh, JobStep
  <1>4. ASSUME NEW u, u = None \/ u \in Threads, Answered(u) PROVE Answered(u)'
    <2>1. CASE u = t
      <3>1. threads'[u] = j
        BY <1>1, <2>1 DEF FileInv, Shapes, AreThreads
      <3> QED
        BY <1>1, <3>1 DEF Answered, Fresh
    <2>2. CASE u # t
      <3>1. u # None => threads'[u] = threads[u]
        BY <1>1, <1>4, <2>2 DEF FileInv, Shapes, AreThreads
      <3> QED
        BY <1>3, <1>4, <3>1 DEF Answered
    <2> QED
      BY <2>1, <2>2
  <1>5. Answers'
    <2>1. probe.thread = None \/ probe.thread \in Threads
      BY DEF FileInv, Shapes, NoProbe
    <2> QED
      BY <1>4, <2>1 DEF FileInv, Shapes, Answers, JobStep, Answered
  <1>6. NoChangeIsForgotten'
    BY DEF FileInv, NoChangeIsForgotten, JobStep
  <1> QED
    BY <1>2, <1>5, <1>6
       DEF FileInv, TaskRuns, CommitIsAlone, PendingDirtyIsTakenUp, JobStep

-----------------------------------------------------------------------------
(* The operation *)

IsOperation(o) == o = Operation(o.phase, o.data, o.problem) /\ o.phase \in Phases \ {"Idle"}

LEMMA SettledIs ==
  ASSUME NEW o, IsOperation(o), NEW r
  PROVE  /\ IsOperation(Settled(o, r)) /\ ~IsRunning(Settled(o, r))
         /\ Settled(o, r).phase = "Ready" => r.ok /\ Settled(o, r).data = r.value
  BY DEF IsOperation, Settled, Ready, Unavailable, Degraded, Operation, IsRunning, Phases

LEMMA TaskStarts ==
  ASSUME NEW o, IsOperation(o), ~IsRunning(o)
  PROVE  /\ o.phase # "Ready" => IsOperation(Repair(o)) /\ IsRunning(Repair(o))
         /\ o.phase = "Ready" => IsOperation(Refresh(o)) /\ IsRunning(Refresh(o))
         /\ IsOperation(Observing(o)) /\ IsRunning(Observing(o))
  <1>1. o.phase \in {"Ready", "Unavailable", "Degraded"}
    BY DEF IsOperation, IsRunning, Phases
  <1>2. ASSUME NEW ph \in {"Refreshing", "RepairingUnavailable", "RepairingDegraded"}
        PROVE  IsOperation([o EXCEPT !.phase = ph]) /\ IsRunning([o EXCEPT !.phase = ph])
    BY <1>2 DEF IsOperation, IsRunning, Phases, Operation
  <1>3. CASE o.phase = "Ready"
    BY <1>2, <1>3 DEF Observing, Refresh, Running
  <1>4. CASE o.phase = "Unavailable"
    BY <1>2, <1>4 DEF Observing, Repair, Running
  <1>5. CASE o.phase = "Degraded"
    BY <1>2, <1>5 DEF Observing, Repair, Running
  <1> QED
    BY <1>1, <1>3, <1>4, <1>5

-----------------------------------------------------------------------------
(* The observer *)

\* Nobody waits for a thread, or the thread waited for gets another job.
LEMMA NobodyIsAnswered ==
  ASSUME task' = None, save' = None,
         probe'.thread = None \/ threads'[probe'.thread].step # "Done"
  PROVE  Answers'
  BY DEF Answers, Answered

\* The end of a step that left a shaped operation, no commit and no task: the
\* mark is looked at.
LEMMA ConsumeKeepsFileInv ==
  ASSUME FileInv, NEW c, NEW ths, AreThreads(ths), NEW p, NEW d,
         p = NoProbe \/ p.thread \in Threads,
         IsOperation(op'), Consume(op', c, ths, p, d), cleanup' = c,
         save' = None, task' # None => IsRunning(op'),
         dirty => d, file' = file, unseen' = unseen,
         \A u \in Threads : u = task' \/ u = p.thread =>
           (ths[u].step = "Done" /\ ths[u].result.ok
              => ths[u].result.value = file \/ unseen \/ d),
         op'.phase = "Ready" => op'.data = file \/ unseen \/ d \/ p # NoProbe,
         task' = None \/ task' \in Threads
  PROVE  FileInv'
  <1>1. CASE /\ threads' = ths /\ probe' = p /\ dirty' = d
             /\ d => p # NoProbe \/ Busy(c) \/ IsRunning(op')
    <2>1. Shapes'
      BY <1>1 DEF Shapes, IsOperation, AreThreads
    <2>2. Answers'
      <3>1. p.thread = None \/ p.thread \in Threads
        BY DEF NoProbe
      <3>2. Answered(task)'
        BY <1>1, <3>1 DEF Answered, Fresh
      <3>3. Answered(save)'
        BY DEF Answered
      <3>4. Answered(probe.thread)'
        BY <1>1, <3>1 DEF Answered, Fresh
      <3> QED
        BY <3>2, <3>3, <3>4 DEF Answers
    <2>3. NoChangeIsForgotten' /\ PendingDirtyIsTakenUp'
      BY <1>1 DEF NoChangeIsForgotten, PendingDirtyIsTakenUp
    <2> QED
      BY <2>1, <2>2, <2>3 DEF FileInv, TaskRuns, CommitIsAlone
  <1>2. CASE /\ ~IsRunning(op') /\ dirty' = FALSE
             /\ AreThreads(threads')
             /\ probe' # NoProbe /\ probe'.thread \in Threads
             /\ threads'[probe'.thread].step # "Done"
    <2>1. task' = None
      BY <1>2
    <2>2. Shapes'
      BY <1>2, <2>1 DEF Shapes, IsOperation, AreThreads
    <2>3. Answers'
      BY <1>2, <2>1, NobodyIsAnswered
    <2>4. NoChangeIsForgotten' /\ PendingDirtyIsTakenUp'
      BY <1>2 DEF NoChangeIsForgotten, PendingDirtyIsTakenUp
    <2> QED
      BY <2>1, <2>2, <2>3, <2>4 DEF FileInv, TaskRuns, CommitIsAlone
  <1> QED
    BY <1>1, <1>2, ConsumeDoes

LEMMA OnDirtyKeepsFileInv ==
  ASSUME FileInv, OnDirty
  PROVE  FileInv'
  <1>0. /\ save = None /\ save' = None /\ task' = task /\ op' = op /\ file' = file
        /\ cleanup' = cleanup
    BY DEF OnDirty, Foreground, storeVars, diskVars
  <1>1. CASE Busy(cleanup) \/ probe # NoProbe \/ IsRunning(op)
    <2>1. dirty' = TRUE /\ threads' = threads /\ probe' = probe
      BY <1>1 DEF OnDirty
    <2>2. Shapes' /\ TaskRuns' /\ CommitIsAlone'
      BY <1>0, <2>1 DEF FileInv, Shapes, TaskRuns, CommitIsAlone, AreThreads
    <2>3. Answers' /\ NoChangeIsForgotten'
      BY <2>1 DEF Answers, Answered, Fresh, NoChangeIsForgotten
    <2>4. PendingDirtyIsTakenUp'
      BY <1>0, <1>1, <2>1 DEF PendingDirtyIsTakenUp
    <2> QED
      BY <2>2, <2>3, <2>4 DEF FileInv
  <1>2. CASE ~(Busy(cleanup) \/ probe # NoProbe \/ IsRunning(op))
    <2>1. StartProbe(op, threads) /\ dirty' = dirty
      BY <1>2 DEF OnDirty
    <2>2. /\ AreThreads(threads')
          /\ probe' # NoProbe /\ probe'.thread \in Threads
          /\ threads'[probe'.thread].step # "Done"
      BY <2>1, ProbeStarts DEF FileInv, Shapes
    <2>3. task' = None
      BY <1>0, <1>2 DEF FileInv, TaskRuns
    <2>4. Shapes' /\ TaskRuns' /\ CommitIsAlone'
      BY <1>0, <2>2, <2>3 DEF FileInv, Shapes, TaskRuns, CommitIsAlone, AreThreads
    <2>5. Answers'
      BY <1>0, <2>2, <2>3, NobodyIsAnswered
    <2>6. NoChangeIsForgotten' /\ PendingDirtyIsTakenUp'
      BY <2>2 DEF NoChangeIsForgotten, PendingDirtyIsTakenUp
    <2> QED
      BY <2>4, <2>5, <2>6 DEF FileInv
  <1> QED
    BY <1>1, <1>2

LEMMA ConfirmMissingKeepsFileInv ==
  ASSUME FileInv, ConfirmMissing
  PROVE  FileInv'
  <1>0. /\ UNCHANGED <<file, unseen, op, task, save, dirty, probe, cleanup>>
        /\ threads' = [threads EXCEPT ![probe.thread] = LoadJob]
        /\ probe.thread \in Threads
    BY DEF ConfirmMissing, ProbeDone, FileInv, Shapes, diskVars, storeVars, probeVars
  <1>1. Shapes'
    <2>1. AreThreads(threads')
      BY <1>0, ThreadGetsJob, JobsArePending DEF FileInv, Shapes, IsPending
    <2> QED
      BY <1>0, <2>1 DEF FileInv, Shapes, AreThreads
  <1>2. ASSUME NEW u, u = None \/ u \in Threads, Answered(u) PROVE Answered(u)'
    <2>1. u # None => threads'[u] = IF u = probe.thread THEN LoadJob ELSE threads[u]
      BY <1>0, <1>2 DEF FileInv, Shapes, AreThreads
    <2> QED
      BY <1>0, <1>2, <2>1, JobsArePending DEF Answered, Fresh, IsPending
  <1>3. Answers'
    BY <1>0, <1>2 DEF FileInv, Shapes, Answers, Answered
  <1> QED
    BY <1>0, <1>1, <1>3
       DEF FileInv, TaskRuns, CommitIsAlone, NoChangeIsForgotten, PendingDirtyIsTakenUp

\* The probe ends: its result is fresh, so what is dropped of it is not missed.
LEMMA FinishProbeKeepsFileInv ==
  ASSUME FileInv, FinishProbe
  PROVE  FileInv'
  <1> DEFINE t == probe.thread
             r == threads[t].result
             closed == [threads EXCEPT ![t] = NoJob]
  <1>0. /\ UNCHANGED <<file, unseen, save, cleanup>> /\ save = None
        /\ t \in Threads /\ t # None
        /\ threads[t].step = "Done"
        /\ r.ok => Fresh(r.value)
    <2>1. probe # NoProbe /\ threads[t].step = "Done" /\ save = None
      BY DEF FinishProbe, ProbeDone, Foreground
    <2>2. t \in Threads /\ t # None
      BY <2>1, ConstantsAreApart DEF FileInv, Shapes
    <2> QED
      BY <2>1, <2>2 DEF FinishProbe, diskVars, FileInv, Answers, Answered
  <1>1. /\ AreThreads(closed)
        /\ \A u \in Threads : closed[u] = IF u = t THEN NoJob ELSE threads[u]
    BY <1>0, ThreadGetsJob, JobsArePending DEF FileInv, Shapes, AreThreads, IsPending
  <1>2. IsOperation(op)
    BY DEF FileInv, Shapes, IsOperation
  \* The result is dropped, with the mark d.
  <1>3. ASSUME NEW d, dirty => d, Consume(op, cleanup, closed, NoProbe, d),
               UNCHANGED <<op, task>>,
               op.phase = "Ready" => op.data = file \/ unseen \/ d
        PROVE  FileInv'
    <2>1. \A u \in Threads : u = task' \/ u = NoProbe.thread =>
            (closed[u].step = "Done" /\ closed[u].result.ok
               => closed[u].result.value = file \/ unseen \/ d)
      <3> SUFFICES ASSUME NEW u \in Threads, u = task' \/ u = NoProbe.thread,
                          closed[u].step = "Done", closed[u].result.ok
                   PROVE  closed[u].result.value = file \/ unseen \/ d
        OBVIOUS
      <3>1. u # t /\ closed[u] = threads[u]
        BY <1>1, JobsArePending DEF IsPending
      <3>2. u = task /\ u # None
        BY <1>3, ConstantsAreApart DEF NoProbe
      <3>3. Fresh(threads[u].result.value)
        BY <3>1, <3>2 DEF FileInv, Answers, Answered
      <3> QED
        BY <1>3, <3>1, <3>3 DEF Fresh
    <2>2. task' = None \/ task' \in Threads
      BY <1>3 DEF FileInv, Shapes
    <2>3. task' # None => IsRunning(op')
      BY <1>3 DEF FileInv, TaskRuns
    <2> HIDE DEF closed, t
    <2>4. Consume(op', cleanup, closed, NoProbe, d) /\ IsOperation(op') /\ save' = None
      BY <1>0, <1>2, <1>3
    <2>5. op'.phase = "Ready" => op'.data = file \/ unseen \/ d \/ NoProbe # NoProbe
      BY <1>3
    <2>6. cleanup' = cleanup /\ file' = file /\ unseen' = unseen
      BY <1>0
    <2> QED
      BY <1>1, <1>3, <2>1, <2>2, <2>3, <2>4, <2>5, <2>6, ConsumeKeepsFileInv
  \* The result, or the draft of a conflict, is taken up by a task.
  <1>4. ASSUME NEW job, IsJob(job), task' = t, probe' = NoProbe, dirty' = dirty,
               threads' = [threads EXCEPT ![t] = job],
               IsOperation(op'), IsRunning(op'),
               job.step = "Done" => job.result = r
        PROVE  FileInv'
    <2>1. threads'[t] = job /\ AreThreads(threads')
      BY <1>0, <1>4, ThreadGetsJob DEF FileInv, Shapes, AreThreads
    <2>2. Shapes'
      BY <1>0, <1>4, <2>1 DEF Shapes, IsOperation, AreThreads
    <2>3. Answers'
      <3>1. Answered(task)'
        BY <1>0, <1>4, <2>1 DEF Answered, Fresh
      <3>2. Answered(save)' /\ Answered(probe.thread)'
        BY <1>0, <1>4 DEF Answered, NoProbe
      <3> QED
        BY <3>1, <3>2 DEF Answers
    <2>4. op'.phase # "Ready"
      BY <1>4 DEF IsRunning
    <2> QED
      BY <1>0, <1>4, <2>2, <2>3, <2>4
         DEF FileInv, TaskRuns, CommitIsAlone, NoChangeIsForgotten, PendingDirtyIsTakenUp
  <1>5. CASE Busy(cleanup)
    <2>1. dirty' = TRUE /\ probe' = NoProbe /\ threads' = closed /\ UNCHANGED <<op, task>>
      BY <1>5 DEF FinishProbe
    <2>2. Consume(op, cleanup, closed, NoProbe, TRUE)
      BY <1>5, <2>1 DEF Consume
    <2> QED
      BY <1>3, <2>1, <2>2
  <1>6. CASE ~Busy(cleanup) /\ (\/ IsRunning(op) \/ op.phase # probe.phase
                                \/ op.data # probe.data)
    <2>1. Consume(op, cleanup, closed, NoProbe, TRUE) /\ UNCHANGED <<op, task>>
      BY <1>6 DEF FinishProbe
    <2> QED
      BY <1>3, <2>1
  <1>7. CASE ~Busy(cleanup) /\ ~(\/ IsRunning(op) \/ op.phase # probe.phase
                                 \/ op.data # probe.data)
    <2>0. UseResult(r) /\ ~IsRunning(op)
      BY <1>7 DEF FinishProbe
    <2>1. CASE InConflict /\ SameSource(r)
      <3>1. /\ op' = Repair(op) /\ task' = t /\ probe' = NoProbe /\ dirty' = dirty
            /\ threads' = [threads EXCEPT ![t] = WriteJob("Write", op.data, op.problem.draft)]
        BY <2>0, <2>1 DEF UseResult
      <3>2. IsOperation(op') /\ IsRunning(op')
        BY <1>2, <2>0, <2>1, <3>1, TaskStarts DEF InConflict
      <3> QED
        BY <1>4, <3>1, <3>2, JobsArePending DEF IsPending
    <2>2. CASE \/ InConflict /\ ~SameSource(r)
               \/ ~InConflict /\ SameSource(r) /\ ~PermitsSameSourceRecovery
      <3>1. Consume(op, cleanup, closed, NoProbe, dirty) /\ UNCHANGED <<op, task>>
        BY <2>0, <2>2 DEF UseResult
      <3>2. op.phase = "Ready" => op.data = file \/ unseen \/ dirty
        BY <1>0, <2>2 DEF InConflict, SameSource, Ok, Fresh
      <3> QED
        BY <1>3, <3>1, <3>2
    <2>3. CASE ~InConflict /\ ~(SameSource(r) /\ ~PermitsSameSourceRecovery)
      <3> DEFINE job == [NoJob EXCEPT !.step = "Done", !.purpose = "Observed", !.result = r]
      <3>1. /\ op' = Observing(op) /\ task' = t /\ probe' = NoProbe /\ dirty' = dirty
            /\ threads' = [threads EXCEPT ![t] = job]
        BY <2>0, <2>3 DEF UseResult
      <3>2. IsOperation(op') /\ IsRunning(op')
        BY <1>2, <2>0, <3>1, TaskStarts
      <3>3. IsJob(job) /\ job.result = r
        <4> DEFINE k == [NoJob EXCEPT !.step = "Done"]
                   l == [k EXCEPT !.purpose = "Observed"]
                   m == [l EXCEPT !.result = r]
        <4>1. job = m
          BY DEF NoJob, Job
        <4>2. IsJob(k)
          BY DEF NoJob, Job, IsJob
        <4>3. IsJob(l)
          <5> HIDE DEF k
          <5> QED
            BY <4>2 DEF IsJob
        <4>4. IsJob(m) /\ m.result = r
          <5> HIDE DEF l
          <5> QED
            BY <4>3 DEF IsJob
        <4> QED
          BY <4>1, <4>4
      <3> HIDE DEF job
      <3> QED
        BY <1>4, <3>1, <3>2, <3>3
    <2> QED
      BY <2>1, <2>2, <2>3
  <1> QED
    BY <1>5, <1>6, <1>7

-----------------------------------------------------------------------------
(* The operation, the cleanup and the others *)

\* A task is started: the probe is dropped, and nobody is answered.
LEMMA StartsKeepsFileInv ==
  ASSUME FileInv, save = None, NEW o, IsOperation(o), IsRunning(o),
         NEW job, IsPending(job), Starts(o, job)
  PROVE  FileInv'
  <1>1. /\ AreThreads(threads') /\ probe' = NoProbe /\ dirty' = dirty /\ op' = o
        /\ task' \in Threads /\ task' # None /\ threads'[task'].step # "Done"
        /\ save' = None
    BY HandsDoes, InvalidatedAreThreads DEF FileInv, Starts
  <1>2. Shapes'
    BY <1>1 DEF Shapes, IsOperation, AreThreads
  <1>3. Answers'
    BY <1>1 DEF Answers, Answered, NoProbe
  <1>4. op'.phase # "Ready"
    BY <1>1 DEF IsRunning
  <1> QED
    BY <1>1, <1>2, <1>3, <1>4
       DEF FileInv, TaskRuns, CommitIsAlone, NoChangeIsForgotten, PendingDirtyIsTakenUp

LEMMA CommitKeepsFileInv ==
  ASSUME FileInv, NEW v \in Values, Commit(v)
  PROVE  FileInv'
  <1>1. /\ AreThreads(threads') /\ probe' = NoProbe /\ dirty' = dirty
        /\ save' \in Threads /\ save' # None /\ threads'[save'].step # "Done"
        /\ UNCHANGED <<op, task>> /\ op.phase = "Ready"
    BY HandsDoes, InvalidatedAreThreads, JobsArePending DEF FileInv, Commit
  <1>2. task' = None
    BY <1>1 DEF FileInv, TaskRuns, IsRunning
  <1>3. Shapes'
    BY <1>1 DEF FileInv, Shapes, AreThreads
  <1>4. Answers'
    BY <1>1, <1>2 DEF Answers, Answered, NoProbe
  <1> QED
    BY <1>1, <1>2, <1>3, <1>4
       DEF FileInv, TaskRuns, CommitIsAlone, NoChangeIsForgotten, PendingDirtyIsTakenUp

\* A task or a commit is over, and what settled the operation is fresh.
LEMMA SettlingKeepsFileInv ==
  ASSUME FileInv, NEW t \in Threads, t # None, Answered(t), threads[t].step = "Done",
         op' = Settled(op, threads[t].result),
         task' = None, save' = None,
         Consume(op', cleanup, [threads EXCEPT ![t] = NoJob], probe, dirty),
         UNCHANGED <<file, unseen, cleanup>>
  PROVE  FileInv'
  <1> DEFINE closed == [threads EXCEPT ![t] = NoJob]
  <1>1. /\ AreThreads(closed)
        /\ \A u \in Threads : closed[u] = IF u = t THEN NoJob ELSE threads[u]
    BY ThreadGetsJob, JobsArePending DEF FileInv, Shapes, AreThreads, IsPending
  <1>2. IsOperation(op)
    BY DEF FileInv, Shapes, IsOperation
  <1>3. IsOperation(op') /\ (op'.phase = "Ready" => op'.data = file \/ unseen \/ dirty)
    BY <1>2, SettledIs DEF Answered, Fresh
  <1>4. \A u \in Threads : u = task' \/ u = probe.thread =>
          (closed[u].step = "Done" /\ closed[u].result.ok
             => closed[u].result.value = file \/ unseen \/ dirty)
    <2> SUFFICES ASSUME NEW u \in Threads, u = task' \/ u = probe.thread,
                        closed[u].step = "Done", closed[u].result.ok
                 PROVE  closed[u].result.value = file \/ unseen \/ dirty
      OBVIOUS
    <2>1. u # t /\ closed[u] = threads[u]
      BY <1>1, JobsArePending DEF IsPending
    <2>2. u = probe.thread /\ u # None
      BY ConstantsAreApart
    <2>3. Fresh(threads[u].result.value)
      BY <2>1, <2>2 DEF FileInv, Answers, Answered
    <2> QED
      BY <2>1, <2>3 DEF Fresh
  <1>5. probe = NoProbe \/ probe.thread \in Threads
    BY DEF FileInv, Shapes
  <1>6. Consume(op', cleanup, closed, probe, dirty)
    OBVIOUS
  <1> HIDE DEF closed
  <1> QED
    BY <1>1, <1>3, <1>4, <1>5, <1>6, ConsumeKeepsFileInv

LEMMA FinishCommitKeepsFileInv ==
  ASSUME FileInv, FinishCommit
  PROVE  FileInv'
  <1>1. /\ save \in Threads /\ save # None /\ threads[save].step = "Done"
        /\ Answered(save) /\ op.phase = "Ready"
    BY DEF FinishCommit, FileInv, Shapes, Answers, CommitIsAlone
  <1>2. op' = Settled(op, threads[save].result)
    BY <1>1 DEF FinishCommit, Settle
  <1>3. task' = None
    BY <1>1 DEF FinishCommit, FileInv, TaskRuns, IsRunning
  <1> QED
    BY <1>1, <1>2, <1>3, SettlingKeepsFileInv DEF FinishCommit, diskVars

LEMMA CompleteTaskKeepsFileInv ==
  ASSUME FileInv, CompleteTask
  PROVE  FileInv'
  <1>1. /\ task \in Threads /\ task # None /\ threads[task].step = "Done"
        /\ Answered(task) /\ IsRunning(op)
    BY DEF CompleteTask, FileInv, Shapes, Answers, TaskRuns
  <1>2. op' = Settled(op, threads[task].result)
    BY <1>1 DEF CompleteTask, Complete
  <1> QED
    BY <1>1, <1>2, SettlingKeepsFileInv DEF CompleteTask, Foreground, diskVars

LEMMA RequestsKeepFileInv ==
  ASSUME FileInv,
         RequestReload \/ \E repair \in {"RetryWrite", "CreateDefault", "OverwritePending"} :
                             RequestRepair(repair)
  PROVE  FileInv'
  <1>0. save = None /\ IsOperation(op)
    BY DEF RequestReload, RequestRepair, Asks, Foreground, FileInv, Shapes, IsOperation
  <1>1. CASE RequestReload /\ Busy(cleanup)
    <2>1. dirty' = TRUE /\ UNCHANGED <<file, threads, unseen, op, task, save, probe, cleanup>>
      BY <1>1 DEF RequestReload, diskVars, storeVars
    <2>2. Shapes' /\ TaskRuns' /\ CommitIsAlone'
      BY <2>1 DEF FileInv, Shapes, TaskRuns, CommitIsAlone, AreThreads
    <2>3. Answers' /\ NoChangeIsForgotten' /\ PendingDirtyIsTakenUp'
      BY <1>1, <2>1
         DEF Answers, Answered, Fresh, NoChangeIsForgotten, PendingDirtyIsTakenUp
    <2> QED
      BY <2>2, <2>3 DEF FileInv
  <1>2. CASE RequestReload /\ ~Busy(cleanup)
    <2> DEFINE o == IF op.phase = "Ready" THEN Refresh(op) ELSE Repair(op)
    <2>1. Starts(o, LoadJob) /\ ~IsRunning(op)
      BY <1>2 DEF RequestReload
    <2>2. IsOperation(o) /\ IsRunning(o)
      BY <1>0, <2>1, TaskStarts
    <2> HIDE DEF o
    <2> QED
      BY <1>0, <2>1, <2>2, StartsKeepsFileInv, JobsArePending
  <1>3. ASSUME NEW repair \in {"RetryWrite", "CreateDefault", "OverwritePending"},
               RequestRepair(repair)
        PROVE  FileInv'
    <2>1. /\ Starts(Repair(op), RepairJob(op.problem, op.data, repair))
          /\ op.phase \in {"Unavailable", "Degraded"}
      BY <1>3 DEF RequestRepair
    <2>2. IsOperation(Repair(op)) /\ IsRunning(Repair(op))
      BY <1>0, <2>1, TaskStarts DEF IsRunning
    <2>3. IsPending(RepairJob(op.problem, op.data, repair))
      BY RepairJobsArePending
    <2> QED
      BY <1>0, <2>1, <2>2, <2>3, StartsKeepsFileInv
  <1> QED
    BY <1>1, <1>2, <1>3

LEMMA CleanupKeepsFileInv ==
  ASSUME FileInv, ScheduleCleanup \/ FinishCleanup
  PROVE  FileInv'
  <1>1. CASE ScheduleCleanup
    <2>1. /\ UNCHANGED <<file, threads, unseen, op, task, save, dirty, probe>>
          /\ Busy(cleanup')
      BY <1>1 DEF ScheduleCleanup, Busy, diskVars, storeVars, probeVars
    <2>2. Shapes' /\ TaskRuns' /\ CommitIsAlone'
      BY <2>1 DEF FileInv, Shapes, TaskRuns, CommitIsAlone, AreThreads
    <2>3. Answers' /\ NoChangeIsForgotten' /\ PendingDirtyIsTakenUp'
      BY <2>1
         DEF FileInv, Answers, Answered, Fresh, NoChangeIsForgotten, PendingDirtyIsTakenUp
    <2> QED
      BY <2>2, <2>3 DEF FileInv
  <1>2. CASE FinishCleanup
    <2>1. /\ UNCHANGED <<file, unseen, op, task, save>> /\ save = None
          /\ Consume(op', cleanup', threads, probe, dirty)
      BY <1>2 DEF FinishCleanup, Foreground, diskVars, storeVars
    <2>2. IsOperation(op') /\ AreThreads(threads)
      BY <2>1 DEF FileInv, Shapes, IsOperation
    <2>3. \A u \in Threads : u = task' \/ u = probe.thread =>
            (threads[u].step = "Done" /\ threads[u].result.ok
               => threads[u].result.value = file \/ unseen \/ dirty)
      BY <2>1, ConstantsAreApart DEF FileInv, Answers, Answered, Fresh
    <2>4. op'.phase = "Ready" => op'.data = file \/ unseen \/ dirty \/ probe # NoProbe
      BY <2>1 DEF FileInv, NoChangeIsForgotten
    <2>5. /\ probe = NoProbe \/ probe.thread \in Threads
          /\ task' = None \/ task' \in Threads
          /\ task' # None => IsRunning(op')
      BY <2>1 DEF FileInv, Shapes, TaskRuns
    <2> QED
      BY <2>1, <2>2, <2>3, <2>4, <2>5, ConsumeKeepsFileInv
  <1> QED
    BY <1>1, <1>2

LEMMA EditKeepsFileInv ==
  ASSUME FileInv, NEW content, Edit(content)
  PROVE  FileInv'
  <1>1. unseen' = TRUE /\ UNCHANGED <<threads, op, task, save, dirty, probe, cleanup>>
    BY DEF Edit, storeVars, probeVars
  <1>2. Shapes' /\ TaskRuns' /\ CommitIsAlone'
    BY <1>1 DEF FileInv, Shapes, TaskRuns, CommitIsAlone, AreThreads
  <1>3. Answers' /\ NoChangeIsForgotten' /\ PendingDirtyIsTakenUp'
    BY <1>1
       DEF FileInv, Answers, Answered, Fresh, NoChangeIsForgotten, PendingDirtyIsTakenUp
  <1> QED
    BY <1>2, <1>3 DEF FileInv

-----------------------------------------------------------------------------
(* The theorems *)

LEMMA InitIsFileInv == Init => FileInv
  <1> SUFFICES ASSUME Init PROVE FileInv
    OBVIOUS
  <1>1. /\ probe.thread \in Threads /\ probe.thread # None /\ probe # NoProbe
        /\ task = None /\ save = None /\ dirty = FALSE
        /\ threads = [t \in Threads |-> IF t = probe.thread THEN ObserveJob ELSE NoJob]
    <2>1. (CHOOSE t \in Threads : TRUE) \in Threads
      BY ConstantsAreApart
    <2>2. probe.thread = CHOOSE t \in Threads : TRUE
      BY DEF Init
    <2> QED
      BY <2>1, <2>2, ConstantsAreApart DEF Init, NoProbe
  <1>2. IsOperation(op)
    <2>1. \E r : op = Settle(Idle, r)
      BY DEF Init
    <2>2. PICK r : op = Settle(Idle, r)
      BY <2>1
    <2>3. op = Settled(Idle, r)
      BY <2>2 DEF Settle, Idle, Operation
    <2>4. Idle.data = None
      BY DEF Idle, Operation
    <2> QED
      BY <2>3, <2>4
         DEF IsOperation, Settled, Ready, Unavailable, Degraded, Operation, Phases
  <1>3. Shapes
    <2>1. AreThreads(threads)
      BY <1>1, JobsArePending DEF AreThreads, IsPending
    <2> QED
      BY <1>1, <1>2, <2>1 DEF Shapes, IsOperation
  <1>4. Answers
    BY <1>1, JobsArePending DEF Answers, Answered, IsPending
  <1> QED
    BY <1>1, <1>3, <1>4
       DEF FileInv, TaskRuns, CommitIsAlone, NoChangeIsForgotten, PendingDirtyIsTakenUp

LEMMA StepKeepsFileInv == FileInv /\ [Next]_vars => FileInv'
  <1> SUFFICES ASSUME FileInv, [Next]_vars PROVE FileInv'
    OBVIOUS
  <1>1. CASE \E t \in Threads : Works(t) \/ Fails(t)
    <2>1. PICK t \in Threads : Works(t) \/ Fails(t)
      BY <1>1
    <2>2. JobStep(t)
      BY <2>1, LoadingIsAJobStep, ReplacingIsAJobStep, FailureIsAJobStep DEF Works, FileInv
    <2> QED
      BY <2>2, JobStepKeepsFileInv
  <1>2. CASE OnDirty \/ ConfirmMissing \/ FinishProbe
    BY <1>2, OnDirtyKeepsFileInv, ConfirmMissingKeepsFileInv, FinishProbeKeepsFileInv
  <1>3. CASE \E v \in Values : Commit(v)
    BY <1>3, CommitKeepsFileInv
  <1>4. CASE FinishCommit \/ CompleteTask
    BY <1>4, FinishCommitKeepsFileInv, CompleteTaskKeepsFileInv
  <1>5. CASE \/ RequestReload
             \/ \E repair \in {"RetryWrite", "CreateDefault", "OverwritePending"} :
                  RequestRepair(repair)
    BY <1>5, RequestsKeepFileInv
  <1>6. CASE ScheduleCleanup \/ FinishCleanup
    BY <1>6, CleanupKeepsFileInv
  <1>7. CASE \E content \in Contents \cup {Missing} : Edit(content)
    BY <1>7, EditKeepsFileInv
  <1>8. CASE UNCHANGED vars
    <2>1. UNCHANGED <<file, threads, unseen, op, task, save, dirty, probe, cleanup>>
      BY <1>8 DEF vars, diskVars, storeVars, probeVars
    <2>2. Shapes' /\ TaskRuns' /\ CommitIsAlone'
      BY <2>1 DEF FileInv, Shapes, TaskRuns, CommitIsAlone, AreThreads
    <2>3. Answers' /\ NoChangeIsForgotten' /\ PendingDirtyIsTakenUp'
      BY <2>1
         DEF FileInv, Answers, Answered, Fresh, NoChangeIsForgotten, PendingDirtyIsTakenUp
    <2> QED
      BY <2>2, <2>3 DEF FileInv
  <1> QED
    BY <1>1, <1>2, <1>3, <1>4, <1>5, <1>6, <1>7, <1>8 DEF Next

\* The inductive invariant of the configuration file holds in every state.
THEOREM FileInvHolds == Spec => []FileInv
  <1> QED
    BY InitIsFileInv, StepKeepsFileInv, PTL DEF Spec

\* A store that is Ready never differs from the file unnoticed.
THEOREM ChangesAreNoticed == Spec => []NoChangeIsForgotten
  <1>1. FileInv => NoChangeIsForgotten
    BY DEF FileInv
  <1> QED
    BY <1>1, FileInvHolds, PTL

\* The mark that a change waits is never stranded.
THEOREM MarkIsTakenUp == Spec => []PendingDirtyIsTakenUp
  <1>1. FileInv => PendingDirtyIsTakenUp
    BY DEF FileInv
  <1> QED
    BY <1>1, FileInvHolds, PTL

-----------------------------------------------------------------------------
(* What a job may replace, and the draft of a conflict *)

Intents == {None, "CreateDefault", "OverwritePending"}

\* A problem that is not about reading carries a configuration.
SoundProblem(p) == p \in Problems /\ (p.kind \notin {"Read", "Parse"} => p.draft \in Values)

SoundResult(r) ==
  \/ r = Ok(r.value) /\ r.value \in Values \cup {Missing}
  \/ r = Err(r.value) /\ SoundProblem(r.value)

\* What a job may end with: only an observer finds no file, and a plain write
\* ends with its draft, written or in the problem.
Answer(j, r) ==
  /\ SoundResult(r)
  /\ r.ok /\ j.purpose # "Observe" => r.value \in Values
  /\ r.ok /\ j.purpose = "Write" => r.value = j.draft
  /\ ~r.ok /\ j.purpose = "Write" => r.value.draft = j.draft

Loading   == {"Read", "Create", "Created", "Reread", "Done"}
Replacing == {"Compare", "Rename", "Verify", "Done"}
StepsOf(purpose) ==
  IF purpose \in {"Write", "WriteAgain"} THEN Replacing \cup {"Lock"}
  ELSE IF purpose = "BackUp" THEN Loading \cup Replacing \cup {"Original", "Recheck"}
  ELSE IF purpose = "Load" THEN Loading
  ELSE IF purpose = "Observe" THEN {"Observe", "Done"}
  ELSE {None, "Done"}

IsWrite(j)   == j.purpose \in {"Write", "WriteAgain"}
IsReplace(j) == IsWrite(j) \/ j.purpose = "BackUp"

JobSound(j) ==
  /\ IsJob(j)
  /\ j.step \in StepsOf(j.purpose)
  /\ IsReplace(j) => j.draft \in Values
  /\ j.intent \in Intents
  /\ j.step = "Done" => Answer(j, j.result)

\* The steps between taking the lock and giving it back.
Holding == {"Created", "Recheck", "Compare", "Rename", "Verify"}

\* A job j on the thread t, with an operation, its task and a commit.
Sound(t, j, o, tk, sv) ==
  /\ JobSound(j)
  /\ j.step \in Holding => lock = t
  /\ j.purpose = "BackUp" /\ j.step \in {"Recheck", "Compare", "Rename"} =>
       j.expected \in backups
  /\ IsWrite(j) /\ j.step # "Done" =>
       t \in {tk, sv} /\ j.expected \in {Missing, o.data}

ThreadsSound == \A t \in Threads : Sound(t, threads[t], op, task, save)

OpSound(o) ==
  /\ IsOperation(o) /\ o.phase # "Loading"
  /\ o.data \in Drafts
  /\ o.problem = None \/ SoundProblem(o.problem)
  /\ o.phase \in {"Ready", "Refreshing"} => o.problem = None
  /\ o.phase \in {"Unavailable", "RepairingUnavailable"} => o.data = None /\ o.problem # None
  /\ o.phase \in {"Degraded", "RepairingDegraded"} => o.problem # None

\* The threads of a task and of a commit are their own.
WaitersAreAlone ==
  /\ task # None => /\ threads[task].purpose \notin {None, "Observe"}
                    /\ task # probe.thread
  /\ save # None => /\ threads[save].purpose = "Write"
                    /\ save # probe.thread

ConflictTask ==
  InConflictWithData(op) /\ task # None =>
    \/ threads[task].purpose \in {"Load", "BackUp"}
    \/ threads[task].purpose = "Write" /\ threads[task].draft = op.problem.draft

Types ==
  /\ file \in Contents \cup {Missing} /\ backups \subseteq Contents
  /\ lock \in Threads \cup {None}
  /\ unseen \in BOOLEAN /\ dirty \in BOOLEAN
  /\ IsRunning(op) => task # None
  /\ cleanup \in {"Idle", "Running", "Queued"}

DraftInv == OpSound(op) /\ ThreadsSound /\ WaitersAreAlone /\ ConflictTask /\ Types

\* Nobody writes to the file between the comparison and the rename.
GapIsClosed ==
  \A t \in Threads :
    threads[t].step = "Rename" /\ threads[t].expected # Missing => file = threads[t].expected

-----------------------------------------------------------------------------
(* Jobs *)

LEMMA QuietJobsAreSound ==
  ASSUME NEW j \in {NoJob, ObserveJob, LoadJob}
  PROVE  /\ JobSound(j) /\ j.step \notin Holding /\ j.step # "Done"
         /\ ~IsReplace(j) /\ j.purpose # "BackUp" /\ ~IsWrite(j)
  BY NoneIsApart
     DEF NoJob, ObserveJob, LoadJob, Job, JobSound, IsJob, StepsOf, Loading, Replacing,
         IsReplace, IsWrite, Intents, Holding

LEMMA QuietIsSound ==
  ASSUME NEW t, NEW j \in {NoJob, ObserveJob, LoadJob}, NEW o, NEW tk, NEW sv
  PROVE  Sound(t, j, o, tk, sv)
  BY QuietJobsAreSound DEF Sound

\* A plain write that has not begun.
LEMMA WriteJobIsSound ==
  ASSUME NEW t, NEW o, NEW tk, NEW sv, t \in {tk, sv},
         NEW v \in Values, NEW e \in {Missing, o.data}
  PROVE  Sound(t, WriteJob("Write", e, v), o, tk, sv)
  <1> DEFINE j == WriteJob("Write", e, v)
  <1>1. /\ IsJob(j) /\ j.step = "Lock" /\ j.purpose = "Write" /\ j.draft = v
        /\ j.intent = None /\ j.expected = e
    BY DEF WriteJob, Job, IsJob
  <1> HIDE DEF j
  <1>2. Sound(t, j, o, tk, sv)
    BY <1>1 DEF Sound, JobSound, StepsOf, Replacing, Intents, Holding, IsWrite
  <1> QED
    BY <1>2 DEF j

\* Going on to another step.
LEMMA StepIsSound ==
  ASSUME NEW j, JobSound(j), NEW step \in StepsOf(j.purpose), step # "Done"
  PROVE  LET k == [j EXCEPT !.step = step] IN
         /\ JobSound(k) /\ k.step = step
         /\ k.purpose = j.purpose /\ k.draft = j.draft /\ k.expected = j.expected
  <1> DEFINE k == [j EXCEPT !.step = step]
  <1>1. /\ IsJob(k) /\ k.step = step /\ k.purpose = j.purpose /\ k.draft = j.draft
        /\ k.expected = j.expected /\ k.intent = j.intent
    BY DEF JobSound, IsJob
  <1> HIDE DEF k
  <1>2. JobSound(k)
    BY <1>1 DEF JobSound, IsReplace, IsWrite
  <1> QED
    BY <1>1, <1>2 DEF k

LEMMA EndIsSound ==
  ASSUME NEW j, JobSound(j), "Done" \in StepsOf(j.purpose), NEW r, Answer(j, r)
  PROVE  LET k == [j EXCEPT !.step = "Done", !.result = r] IN
         /\ JobSound(k) /\ k.step = "Done"
         /\ k.purpose = j.purpose /\ k.draft = j.draft
  <1> DEFINE k == [j EXCEPT !.step = "Done", !.result = r]
             i == [j EXCEPT !.step = "Done"]
             l == [i EXCEPT !.result = r]
  <1>1. IsJob(k) /\ k.result = r
    BY JobEnds DEF JobSound
  <1>2. k = l
    BY DEF JobSound, IsJob
  <1>3. /\ IsJob(i) /\ i.step = "Done" /\ i.purpose = j.purpose /\ i.draft = j.draft
        /\ i.intent = j.intent
    BY DEF JobSound, IsJob
  <1>4. /\ l.step = "Done" /\ l.purpose = j.purpose /\ l.draft = j.draft
        /\ l.intent = j.intent
    <2> HIDE DEF i
    <2> QED
      BY <1>3 DEF IsJob
  <1> HIDE DEF k, l, i
  <1>5. JobSound(k)
    BY <1>1, <1>2, <1>4 DEF JobSound, IsReplace, IsWrite, Answer
  <1> QED
    BY <1>2, <1>4, <1>5 DEF k

LEMMA EveryJobEnds ==
  ASSUME NEW j, j.step \in StepsOf(j.purpose), j.step # None
  PROVE  "Done" \in StepsOf(j.purpose)
  BY DEF StepsOf, Loading, Replacing

-----------------------------------------------------------------------------
(* Answers *)

LEMMA SoundProblems ==
  /\ \A kind \in {"Read", "Parse"} : SoundProblem(Plain(kind))
  /\ \A kind \in Kinds, v \in Values, intent \in Intents :
       SoundProblem(Problem(kind, v, intent))
  BY DEF SoundProblem, Problems, Plain, Problem, Kinds, Drafts, Intents

LEMMA DecodedAnswers ==
  ASSUME NEW j, ~IsWrite(j), NEW content
  PROVE  Answer(j, Decoded(content))
  <1>1. SoundProblem(Plain("Parse"))
    BY SoundProblems
  <1> QED
    BY <1>1 DEF Answer, Decoded, SoundResult, Ok, Err, IsWrite

LEMMA ProblemAnswers ==
  ASSUME NEW j, NEW p, SoundProblem(p), IsWrite(j) => p.draft = j.draft
  PROVE  Answer(j, Err(p))
  BY DEF Answer, SoundResult, Err, IsWrite

LEMMA WriteFailureAnswers ==
  ASSUME NEW j, JobSound(j), IsReplace(j), NEW kind \in Kinds
  PROVE  Answer(j, WriteFailure(j, kind))
  <1>1. j.draft \in Values /\ j.intent \in Intents
    BY DEF JobSound
  <1>2. /\ SoundProblem(Problem(kind, j.draft, None))
        /\ SoundProblem(Problem("WriteAfterBackup", j.draft, j.intent))
    BY <1>1, SoundProblems DEF Intents, Kinds
  <1> QED
    BY <1>2, ProblemAnswers DEF WriteFailure, Problem

-----------------------------------------------------------------------------
(* Blocking work *)

\* The job a step comes to is sound, and that of somebody who waits is the same
\* job.
Moves(t) ==
  /\ \E j : /\ threads' = [threads EXCEPT ![t] = j]
            /\ Sound(t, j, op, task, save)'
            /\ Awaited(t) => j.purpose = threads[t].purpose /\ j.draft = threads[t].draft
  /\ UNCHANGED <<op, task, save, probe>>

\* What a thread may do to the disk.
OnDisk(t) ==
  /\ \/ lock' = lock
     \/ lock = None /\ lock' = t
     \/ lock = t /\ lock' = None
  /\ backups \subseteq backups' /\ backups' \subseteq Contents
  /\ file' = file \/ (lock \in {None, t} /\ file' \in Contents)
  /\ unseen' = unseen \/ unseen' = TRUE
  /\ UNCHANGED <<dirty, cleanup>>

LEMMA GoingMoves ==
  ASSUME ThreadsSound, NEW t \in Threads, threads[t].step # "Done",
         NEW k, JobSound(k), k.step # "Done",
         k.purpose = threads[t].purpose, k.draft = threads[t].draft,
         threads' = [threads EXCEPT ![t] = k],
         k.step \in Holding => lock' = t,
         k.purpose = "BackUp" /\ k.step \in {"Recheck", "Compare", "Rename"} =>
           k.expected \in backups',
         IsWrite(k) => k.expected = threads[t].expected,
         UNCHANGED <<op, task, save, probe>>
  PROVE  Moves(t)
  <1>1. IsWrite(k) => t \in {task, save} /\ k.expected \in {Missing, op.data}
    BY DEF ThreadsSound, Sound, IsWrite
  <1>2. Sound(t, k, op, task, save)'
    BY <1>1 DEF Sound
  <1> QED
    BY <1>2 DEF Moves

LEMMA EndingMoves ==
  ASSUME Shapes, ThreadsSound, NEW t \in Threads, threads[t].step # None,
         NEW r, Answer(threads[t], r), Ends(t, r),
         UNCHANGED <<op, task, save, probe>>
  PROVE  Moves(t) /\ lock' = Unlocked(t)
  <1> DEFINE done == [threads[t] EXCEPT !.step = "Done", !.result = r]
  <1>1. JobSound(threads[t]) /\ "Done" \in StepsOf(threads[t].purpose)
    BY EveryJobEnds DEF ThreadsSound, Sound, JobSound
  <1>2. /\ JobSound(done) /\ done.step = "Done"
        /\ done.purpose = threads[t].purpose /\ done.draft = threads[t].draft
    BY <1>1, EndIsSound
  <1>3. PICK j : j = IF Awaited(t) THEN done ELSE NoJob
    OBVIOUS
  <1>4. threads' = [threads EXCEPT ![t] = j] /\ lock' = Unlocked(t)
    BY <1>3 DEF Ends, Shapes, AreThreads
  <1> HIDE DEF done
  <1>5. Sound(t, j, op, task, save)'
    <2>1. CASE Awaited(t)
      BY <1>2, <1>3, <2>1 DEF Sound, Holding
    <2>2. CASE ~Awaited(t)
      BY <1>3, <2>2, QuietJobsAreSound DEF Sound
    <2> QED
      BY <2>1, <2>2
  <1>6. Awaited(t) => j.purpose = threads[t].purpose /\ j.draft = threads[t].draft
    BY <1>2, <1>3
  <1> QED
    BY <1>4, <1>5, <1>6 DEF Moves

LEMMA LoadedMoves ==
  ASSUME Shapes, ThreadsSound, NEW t \in Threads, threads[t].step \in Loading \ {"Done"},
         NEW r, Answer(threads[t], r), Loaded(t, r),
         UNCHANGED <<op, task, save, probe>>
  PROVE  Moves(t) /\ lock' = Unlocked(t)
  <1>1. CASE threads[t].purpose = "BackUp" /\ ~r.ok
    <2>1. threads' = [threads EXCEPT ![t].step = "Original"] /\ lock' = Unlocked(t)
      BY <1>1 DEF Loaded
    <2>2. PICK k : k = [threads[t] EXCEPT !.step = "Original"]
      OBVIOUS
    <2>3. threads' = [threads EXCEPT ![t] = k]
      BY <2>1, <2>2 DEF Shapes, AreThreads
    <2>4. "Original" \in StepsOf(threads[t].purpose) /\ JobSound(threads[t])
      BY <1>1 DEF StepsOf, ThreadsSound, Sound
    <2>5. /\ JobSound(k) /\ k.step = "Original"
          /\ k.purpose = threads[t].purpose /\ k.draft = threads[t].draft
      BY <2>2, <2>4, StepIsSound
    <2> QED
      BY <1>1, <2>1, <2>3, <2>5, GoingMoves DEF Holding, Loading, IsWrite
  <1>2. CASE ~(threads[t].purpose = "BackUp" /\ ~r.ok)
    BY <1>2, EndingMoves, NoneIsApart DEF Loaded, Loading
  <1> QED
    BY <1>1, <1>2

LEMMA StepTellsPurpose ==
  ASSUME NEW j, j.step \in StepsOf(j.purpose)
  PROVE  /\ j.step = "Observe" => j.purpose = "Observe"
         /\ j.step \in Loading \ {"Done"} => j.purpose \in {"Load", "BackUp"}
         /\ j.step \in {"Original", "Recheck"} => j.purpose = "BackUp"
         /\ j.step = "Lock" => IsWrite(j)
         /\ j.step \in Replacing \ {"Done"} => IsReplace(j)
  BY NoneIsApart DEF StepsOf, Loading, Replacing, IsReplace, IsWrite

LEMMA UnlockedOnDisk ==
  ASSUME Types, NEW t \in Threads, lock' = Unlocked(t), Touches, JobFrame
  PROVE  OnDisk(t)
  <1>1. UNCHANGED <<file, backups, unseen, dirty, cleanup>>
    BY DEF Touches, JobFrame, probeVars
  <1>2. lock' = lock \/ (lock = t /\ lock' = None)
    BY DEF Unlocked
  <1> QED
    BY <1>1, <1>2 DEF OnDisk, Types

LEMMA LockedOnDisk ==
  ASSUME Types, NEW t \in Threads, lock' = lock \/ (lock = None /\ lock' = t),
         Touches, JobFrame
  PROVE  OnDisk(t)
  <1>1. UNCHANGED <<file, backups, unseen, dirty, cleanup>>
    BY DEF Touches, JobFrame, probeVars
  <1> QED
    BY <1>1 DEF OnDisk, Types

\* A job that only goes on to another step.
LEMMA GoesOn ==
  ASSUME Shapes, DraftInv, NEW t \in Threads, NEW step, step \in StepsOf(threads[t].purpose),
         step # "Done", threads[t].step # "Done", Goes(t, step),
         step \in Holding => lock = t,
         threads[t].purpose = "BackUp" /\ step \in {"Recheck", "Compare", "Rename"} =>
           threads[t].expected \in backups',
         JobFrame
  PROVE  Moves(t)
  <1>1. PICK k : k = [threads[t] EXCEPT !.step = step]
    OBVIOUS
  <1>2. /\ JobSound(k) /\ k.step = step
        /\ k.purpose = threads[t].purpose /\ k.draft = threads[t].draft
        /\ k.expected = threads[t].expected
    BY <1>1, StepIsSound DEF DraftInv, ThreadsSound, Sound
  <1>3. threads' = [threads EXCEPT ![t] = k] /\ lock' = lock
    BY <1>1 DEF Goes, Shapes, AreThreads
  <1> QED
    BY <1>1, <1>2, <1>3, GoingMoves DEF DraftInv, JobFrame, storeVars, probeVars

\* read_for_observer and load_or_create.
LEMMA LoadingMoves ==
  ASSUME Shapes, DraftInv, NEW t \in Threads,
         Observe(t) \/ Read(t) \/ Create(t) \/ Created(t) \/ Reread(t)
  PROVE  Moves(t) /\ OnDisk(t)
  <1> DEFINE j == threads[t]
  <1>0. /\ JobSound(j) /\ j.step # None /\ j.step # "Done" /\ Types /\ ThreadsSound
        /\ UNCHANGED <<op, task, save, probe>>
    BY NoneIsApart
       DEF DraftInv, ThreadsSound, Sound, Observe, Read, Create, Created, Reread, JobFrame,
           storeVars, probeVars
  <1>1. CASE Observe(t)
    <2> DEFINE r == IF file = Missing THEN Ok(Missing) ELSE Decoded(file)
    <2>1. j.purpose = "Observe"
      BY <1>0, <1>1, StepTellsPurpose DEF Observe, JobSound
    <2>2. Answer(j, r)
      <3>1. CASE file = Missing
        BY <2>1, <3>1 DEF Answer, SoundResult, Ok
      <3>2. CASE file # Missing
        BY <2>1, <3>2, DecodedAnswers DEF IsWrite
      <3> QED
        BY <3>1, <3>2
    <2>3. Ends(t, r) /\ Touches /\ JobFrame
      BY <1>1 DEF Observe
    <2> HIDE DEF r
    <2> QED
      BY <1>0, <2>2, <2>3, EndingMoves, UnlockedOnDisk
  <1>2. ASSUME j.step \in Loading \ {"Done"}
        PROVE  /\ ~IsWrite(j) /\ j.purpose \in {"Load", "BackUp"}
               /\ Loading \subseteq StepsOf(j.purpose)
    BY <1>0, <1>2, StepTellsPurpose DEF JobSound, IsWrite, StepsOf
  <1>3. ASSUME j.step \in Loading \ {"Done"}, NEW r, Answer(j, r), Loaded(t, r),
               Touches, JobFrame
        PROVE  Moves(t) /\ OnDisk(t)
    BY <1>0, <1>3, LoadedMoves, UnlockedOnDisk
  <1>4. \A kind \in {"Locked", "Write"} : SoundProblem(Problem(kind, Default, None))
    BY SoundProblems, ConstantsAreApart DEF Kinds, Intents
  <1>5. CASE Read(t)
    <2>1. j.step \in Loading \ {"Done"}
      BY <1>5 DEF Read, Loading
    <2>2. CASE file = Missing
      <3>1. Goes(t, "Create") /\ Touches /\ JobFrame /\ "Create" \in StepsOf(j.purpose)
        BY <1>2, <2>1, <1>5, <2>2 DEF Read, Loading
      <3>2. Moves(t)
        BY <1>0, <3>1, GoesOn DEF Holding
      <3> QED
        BY <1>0, <3>1, <3>2, LockedOnDisk DEF Goes
    <2>3. CASE file # Missing
      BY <1>2, <1>3, <1>5, <2>1, <2>3, DecodedAnswers DEF Read
    <2> QED
      BY <2>2, <2>3
  <1>6. CASE Create(t)
    <2>1. j.step \in Loading \ {"Done"}
      BY <1>6 DEF Create, Loading
    <2>2. CASE lock # None
      <3>1. Answer(j, Err(Problem("Locked", Default, None)))
        BY <1>2, <1>4, <2>1, ProblemAnswers
      <3> QED
        BY <1>3, <1>6, <2>1, <2>2, <3>1 DEF Create
    <2>3. CASE lock = None /\ file # Missing
      <3>1. Goes(t, "Reread") /\ Touches /\ JobFrame /\ "Reread" \in StepsOf(j.purpose)
        BY <1>2, <2>1, <1>6, <2>3 DEF Create, Loading
      <3>2. Moves(t)
        BY <1>0, <3>1, GoesOn DEF Holding
      <3> QED
        BY <1>0, <3>1, <3>2, LockedOnDisk DEF Goes
    <2>4. CASE lock = None /\ file = Missing
      <3>1. /\ file' = Default /\ unseen' = TRUE /\ lock' = t /\ UNCHANGED backups
            /\ threads' = [threads EXCEPT ![t].step = "Created"] /\ JobFrame
        BY <1>6, <2>4 DEF Create
      <3>2. PICK k : k = [threads[t] EXCEPT !.step = "Created"]
        OBVIOUS
      <3>3. threads' = [threads EXCEPT ![t] = k]
        BY <3>1, <3>2 DEF Shapes, AreThreads
      <3>4. /\ JobSound(k) /\ k.step = "Created"
            /\ k.purpose = threads[t].purpose /\ k.draft = threads[t].draft
        BY <1>0, <1>2, <2>1, <3>2, StepIsSound DEF Loading
      <3>5. Moves(t)
        BY <1>0, <1>2, <2>1, <3>1, <3>3, <3>4, GoingMoves DEF IsWrite
      <3>6. OnDisk(t)
        BY <1>0, <2>4, <3>1, ConstantsAreApart DEF OnDisk, Types, Contents, JobFrame, probeVars
      <3> QED
        BY <3>5, <3>6
    <2> QED
      BY <2>2, <2>3, <2>4
  <1>7. CASE Created(t)
    <2>1. j.step \in Loading \ {"Done"}
      BY <1>7 DEF Created, Loading
    <2> DEFINE r == IF file = Default THEN Ok(Default) ELSE Err(Problem("Write", Default, None))
    <2>2. Answer(j, r)
      <3>1. Answer(j, Ok(Default))
        BY <1>2, <2>1, ConstantsAreApart DEF Answer, SoundResult, Ok, IsWrite
      <3>2. Answer(j, Err(Problem("Write", Default, None)))
        BY <1>2, <1>4, <2>1, ProblemAnswers
      <3> QED
        BY <3>1, <3>2
    <2>3. Loaded(t, r) /\ Touches /\ JobFrame
      BY <1>7 DEF Created
    <2> HIDE DEF r
    <2> QED
      BY <1>3, <2>1, <2>2, <2>3
  <1>8. CASE Reread(t)
    <2>1. j.step \in Loading \ {"Done"}
      BY <1>8 DEF Reread, Loading
    <2> DEFINE r == IF file = Missing THEN Err(Plain("Read")) ELSE Decoded(file)
    <2>2. Answer(j, r)
      <3>1. Answer(j, Err(Plain("Read")))
        BY <1>2, <2>1, ProblemAnswers, SoundProblems
      <3>2. Answer(j, Decoded(file))
        BY <1>2, <2>1, DecodedAnswers
      <3> QED
        BY <3>1, <3>2
    <2>3. Loaded(t, r) /\ Touches /\ JobFrame
      BY <1>8 DEF Reread
    <2> HIDE DEF r
    <2> QED
      BY <1>3, <2>1, <2>2, <2>3
  <1> QED
    BY <1>1, <1>5, <1>6, <1>7, <1>8

\* backup_and_replace and write_pending_at.
LEMMA ReplacingMoves ==
  ASSUME Shapes, DraftInv, NEW t \in Threads,
         Original(t) \/ Recheck(t) \/ Lock(t) \/ Compare(t) \/ Rename(t) \/ Verify(t)
  PROVE  Moves(t) /\ OnDisk(t)
  <1> DEFINE j == threads[t]
  <1>0. /\ JobSound(j) /\ j.step # None /\ j.step # "Done" /\ Types /\ ThreadsSound
        /\ UNCHANGED <<op, task, save, probe>> /\ JobFrame
        /\ j.step \in Holding => lock = t
        /\ j.step \in StepsOf(j.purpose)
    BY NoneIsApart
       DEF DraftInv, ThreadsSound, Sound, JobSound, Original, Recheck, Lock, Compare, Rename,
           Verify, JobFrame, storeVars, probeVars
  <1>1. ASSUME NEW r, Answer(j, r), Ends(t, r), Touches
        PROVE  Moves(t) /\ OnDisk(t)
    BY <1>0, <1>1, EndingMoves, UnlockedOnDisk
  <1>2. ASSUME IsReplace(j), NEW kind \in Kinds, Ends(t, WriteFailure(j, kind)), Touches
        PROVE  Moves(t) /\ OnDisk(t)
    BY <1>0, <1>1, <1>2, WriteFailureAnswers
  <1>3. CASE Original(t)
    <2>1. j.purpose = "BackUp" /\ IsReplace(j) /\ ~IsWrite(j) /\ j.draft \in Values
      BY <1>0, <1>3, StepTellsPurpose DEF Original, IsReplace, IsWrite, JobSound
    <2>2. CASE lock # None
      <3>1. Answer(j, Err(Problem("Locked", j.draft, None)))
        BY <2>1, SoundProblems, ProblemAnswers DEF Kinds, Intents
      <3>2. Ends(t, Err(Problem("Locked", j.draft, None))) /\ Touches
        BY <1>3, <2>2 DEF Original, Touches
      <3> QED
        BY <1>1, <3>1, <3>2
    <2>3. CASE lock = None /\ file = Missing
      <3>1. Answer(j, Err(Plain("Read")))
        BY <2>1, SoundProblems, ProblemAnswers
      <3>2. Ends(t, Err(Plain("Read"))) /\ Touches
        BY <1>3, <2>3 DEF Original, Touches
      <3> QED
        BY <1>1, <3>1, <3>2
    <2>4. CASE lock = None /\ file # Missing
      <3>1. /\ lock' = t /\ backups' = backups \cup {file} /\ UNCHANGED <<file, unseen>>
            /\ threads' = [threads EXCEPT ![t].step = "Recheck", ![t].expected = file]
        BY <1>3, <2>4 DEF Original
      <3>0. PICK i : i = [j EXCEPT !.step = "Recheck"]
        OBVIOUS
      <3>2. PICK k : k = [i EXCEPT !.expected = file]
        OBVIOUS
      <3>3. threads' = [threads EXCEPT ![t] = k]
        BY <1>0, <3>0, <3>1, <3>2 DEF Shapes, AreThreads, IsJob
      <3>4. /\ JobSound(i) /\ i.step = "Recheck"
            /\ i.purpose = j.purpose /\ i.draft = j.draft
        BY <1>0, <2>1, <3>0, StepIsSound DEF StepsOf
      <3>5. /\ IsJob(k) /\ k.step = i.step /\ k.purpose = i.purpose /\ k.draft = i.draft
            /\ k.intent = i.intent /\ k.expected = file
        BY <3>2, <3>4 DEF JobSound, IsJob
      <3>6. Moves(t)
        <4>1. JobSound(k) /\ ~IsWrite(k)
          BY <2>1, <3>4, <3>5 DEF JobSound, IsReplace, IsWrite
        <4> QED
          BY <1>0, <3>1, <3>3, <3>4, <3>5, <4>1, GoingMoves
      <3>7. OnDisk(t)
        BY <1>0, <2>4, <3>1 DEF OnDisk, Types, JobFrame, probeVars
      <3> QED
        BY <3>6, <3>7
    <2> QED
      BY <2>2, <2>3, <2>4
  <1>4. CASE Recheck(t)
    <2>1. /\ j.purpose = "BackUp" /\ IsReplace(j) /\ ~IsWrite(j) /\ j.draft \in Values
          /\ lock = t /\ Touches
          /\ j.expected \in backups
      BY <1>0, <1>4, StepTellsPurpose
         DEF Recheck, IsReplace, IsWrite, JobSound, Holding, ThreadsSound, Sound
    <2>2. CASE file = j.expected
      <3>1. Goes(t, "Compare") /\ "Compare" \in StepsOf(j.purpose) /\ backups' = backups
        BY <1>4, <2>1, <2>2 DEF Recheck, StepsOf, Replacing, Touches
      <3>2. Moves(t)
        BY <1>0, <2>1, <3>1, GoesOn
      <3> QED
        BY <1>0, <2>1, <3>1, <3>2, LockedOnDisk DEF Goes
    <2>3. CASE file # j.expected
      <3>1. Answer(j, Err(Problem("ExternalChange", j.draft, None)))
        BY <2>1, SoundProblems, ProblemAnswers DEF Kinds, Intents
      <3>2. Ends(t, Err(Problem("ExternalChange", j.draft, None)))
        BY <1>4, <2>3 DEF Recheck
      <3> QED
        BY <1>1, <2>1, <3>1, <3>2
    <2> QED
      BY <2>2, <2>3
  <1>5. CASE Lock(t)
    <2>1. IsWrite(j) /\ IsReplace(j) /\ Touches /\ j.purpose # "BackUp"
      BY <1>0, <1>5, StepTellsPurpose DEF Lock, IsReplace, IsWrite
    <2>2. CASE lock # None
      BY <1>2, <1>5, <2>1, <2>2 DEF Lock, Kinds
    <2>3. CASE lock = None
      <3>1. PICK step : step = IF j.expected = Missing THEN "Rename" ELSE "Compare"
        OBVIOUS
      <3>2. lock' = t /\ threads' = [threads EXCEPT ![t].step = step]
        BY <1>5, <2>3, <3>1 DEF Lock
      <3>3. PICK k : k = [j EXCEPT !.step = step]
        OBVIOUS
      <3>4. threads' = [threads EXCEPT ![t] = k]
        BY <3>2, <3>3 DEF Shapes, AreThreads
      <3>5. step \in StepsOf(j.purpose) /\ step # "Done"
        BY <2>1, <3>1 DEF StepsOf, Replacing, IsWrite
      <3>6. /\ JobSound(k) /\ k.step = step
            /\ k.purpose = j.purpose /\ k.draft = j.draft /\ k.expected = j.expected
        BY <1>0, <3>3, <3>5, StepIsSound
      <3>7. Moves(t)
        BY <1>0, <2>1, <3>2, <3>4, <3>5, <3>6, GoingMoves
      <3> QED
        BY <1>0, <2>1, <2>3, <3>2, <3>7, LockedOnDisk
    <2> QED
      BY <2>2, <2>3
  <1>6. ASSUME j.step \in {"Compare", "Rename", "Verify"}
        PROVE  /\ IsReplace(j) /\ lock = t /\ j.draft \in Values
               /\ Replacing \subseteq StepsOf(j.purpose)
    BY <1>0, <1>6, StepTellsPurpose
       DEF Replacing, Holding, JobSound, StepsOf, IsReplace, IsWrite
  <1>7. CASE Compare(t)
    <2>1. j.step = "Compare" /\ Touches
      BY <1>7 DEF Compare
    <2>2. CASE file = j.expected
      <3>1. Goes(t, "Rename") /\ "Rename" \in StepsOf(j.purpose)
        BY <1>6, <1>7, <2>1, <2>2 DEF Compare, Replacing
      <3>2. j.purpose = "BackUp" => j.expected \in backups'
        BY <2>1 DEF Touches, DraftInv, ThreadsSound, Sound
      <3>3. Moves(t)
        BY <1>0, <1>6, <2>1, <3>1, <3>2, GoesOn
      <3> QED
        BY <1>0, <2>1, <3>1, <3>3, LockedOnDisk DEF Goes
    <2>3. CASE file # j.expected
      BY <1>2, <1>6, <1>7, <2>1, <2>3 DEF Compare, Kinds
    <2> QED
      BY <2>2, <2>3
  <1>8. CASE Rename(t)
    <2>1. j.step = "Rename" /\ backups' = backups
      BY <1>8 DEF Rename
    <2>2. CASE j.expected = Missing /\ file # Missing
      BY <1>2, <1>6, <1>8, <2>1, <2>2 DEF Rename, Kinds, Touches
    <2>3. CASE ~(j.expected = Missing /\ file # Missing)
      <3>1. Goes(t, "Verify") /\ file' = j.draft /\ unseen' = TRUE
        BY <1>8, <2>3 DEF Rename
      <3>2. "Verify" \in StepsOf(j.purpose)
        BY <1>6, <2>1 DEF Replacing
      <3>3. Moves(t)
        BY <1>0, <1>6, <2>1, <3>1, <3>2, GoesOn
      <3>4. OnDisk(t)
        BY <1>0, <1>6, <2>1, <3>1 DEF OnDisk, Goes, Contents, Types, JobFrame, probeVars
      <3> QED
        BY <3>3, <3>4
    <2> QED
      BY <2>2, <2>3
  <1>9. CASE Verify(t)
    <2>1. j.step = "Verify" /\ Touches
      BY <1>9 DEF Verify
    <2>2. CASE file = j.draft
      <3>1. Answer(j, Ok(j.draft))
        BY <1>6, <2>1 DEF Answer, SoundResult, Ok
      <3> QED
        BY <1>1, <1>9, <2>1, <2>2, <3>1 DEF Verify
    <2>3. CASE file # j.draft
      BY <1>2, <1>6, <1>9, <2>1, <2>3 DEF Verify, Kinds
    <2> QED
      BY <2>2, <2>3
  <1> QED
    BY <1>3, <1>4, <1>5, <1>7, <1>8, <1>9

\* A failure is no different.
LEMMA FailureMoves ==
  ASSUME Shapes, DraftInv, NEW t \in Threads, Fails(t)
  PROVE  Moves(t) /\ OnDisk(t)
  <1> DEFINE j == threads[t]
  <1>0. /\ JobSound(j) /\ Types /\ ThreadsSound
        /\ UNCHANGED <<op, task, save, probe>> /\ Touches
        /\ j.step \in StepsOf(j.purpose)
    BY DEF DraftInv, ThreadsSound, Sound, JobSound, Fails, storeVars, probeVars
  <1>1. ASSUME lock' = Unlocked(t) PROVE OnDisk(t)
    <2>1. UNCHANGED <<file, backups, unseen, dirty, cleanup>>
      BY DEF Fails, Touches, probeVars
    <2>2. lock' = lock \/ (lock = t /\ lock' = None)
      BY <1>1 DEF Unlocked
    <2> QED
      BY <1>0, <2>1, <2>2 DEF OnDisk, Types
  <1>2. ASSUME NEW r, Answer(j, r), Ends(t, r), j.step # None
        PROVE  Moves(t) /\ OnDisk(t)
    BY <1>0, <1>1, <1>2, EndingMoves
  <1>3. ASSUME NEW r, Answer(j, r), Loaded(t, r), j.step \in Loading \ {"Done"}
        PROVE  Moves(t) /\ OnDisk(t)
    BY <1>0, <1>1, <1>3, LoadedMoves
  <1>4. CASE j.step = "Observe" /\ Ends(t, Err(Plain("Read")))
    <2>1. ~IsWrite(j) /\ j.step # None
      BY <1>0, <1>4, StepTellsPurpose, NoneIsApart DEF IsWrite
    <2> QED
      BY <1>2, <1>4, <2>1, ProblemAnswers, SoundProblems
  <1>5. ASSUME j.step \in Loading \ {"Done"} PROVE ~IsWrite(j)
    BY <1>0, <1>5, StepTellsPurpose DEF IsWrite
  <1>6. CASE j.step \in {"Read", "Reread"} /\ Loaded(t, Err(Plain("Read")))
    <2>1. j.step \in Loading \ {"Done"}
      BY <1>6 DEF Loading
    <2> QED
      BY <1>3, <1>5, <1>6, <2>1, ProblemAnswers, SoundProblems
  <1>7. CASE /\ j.step = "Create"
             /\ \E kind \in {"Locked", "Write"} : Loaded(t, Err(Problem(kind, Default, None)))
    <2>1. j.step \in Loading \ {"Done"}
      BY <1>7 DEF Loading
    <2>2. PICK kind \in {"Locked", "Write"} : Loaded(t, Err(Problem(kind, Default, None)))
      BY <1>7
    <2>3. SoundProblem(Problem(kind, Default, None))
      BY SoundProblems, ConstantsAreApart DEF Kinds, Intents
    <2> QED
      BY <1>3, <1>5, <2>1, <2>2, <2>3, ProblemAnswers
  <1>8. CASE j.step = "Original" /\ Ends(t, Err(Problem("Backup", j.draft, j.intent)))
    <2>1. IsReplace(j) /\ ~IsWrite(j) /\ j.step # None
      BY <1>0, <1>8, StepTellsPurpose, NoneIsApart DEF IsReplace, IsWrite
    <2>2. SoundProblem(Problem("Backup", j.draft, j.intent))
      BY <1>0, <2>1, SoundProblems DEF JobSound, Kinds
    <2> QED
      BY <1>2, <1>8, <2>1, <2>2, ProblemAnswers
  <1>9. CASE \/ j.step = "Lock" /\ Ends(t, WriteFailure(j, "Locked"))
             \/ j.step = "Rename" /\ Ends(t, WriteFailure(j, "Write"))
    <2>1. IsReplace(j) /\ j.step # None
      BY <1>0, <1>9, StepTellsPurpose, NoneIsApart DEF IsReplace, Replacing
    <2>2. Answer(j, WriteFailure(j, "Locked")) /\ Answer(j, WriteFailure(j, "Write"))
      BY <1>0, <2>1, WriteFailureAnswers DEF Kinds
    <2> QED
      BY <1>2, <1>9, <2>1, <2>2
  <1> QED
    BY <1>4, <1>6, <1>7, <1>8, <1>9 DEF Fails

\* Blocking work leaves the invariant as it is.
LEMMA MovesKeepDraftInv ==
  ASSUME FileInv, DraftInv, NEW t \in Threads, Moves(t), OnDisk(t)
  PROVE  DraftInv'
  <1>1. PICK j : /\ threads' = [threads EXCEPT ![t] = j]
                 /\ Sound(t, j, op, task, save)'
                 /\ Awaited(t) => j.purpose = threads[t].purpose /\ j.draft = threads[t].draft
    BY DEF Moves
  <1>2. threads'[t] = j /\ \A u \in Threads \ {t} : threads'[u] = threads[u]
    BY <1>1 DEF FileInv, Shapes, AreThreads
  <1>3. UNCHANGED <<op, task, save, probe, dirty, cleanup>>
    BY DEF Moves, OnDisk
  <1>4. ASSUME NEW u \in Threads PROVE Sound(u, threads[u], op, task, save)'
    <2>1. CASE u = t
      BY <1>1, <1>2, <2>1
    <2>2. CASE u # t
      <3>1. Sound(u, threads[u], op, task, save) /\ threads'[u] = threads[u]
        BY <1>2, <2>2 DEF DraftInv, ThreadsSound
      <3>2. threads[u].step \in Holding => lock' = u
        BY <2>2, <3>1, ConstantsAreApart DEF Sound, OnDisk
      <3>3. backups \subseteq backups'
        BY DEF OnDisk
      <3> QED
        BY <1>3, <3>1, <3>2, <3>3 DEF Sound
    <2> QED
      BY <2>1, <2>2
  <1>5. \A u \in {task, save} : u # None =>
          /\ threads'[u].purpose = threads[u].purpose
          /\ threads'[u].draft = threads[u].draft
    BY <1>1, <1>2 DEF FileInv, Shapes, Awaited
  <1>6. WaitersAreAlone' /\ ConflictTask'
    BY <1>3, <1>5 DEF DraftInv, WaitersAreAlone, ConflictTask, InConflictWithData
  <1>7. Types'
    BY <1>3 DEF DraftInv, Types, OnDisk, Contents
  <1>8. OpSound(op)'
    BY <1>3 DEF DraftInv, OpSound, SoundProblem, IsOperation
  <1> QED
    BY <1>4, <1>6, <1>7, <1>8 DEF DraftInv, ThreadsSound

-----------------------------------------------------------------------------
(* The operation *)

LEMMA PhaseChanges ==
  ASSUME NEW o, IsOperation(o), NEW ph
  PROVE  /\ [o EXCEPT !.phase = ph].phase = ph
         /\ [o EXCEPT !.phase = ph].data = o.data
         /\ [o EXCEPT !.phase = ph].problem = o.problem
  BY DEF IsOperation, Operation

\* A task is started, and the operation keeps what it has.
LEMMA StartedIsSound ==
  ASSUME NEW o, OpSound(o), ~IsRunning(o),
         NEW n, n = Observing(o) \/ (n = Repair(o) /\ o.phase # "Ready")
                                 \/ (n = Refresh(o) /\ o.phase = "Ready")
  PROVE  /\ OpSound(n) /\ IsRunning(n)
         /\ n.data = o.data /\ n.problem = o.problem
  <1>1. o.phase \in {"Ready", "Unavailable", "Degraded"} /\ IsOperation(o)
    BY DEF OpSound, IsOperation, IsRunning, Phases
  <1>2. /\ o.phase = "Ready" => n = [o EXCEPT !.phase = "Refreshing"]
        /\ o.phase = "Unavailable" => n = [o EXCEPT !.phase = "RepairingUnavailable"]
        /\ o.phase = "Degraded" => n = [o EXCEPT !.phase = "RepairingDegraded"]
    BY <1>1 DEF Observing, Repair, Refresh, Running
  <1>3. /\ o.phase = "Ready" => n.phase = "Refreshing"
        /\ o.phase = "Unavailable" => n.phase = "RepairingUnavailable"
        /\ o.phase = "Degraded" => n.phase = "RepairingDegraded"
        /\ n.data = o.data /\ n.problem = o.problem
    <2>1. PICK ph \in {"Refreshing", "RepairingUnavailable", "RepairingDegraded"} :
            /\ n = [o EXCEPT !.phase = ph]
            /\ o.phase = "Ready" => ph = "Refreshing"
            /\ o.phase = "Unavailable" => ph = "RepairingUnavailable"
            /\ o.phase = "Degraded" => ph = "RepairingDegraded"
      BY <1>1, <1>2
    <2>2. n.phase = ph /\ n.data = o.data /\ n.problem = o.problem
      BY <1>1, <2>1, PhaseChanges
    <2> QED
      BY <2>1, <2>2
  <1>4. IsOperation(n) /\ IsRunning(n)
    BY <1>1, TaskStarts
  <1> QED
    BY <1>1, <1>3, <1>4 DEF OpSound

\* What a result makes of an operation.
LEMMA SettledIsSound ==
  ASSUME NEW o, OpSound(o), NEW r, SoundResult(r), r.ok => r.value \in Values
  PROVE  OpSound(Settled(o, r)) /\ ~IsRunning(Settled(o, r))
  <1>1. IsOperation(Settled(o, r)) /\ ~IsRunning(Settled(o, r))
    BY SettledIs DEF OpSound
  <1>2. CASE r.ok
    <2>1. Settled(o, r) = Operation("Ready", r.value, None)
      BY <1>2 DEF Settled, Ready
    <2> QED
      BY <1>1, <1>2, <2>1 DEF OpSound, Operation, Drafts
  <1>3. CASE ~r.ok
    <2>1. SoundProblem(r.value) /\ r.value # None
      BY <1>3, NoneIsApart DEF SoundResult, Ok, SoundProblem
    <2>2. \/ o.data = None /\ Settled(o, r) = Operation("Unavailable", None, r.value)
          \/ o.data # None /\ Settled(o, r) = Operation("Degraded", o.data, r.value)
      BY <1>3 DEF Settled, Unavailable, Degraded
    <2> QED
      BY <1>1, <2>1, <2>2 DEF OpSound, Operation, Drafts
  <1> QED
    BY <1>2, <1>3

-----------------------------------------------------------------------------
(* Foreground steps *)

\* They leave the lock and the backups alone; a thread they touch is sound.
LEMMA ForegroundKeepsDraftInv ==
  ASSUME DraftInv, UNCHANGED <<backups, lock>>,
         file' \in Contents \cup {Missing}, unseen' \in BOOLEAN, dirty' \in BOOLEAN,
         cleanup' \in {"Idle", "Running", "Queued"},
         OpSound(op'), IsRunning(op') => task' # None,
         \A u \in Threads :
           \/ /\ threads'[u] = threads[u]
              /\ IsWrite(threads[u]) /\ threads[u].step # "Done" =>
                   op'.data = op.data /\ task' = task /\ save' = save
           \/ Sound(u, threads'[u], op', task', save'),
         WaitersAreAlone', ConflictTask'
  PROVE  DraftInv'
  <1>1. ASSUME NEW u \in Threads PROVE Sound(u, threads[u], op, task, save)'
    <2>1. CASE Sound(u, threads'[u], op', task', save')
      BY <2>1 DEF Sound
    <2>2. CASE /\ threads'[u] = threads[u]
               /\ IsWrite(threads[u]) /\ threads[u].step # "Done" =>
                    op'.data = op.data /\ task' = task /\ save' = save
      BY <2>2 DEF Sound, DraftInv, ThreadsSound
    <2> QED
      BY <2>1, <2>2
  <1>2. Types'
    BY DEF DraftInv, Types
  <1> QED
    BY <1>1, <1>2 DEF DraftInv, ThreadsSound

\* The operation and those who wait stay as they are.
LEMMA WaitersStay ==
  ASSUME DraftInv, UNCHANGED <<op, task, save>>,
         \A u \in {task, save} : u # None => threads'[u] = threads[u] /\ u # probe'.thread
  PROVE  WaitersAreAlone' /\ ConflictTask'
  BY DEF DraftInv, WaitersAreAlone, ConflictTask, InConflictWithData

LEMMA NobodyWrites ==
  ASSUME FileInv, DraftInv,
         task = None \/ threads[task].step = "Done",
         save = None \/ threads[save].step = "Done",
         NEW u \in Threads
  PROVE  ~(IsWrite(threads[u]) /\ threads[u].step # "Done")
  BY ConstantsAreApart DEF DraftInv, ThreadsSound, Sound

\* A new probe gets a thread that does nothing.
LEMMA ProbeTakesAFreeThread ==
  ASSUME NEW o, NEW ths, AreThreads(ths), StartProbe(o, ths)
  PROVE  /\ probe'.thread \in Threads /\ ths[probe'.thread] = NoJob
         /\ \A u \in Threads :
              threads'[u] = ths[u] \/ (u = probe'.thread /\ threads'[u] = ObserveJob)
  <1>1. FreeThread(ths) \in Threads /\ ths[FreeThread(ths)] = NoJob
    BY DEF StartProbe, FreeThread, FreeThreads
  <1>2. probe'.thread = FreeThread(ths)
    BY DEF StartProbe
  <1> QED
    BY <1>1, <1>2 DEF StartProbe, AreThreads

LEMMA ConsumeTakesAFreeThread ==
  ASSUME NEW o, NEW c, NEW ths, AreThreads(ths), NEW p, NEW d \in BOOLEAN,
         Consume(o, c, ths, p, d)
  PROVE  /\ dirty' \in BOOLEAN
         /\ probe' = p \/ (probe'.thread \in Threads /\ ths[probe'.thread] = NoJob)
         /\ \A u \in Threads : \/ threads'[u] = ths[u]
                               \/ ths[u] = NoJob /\ threads'[u] = ObserveJob
  BY ProbeTakesAFreeThread DEF Consume

\* Looking at the mark, once a thread t or none has been closed, with the
\* operation and the waiters left alone.
LEMMA ConsumeKeepsDraftInv ==
  ASSUME FileInv, DraftInv, UNCHANGED <<op, task, save, file, backups, lock>>,
         unseen' \in BOOLEAN, cleanup' \in {"Idle", "Running", "Queued"},
         NEW ths, AreThreads(ths),
         \A u \in Threads : ths[u] = threads[u] \/ (u = probe.thread /\ ths[u] = NoJob),
         NEW p, p = NoProbe \/ p = probe, NEW d \in BOOLEAN, NEW c,
         Consume(op, c, ths, p, d)
  PROVE  DraftInv'
  <1>1. /\ dirty' \in BOOLEAN
        /\ probe' = p \/ (probe'.thread \in Threads /\ ths[probe'.thread] = NoJob)
        /\ \A u \in Threads : \/ threads'[u] = ths[u]
                              \/ ths[u] = NoJob /\ threads'[u] = ObserveJob
    BY ConsumeTakesAFreeThread
  <1>2. \A u \in Threads : \/ threads'[u] = threads[u]
                           \/ Sound(u, threads'[u], op', task', save')
    BY <1>1, QuietIsSound
  <1>3. ASSUME NEW u \in {task, save}, u # None
        PROVE  threads'[u] = threads[u] /\ u # probe'.thread
    <2>1. u \in Threads /\ u # probe.thread /\ threads[u].purpose # None
      BY <1>3, NoneIsApart DEF FileInv, Shapes, DraftInv, WaitersAreAlone
    <2>2. ths[u] = threads[u] /\ ths[u] # NoJob
      BY <2>1 DEF NoJob, Job
    <2> QED
      BY <1>1, <1>3, <2>1, <2>2 DEF NoProbe
  <1>4. WaitersAreAlone' /\ ConflictTask'
    BY <1>3, WaitersStay
  <1> QED
    BY <1>1, <1>2, <1>4, ForegroundKeepsDraftInv DEF DraftInv, Types

LEMMA OnDirtyKeepsDraftInv ==
  ASSUME FileInv, DraftInv, OnDirty
  PROVE  DraftInv'
  <1>1. UNCHANGED <<op, task, save, file, backups, lock, cleanup>> /\ unseen' = FALSE
    BY DEF OnDirty, diskVars, storeVars
  <1>2. CASE dirty' = TRUE /\ UNCHANGED <<threads, probe>>
    <2>1. WaitersAreAlone' /\ ConflictTask'
      BY <1>1, <1>2, WaitersStay DEF DraftInv, WaitersAreAlone
    <2> QED
      BY <1>1, <1>2, <2>1, ForegroundKeepsDraftInv DEF DraftInv, Types
  <1>3. CASE StartProbe(op, threads) /\ UNCHANGED dirty
    <2>1. AreThreads(threads)
      BY DEF FileInv, Shapes
    <2>2. /\ probe'.thread \in Threads /\ threads[probe'.thread] = NoJob
          /\ \A u \in Threads :
               threads'[u] = threads[u] \/ (u = probe'.thread /\ threads'[u] = ObserveJob)
      BY <1>3, <2>1, ProbeTakesAFreeThread
    <2>3. \A u \in Threads : \/ threads'[u] = threads[u]
                             \/ Sound(u, threads'[u], op', task', save')
      BY <2>2, QuietIsSound
    <2>4. ASSUME NEW u \in {task, save}, u # None
          PROVE  threads'[u] = threads[u] /\ u # probe'.thread
      <3>1. u \in Threads /\ threads[u].purpose # None
        BY <2>4, NoneIsApart DEF FileInv, Shapes, DraftInv, WaitersAreAlone
      <3> QED
        BY <2>2, <3>1 DEF NoJob, Job
    <2>5. WaitersAreAlone' /\ ConflictTask'
      BY <1>1, <2>4, WaitersStay
    <2> QED
      BY <1>1, <1>3, <2>3, <2>5, ForegroundKeepsDraftInv DEF DraftInv, Types
  <1> QED
    BY <1>2, <1>3 DEF OnDirty

LEMMA ConfirmMissingKeepsDraftInv ==
  ASSUME FileInv, DraftInv, ConfirmMissing
  PROVE  DraftInv'
  <1>1. /\ UNCHANGED <<op, task, save, file, backups, lock, cleanup, unseen, dirty, probe>>
        /\ threads' = [threads EXCEPT ![probe.thread] = LoadJob]
    BY DEF ConfirmMissing, diskVars, storeVars, probeVars
  <1>2. \A u \in Threads : threads'[u] = IF u = probe.thread THEN LoadJob ELSE threads[u]
    BY <1>1 DEF FileInv, Shapes, AreThreads
  <1>3. \A u \in Threads : \/ threads'[u] = threads[u]
                           \/ Sound(u, threads'[u], op', task', save')
    BY <1>2, QuietIsSound
  <1>4. ASSUME NEW u \in {task, save}, u # None
        PROVE  threads'[u] = threads[u] /\ u # probe'.thread
    BY <1>1, <1>2, <1>4 DEF FileInv, Shapes, DraftInv, WaitersAreAlone
  <1>5. WaitersAreAlone' /\ ConflictTask'
    BY <1>1, <1>4, WaitersStay
  <1> QED
    BY <1>1, <1>3, <1>5, ForegroundKeepsDraftInv DEF DraftInv, Types

\* What is handed out.
LEMMA HandsGives ==
  ASSUME FileInv, NEW job, Hands(job, Invalidated)
  PROVE  LET f == FreeThread(Invalidated) IN
         /\ f \in Threads /\ f # None /\ probe' = NoProbe /\ dirty' = dirty
         /\ threads'[f] = job
         /\ \A u \in Threads \ {f} : threads'[u] = threads[u] \/ threads'[u] = NoJob
  <1>1. FreeThread(Invalidated) \in Threads /\ FreeThread(Invalidated) # None
    BY FreeThreadIsAThread DEF Hands
  <1>2. AreThreads(Invalidated)
    BY InvalidatedAreThreads DEF FileInv
  <1>3. \A u \in Threads : Invalidated[u] = threads[u] \/ Invalidated[u] = NoJob
    BY DEF Invalidated
  <1> QED
    BY <1>1, <1>2, <1>3 DEF Hands, AreThreads

LEMMA StartsKeepsDraftInv ==
  ASSUME FileInv, DraftInv, save = None, task = None, asks' = asks + 1,
         NEW o, OpSound(o), NEW job, Starts(o, job),
         \A t \in Threads : Sound(t, job, o, t, None),
         job.purpose \notin {None, "Observe"},
         InConflictWithData(o) => job.purpose \in {"Load", "BackUp"}
  PROVE  DraftInv'
  <1>1. /\ op' = o /\ task' \in Threads /\ task' # None /\ probe' = NoProbe
        /\ UNCHANGED <<dirty, save, file, backups, lock, unseen, cleanup>>
        /\ threads'[task'] = job
        /\ \A u \in Threads \ {task'} : threads'[u] = threads[u] \/ threads'[u] = NoJob
    BY HandsGives DEF Starts, diskVars
  <1>2. ASSUME NEW u \in Threads
        PROVE  \/ /\ threads'[u] = threads[u]
                  /\ ~(IsWrite(threads[u]) /\ threads[u].step # "Done")
               \/ Sound(u, threads'[u], op', task', save')
    <2>1. CASE u = task'
      BY <1>1, <2>1
    <2>2. CASE u # task' /\ threads'[u] = NoJob
      BY <2>2, QuietIsSound
    <2>3. CASE u # task' /\ threads'[u] = threads[u]
      BY <2>3, NobodyWrites
    <2> QED
      BY <1>1, <2>1, <2>2, <2>3
  <1>3. WaitersAreAlone' /\ ConflictTask'
    BY <1>1 DEF WaitersAreAlone, ConflictTask, NoProbe, InConflictWithData
  <1> QED
    BY <1>1, <1>2, <1>3, ForegroundKeepsDraftInv DEF DraftInv, Types

\* FinishProbe: what is dropped, written or applied.
LEMMA FinishProbeKeepsDraftInv ==
  ASSUME FileInv, DraftInv, FinishProbe
  PROVE  DraftInv'
  <1> DEFINE t      == probe.thread
             r      == threads[t].result
             closed == [threads EXCEPT ![t] = NoJob]
  <1>1. /\ save = None /\ t \in Threads /\ t # None /\ threads[t].step = "Done"
        /\ r # Ok(Missing)
        /\ UNCHANGED <<save, file, backups, lock, unseen, cleanup>>
    BY ConstantsAreApart DEF FinishProbe, Foreground, ProbeDone, FileInv, Shapes, diskVars
  <1>2. Types /\ OpSound(op) /\ Answer(threads[t], r)
    BY <1>1 DEF DraftInv, ThreadsSound, Sound, JobSound
  <1>3. /\ AreThreads(closed)
        /\ \A u \in Threads : closed[u] = threads[u] \/ (u = probe.thread /\ closed[u] = NoJob)
    BY ThreadGetsJob, JobsArePending DEF FileInv, Shapes, AreThreads, IsPending
  <1>4. ASSUME NEW d \in BOOLEAN, Consume(op, cleanup, closed, NoProbe, d), UNCHANGED <<op, task>>
        PROVE  DraftInv'
    <2> HIDE DEF closed
    <2> QED
      BY <1>1, <1>2, <1>3, <1>4, ConsumeKeepsDraftInv DEF Types
  <1>5. CASE Busy(cleanup)
    <2>1. /\ dirty' = TRUE /\ probe' = NoProbe /\ threads' = closed
          /\ UNCHANGED <<op, task>>
      BY <1>5 DEF FinishProbe
    <2>2. \A u \in Threads : \/ threads'[u] = threads[u]
                             \/ Sound(u, threads'[u], op', task', save')
      BY <1>3, <2>1, QuietIsSound
    <2>3. \A u \in {task, save} : u # None => threads'[u] = threads[u] /\ u # probe'.thread
      BY <1>1, <1>3, <2>1 DEF FileInv, Shapes, DraftInv, WaitersAreAlone, NoProbe
    <2>4. WaitersAreAlone' /\ ConflictTask'
      BY <1>1, <2>1, <2>3, WaitersStay
    <2> QED
      BY <1>1, <1>2, <2>1, <2>2, <2>4, ForegroundKeepsDraftInv DEF Types
  <1>6. CASE ~Busy(cleanup) /\ (\/ IsRunning(op) \/ op.phase # probe.phase
                                 \/ op.data # probe.data)
    BY <1>4, <1>6 DEF FinishProbe
  <1>7. CASE ~Busy(cleanup) /\ ~(\/ IsRunning(op) \/ op.phase # probe.phase
                                 \/ op.data # probe.data)
    <2>0. UseResult(r) /\ ~IsRunning(op) /\ task = None
      BY <1>7 DEF FinishProbe, FileInv, TaskRuns
    <2>1. CASE \/ InConflict /\ ~SameSource(r)
               \/ ~InConflict /\ SameSource(r) /\ ~PermitsSameSourceRecovery
      BY <1>2, <1>4, <2>0, <2>1 DEF UseResult, Types
    <2>2. ASSUME NEW o, op' = o, OpSound(o), IsRunning(o), NEW job,
                 threads' = [threads EXCEPT ![t] = job],
                 task' = t, probe' = NoProbe, UNCHANGED dirty,
                 Sound(t, job, o, t, None), job.purpose \notin {None, "Observe"},
                 InConflictWithData(o) => job.purpose = "Write" /\ job.draft = o.problem.draft
          PROVE  DraftInv'
      <3>1. \A u \in Threads : threads'[u] = IF u = t THEN job ELSE threads[u]
        BY <2>2 DEF FileInv, Shapes, AreThreads
      <3>2. \A u \in Threads : \/ /\ threads'[u] = threads[u]
                                  /\ ~(IsWrite(threads[u]) /\ threads[u].step # "Done")
                               \/ Sound(u, threads'[u], op', task', save')
        BY <1>1, <2>0, <2>2, <3>1, NobodyWrites
      <3>3. WaitersAreAlone' /\ ConflictTask'
        BY <1>1, <2>2, <3>1 DEF WaitersAreAlone, ConflictTask, NoProbe, InConflictWithData
      <3> QED
        BY <1>1, <1>2, <2>2, <3>2, <3>3, ForegroundKeepsDraftInv DEF Types
    <2>3. CASE InConflict /\ SameSource(r)
      <3>1. PICK job : job = WriteJob("Write", op.data, op.problem.draft)
        OBVIOUS
      <3>2. PICK o : o = Repair(op)
        OBVIOUS
      <3>3. /\ op' = o /\ task' = t /\ probe' = NoProbe /\ dirty' = dirty
            /\ threads' = [threads EXCEPT ![t] = job]
        BY <2>0, <2>3, <3>1, <3>2 DEF UseResult
      <3>4. op.problem.draft \in Values /\ op.phase # "Ready"
        BY <1>2, <2>3 DEF InConflict, OpSound, SoundProblem
      <3>5. /\ OpSound(o) /\ IsRunning(o)
            /\ o.data = op.data /\ o.problem = op.problem
        BY <1>2, <2>0, <3>2, <3>4, StartedIsSound
      <3>6. Sound(t, job, o, t, None)
        BY <3>1, <3>4, <3>5, WriteJobIsSound
      <3>7. job.purpose = "Write" /\ job.draft = op.problem.draft
        BY <3>1 DEF WriteJob, Job
      <3> QED
        BY <2>2, <3>3, <3>5, <3>6, <3>7, NoneIsApart
    <2>4. CASE ~InConflict /\ ~(SameSource(r) /\ ~PermitsSameSourceRecovery)
      <3>1. PICK job : job = [NoJob EXCEPT !.step = "Done", !.purpose = "Observed",
                                           !.result = r]
        OBVIOUS
      <3>2. PICK o : o = Observing(op)
        OBVIOUS
      <3>3. /\ op' = o /\ task' = t /\ probe' = NoProbe /\ dirty' = dirty
            /\ threads' = [threads EXCEPT ![t] = job]
        BY <2>0, <2>4, <3>1, <3>2 DEF UseResult
      <3>4. /\ OpSound(o) /\ IsRunning(o)
            /\ o.data = op.data /\ o.problem = op.problem
        BY <1>2, <2>0, <3>2, StartedIsSound
      <3>5. job = [step |-> "Done", purpose |-> "Observed", expected |-> None,
                   draft |-> None, intent |-> None, result |-> r]
        BY <3>1 DEF NoJob, Job
      <3>6. r.ok => r.value \in Values
        <4>1. SoundResult(r) /\ r # Ok(Missing)
          BY <1>1, <1>2 DEF Answer
        <4> HIDE DEF r
        <4> QED
          BY <4>1 DEF SoundResult, Ok, Err
      <3>7. Answer(job, r)
        BY <1>2, <3>5, <3>6 DEF Answer
      <3>8. Sound(t, job, o, t, None)
        BY <3>5, <3>7 DEF Sound, JobSound, IsJob, StepsOf, IsReplace, IsWrite, Intents, Holding
      <3>9. ~InConflictWithData(o)
        BY <1>2, <2>0, <2>4, <3>4
           DEF InConflictWithData, InConflict, OpSound, IsRunning, IsOperation, Phases
      <3>10. job.purpose \notin {None, "Observe"}
        BY <3>5, NoneIsApart
      <3> QED
        BY <2>2, <3>3, <3>4, <3>8, <3>9, <3>10
    <2> QED
      BY <2>1, <2>3, <2>4
  <1> QED
    BY <1>5, <1>6, <1>7

LEMMA CommitKeepsDraftInv ==
  ASSUME FileInv, DraftInv, NEW v \in Values, Commit(v)
  PROVE  DraftInv'
  <1>1. PICK job : job = WriteJob("Write", op.data, v)
    OBVIOUS
  <1>2. /\ save = None /\ Hands(job, Invalidated) /\ save' = FreeThread(Invalidated)
        /\ UNCHANGED <<op, task, file, backups, lock, unseen, cleanup>>
        /\ ~IsRunning(op)
    BY <1>1 DEF Commit, Asks, Foreground, diskVars, IsRunning
  <1>3. task = None
    BY <1>2 DEF FileInv, TaskRuns
  <1>4. /\ save' \in Threads /\ save' # None /\ probe' = NoProbe /\ dirty' = dirty
        /\ threads'[save'] = job
        /\ \A u \in Threads \ {save'} : threads'[u] = threads[u] \/ threads'[u] = NoJob
    BY <1>2, HandsGives
  <1>5. \A u \in Threads : u = save' => Sound(u, job, op', task', save')
    BY <1>1, <1>2, WriteJobIsSound
  <1>6. \A u \in Threads : \/ /\ threads'[u] = threads[u]
                              /\ ~(IsWrite(threads[u]) /\ threads[u].step # "Done")
                           \/ Sound(u, threads'[u], op', task', save')
    BY <1>2, <1>3, <1>4, <1>5, QuietIsSound, NobodyWrites
  <1>7. job.purpose = "Write"
    BY <1>1 DEF WriteJob, Job
  <1>8. WaitersAreAlone' /\ ConflictTask'
    BY <1>2, <1>3, <1>4, <1>7 DEF WaitersAreAlone, ConflictTask, NoProbe
  <1> QED
    BY <1>2, <1>4, <1>6, <1>8, ForegroundKeepsDraftInv DEF DraftInv, Types

\* The answer of those who wait is not that there is no file.
LEMMA WaitersGetValues ==
  ASSUME FileInv, DraftInv, NEW t \in {task, save}, t # None, threads[t].step = "Done"
  PROVE  /\ Answer(threads[t], threads[t].result)
         /\ SoundResult(threads[t].result)
         /\ threads[t].result.ok => threads[t].result.value \in Values
  BY DEF FileInv, Shapes, DraftInv, WaitersAreAlone, ThreadsSound, Sound, JobSound, Answer

\* A task or a commit is over.
LEMMA SettlingKeepsDraftInv ==
  ASSUME FileInv, DraftInv, NEW t \in {task, save}, t # None, threads[t].step = "Done",
         op' = Settled(op, threads[t].result),
         task = None \/ threads[task].step = "Done",
         save = None \/ threads[save].step = "Done",
         task' = None, save' = None,
         Consume(op', cleanup, [threads EXCEPT ![t] = NoJob], probe, dirty),
         UNCHANGED <<file, backups, lock, unseen, cleanup>>
  PROVE  DraftInv'
  <1> DEFINE closed == [threads EXCEPT ![t] = NoJob]
  <1>1. /\ AreThreads(closed)
        /\ \A u \in Threads : closed[u] = threads[u] \/ closed[u] = NoJob
    BY ThreadGetsJob, JobsArePending DEF FileInv, Shapes, AreThreads, IsPending
  <1>2. Consume(op', cleanup, closed, probe, dirty) /\ dirty \in BOOLEAN
    BY DEF DraftInv, Types
  <1> HIDE DEF closed
  <1>3. /\ dirty' \in BOOLEAN
        /\ \A u \in Threads : \/ threads'[u] = closed[u]
                              \/ closed[u] = NoJob /\ threads'[u] = ObserveJob
    BY <1>1, <1>2, ConsumeTakesAFreeThread
  <1>4. \A u \in Threads : \/ /\ threads'[u] = threads[u]
                              /\ ~(IsWrite(threads[u]) /\ threads[u].step # "Done")
                           \/ Sound(u, threads'[u], op', task', save')
    BY <1>1, <1>3, QuietIsSound, NobodyWrites
  <1>5. OpSound(op') /\ ~IsRunning(op')
    BY WaitersGetValues, SettledIsSound DEF DraftInv
  <1>6. WaitersAreAlone' /\ ConflictTask'
    BY DEF WaitersAreAlone, ConflictTask
  <1> QED
    BY <1>3, <1>4, <1>5, <1>6, ForegroundKeepsDraftInv DEF DraftInv, Types

LEMMA FinishKeepsDraftInv ==
  ASSUME FileInv, DraftInv, FinishCommit \/ CompleteTask
  PROVE  DraftInv'
  <1>1. CASE FinishCommit
    <2>1. /\ save # None /\ threads[save].step = "Done" /\ op.phase = "Ready"
          /\ op' = Settled(op, threads[save].result)
      BY <1>1 DEF FinishCommit, FileInv, CommitIsAlone, Settle
    <2>2. task = None
      BY <2>1 DEF FileInv, TaskRuns, IsRunning
    <2> QED
      BY <1>1, <2>1, <2>2, SettlingKeepsDraftInv DEF FinishCommit, diskVars
  <1>2. CASE CompleteTask
    <2>1. /\ task # None /\ threads[task].step = "Done" /\ save = None
          /\ op' = Settled(op, threads[task].result)
      BY <1>2 DEF CompleteTask, FileInv, TaskRuns, Complete, Foreground
    <2> QED
      BY <1>2, <2>1, SettlingKeepsDraftInv DEF CompleteTask, diskVars
  <1> QED
    BY <1>1, <1>2

\* The job of a repair carries the configuration of the problem, and in a
\* conflict it backs up what there is.
LEMMA RepairJobIsSound ==
  ASSUME NEW o, OpSound(o), o.problem # None,
         NEW repair \in {"RetryWrite", "CreateDefault", "OverwritePending"},
         Supports(o.problem, repair), NEW t
  PROVE  LET job == RepairJob(o.problem, o.data, repair) IN
         /\ Sound(t, job, o, t, None)
         /\ job.purpose \notin {None, "Observe"}
         /\ InConflictWithData(o) => job.purpose = "BackUp"
  <1>1. SoundProblem(o.problem)
    BY DEF OpSound
  <1>2. ASSUME NEW d \in Values, NEW job, job = Job("Read", "BackUp", None, d, repair),
               repair # "RetryWrite"
        PROVE  Sound(t, job, o, t, None) /\ job.purpose = "BackUp"
    BY <1>2 DEF Job, Sound, JobSound, IsJob, StepsOf, Loading, IsReplace, IsWrite, Intents,
                Holding
  <1>3. CASE repair = "CreateDefault"
    BY <1>2, <1>3, ConstantsAreApart, NoneIsApart DEF RepairJob
  <1>4. CASE repair = "OverwritePending"
    <2>1. o.problem.draft \in Values
      BY <1>1, <1>4 DEF Supports, SoundProblem
    <2> QED
      BY <1>2, <1>4, <2>1, NoneIsApart DEF RepairJob
  <1>5. CASE repair = "RetryWrite"
    <2>1. /\ o.problem.draft \in Values /\ ~InConflictWithData(o)
      BY <1>1, <1>5 DEF Supports, SoundProblem, InConflictWithData
    <2>2. ASSUME NEW e \in {Missing, o.data}, NEW job,
                 job = WriteJob("Write", e, o.problem.draft)
          PROVE  Sound(t, job, o, t, None) /\ job.purpose = "Write"
      <3>1. Sound(t, job, o, t, None)
        BY <2>1, <2>2, WriteJobIsSound
      <3>2. job.purpose = "Write"
        BY <2>2 DEF WriteJob, Job
      <3> QED
        BY <3>1, <3>2
    <2>3. CASE o.data = None
      BY <1>5, <2>1, <2>2, <2>3, NoneIsApart DEF RepairJob
    <2>4. CASE o.data # None /\ o.problem.kind # "WriteAfterBackup"
      BY <1>5, <2>1, <2>2, <2>4, NoneIsApart DEF RepairJob
    <2>5. CASE o.data # None /\ o.problem.kind = "WriteAfterBackup"
      <3>1. PICK job : job = [step |-> "Lock", purpose |-> "WriteAgain",
                              expected |-> o.data, draft |-> o.problem.draft,
                              intent |-> "OverwritePending", result |-> None]
        OBVIOUS
      <3>2. RepairJob(o.problem, o.data, repair) = job
        BY <1>5, <2>5, <3>1 DEF RepairJob, WriteJob, Job
      <3>3. Sound(t, job, o, t, None) /\ job.purpose = "WriteAgain"
        BY <2>1, <3>1
           DEF Sound, JobSound, IsJob, StepsOf, IsReplace, IsWrite, Intents, Holding
      <3> QED
        BY <2>1, <3>2, <3>3, NoneIsApart
    <2> QED
      BY <2>3, <2>4, <2>5
  <1> QED
    BY <1>3, <1>4, <1>5

LEMMA RequestsKeepDraftInv ==
  ASSUME FileInv, DraftInv,
         RequestReload \/ \E repair \in {"RetryWrite", "CreateDefault", "OverwritePending"} :
                             RequestRepair(repair)
  PROVE  DraftInv'
  <1>0. save = None /\ OpSound(op) /\ asks' = asks + 1
    BY DEF RequestReload, RequestRepair, Asks, Foreground, DraftInv
  <1>1. CASE RequestReload /\ Busy(cleanup)
    <2>1. dirty' = TRUE /\ UNCHANGED <<file, backups, lock, threads, unseen, op, task, save,
                                       probe, cleanup>>
      BY <1>1 DEF RequestReload, diskVars, storeVars
    <2>2. WaitersAreAlone' /\ ConflictTask'
      BY <2>1, WaitersStay DEF DraftInv, WaitersAreAlone
    <2> QED
      BY <2>1, <2>2, ForegroundKeepsDraftInv DEF DraftInv, Types
  <1>2. CASE RequestReload /\ ~Busy(cleanup)
    <2>1. PICK o : o = IF op.phase = "Ready" THEN Refresh(op) ELSE Repair(op)
      OBVIOUS
    <2>2. Starts(o, LoadJob) /\ ~IsRunning(op)
      BY <1>2, <2>1 DEF RequestReload
    <2>3. OpSound(o) /\ task = None
      BY <1>0, <2>1, <2>2, StartedIsSound DEF FileInv, TaskRuns
    <2>4. LoadJob.purpose \in {"Load", "BackUp"} /\ LoadJob.purpose \notin {None, "Observe"}
      BY NoneIsApart DEF LoadJob, Job
    <2>5. \A t \in Threads : Sound(t, LoadJob, o, t, None)
      BY QuietIsSound
    <2> QED
      BY <1>0, <2>2, <2>3, <2>4, <2>5, StartsKeepsDraftInv
  <1>3. ASSUME NEW repair \in {"RetryWrite", "CreateDefault", "OverwritePending"},
               RequestRepair(repair)
        PROVE  DraftInv'
    <2>1. PICK o : o = Repair(op)
      OBVIOUS
    <2>2. PICK job : job = RepairJob(op.problem, op.data, repair)
      OBVIOUS
    <2>3. /\ Starts(o, job) /\ Supports(op.problem, repair) /\ ~IsRunning(op)
          /\ op.phase # "Ready" /\ op.problem # None
      BY <1>0, <1>3, <2>1, <2>2 DEF RequestRepair, OpSound, IsRunning
    <2>4. /\ OpSound(o) /\ o.data = op.data /\ o.problem = op.problem /\ task = None
      BY <1>0, <2>1, <2>3, StartedIsSound DEF FileInv, TaskRuns
    <2>5. /\ \A t \in Threads : Sound(t, job, o, t, None)
          /\ job.purpose \notin {None, "Observe"}
          /\ InConflictWithData(o) => job.purpose = "BackUp"
      <3>1. job = RepairJob(o.problem, o.data, repair)
        BY <2>2, <2>4
      <3> QED
        BY <2>3, <2>4, <3>1, RepairJobIsSound, ConstantsAreApart
    <2> QED
      BY <1>0, <2>3, <2>4, <2>5, StartsKeepsDraftInv
  <1> QED
    BY <1>1, <1>2, <1>3

LEMMA OthersKeepDraftInv ==
  ASSUME FileInv, DraftInv,
         \/ ScheduleCleanup \/ FinishCleanup
         \/ \E content \in Contents \cup {Missing} : Edit(content)
         \/ UNCHANGED vars
  PROVE  DraftInv'
  <1>1. CASE FinishCleanup
    <2>1. /\ UNCHANGED <<file, backups, lock, unseen, op, task, save>>
          /\ cleanup' \in {"Idle", "Running", "Queued"}
          /\ Consume(op, cleanup', threads, probe, dirty)
          /\ AreThreads(threads)
      BY <1>1 DEF FinishCleanup, diskVars, storeVars, FileInv, Shapes
    <2> QED
      BY <2>1, ConsumeKeepsDraftInv DEF DraftInv, Types
  <1>2. CASE ~FinishCleanup
    <2>1. /\ UNCHANGED <<backups, lock, threads, op, task, save, dirty, probe>>
          /\ file' \in Contents \cup {Missing} /\ unseen' \in BOOLEAN
          /\ cleanup' \in {"Idle", "Running", "Queued"}
      BY <1>2 DEF ScheduleCleanup, Edit, vars, diskVars, storeVars, probeVars, DraftInv, Types
    <2>2. WaitersAreAlone' /\ ConflictTask'
      BY <2>1, WaitersStay DEF DraftInv, WaitersAreAlone
    <2> QED
      BY <2>1, <2>2, ForegroundKeepsDraftInv DEF DraftInv, Types
  <1> QED
    BY <1>1, <1>2

-----------------------------------------------------------------------------
(* The invariant *)

LEMMA InitIsDraftInv == Init => DraftInv
  <1> SUFFICES ASSUME Init PROVE DraftInv
    OBVIOUS
  <1>1. /\ task = None /\ save = None
        /\ \A t \in Threads : threads[t] \in {NoJob, ObserveJob}
    BY DEF Init
  <1>2. ThreadsSound
    BY <1>1, QuietIsSound DEF ThreadsSound
  <1>3. OpSound(op) /\ ~IsRunning(op)
    <2>1. OpSound([Idle EXCEPT !.phase = "Ready"])
      BY DEF OpSound, IsOperation, Idle, Operation, Phases, Drafts
    <2>2. \A r : Settle(Idle, r) = Settled([Idle EXCEPT !.phase = "Ready"], r)
      BY DEF Settle, Settled, Idle, Operation
    <2>3. PICK r : op = Settle(Idle, r) /\ SoundResult(r) /\ (r.ok => r.value \in Values)
      <3>1. CASE op = Settle(Idle, Decoded(file))
        <4>1. Answer(NoJob, Decoded(file))
          BY DecodedAnswers, QuietJobsAreSound
        <4>2. Decoded(file).ok => Decoded(file).value \in Values
          BY DEF Decoded, Ok, Err
        <4> QED
          BY <3>1, <4>1, <4>2 DEF Answer
      <3>2. CASE \E kind \in {"Read", "Locked"} :
                   op = Settle(Idle, Err(Problem(kind, IF kind = "Locked" THEN Default ELSE None,
                                                 None)))
        <4>1. PICK kind \in {"Read", "Locked"} :
                op = Settle(Idle, Err(Problem(kind, IF kind = "Locked" THEN Default ELSE None,
                                              None)))
          BY <3>2
        <4>2. SoundProblem(Problem(kind, IF kind = "Locked" THEN Default ELSE None, None))
          BY ConstantsAreApart DEF SoundProblem, Problem, Problems, Kinds, Drafts
        <4> QED
          BY <4>1, <4>2 DEF SoundResult, Err
      <3> QED
        BY <3>1, <3>2 DEF Init
    <2> QED
      BY <2>1, <2>2, <2>3, SettledIsSound
  <1>4. WaitersAreAlone /\ ConflictTask
    BY <1>1 DEF WaitersAreAlone, ConflictTask
  <1>5. Types
    BY <1>3 DEF Init, Types
  <1> QED
    BY <1>2, <1>3, <1>4, <1>5 DEF DraftInv

LEMMA WorkMoves ==
  ASSUME FileInv, DraftInv, NEW t \in Threads, Works(t) \/ Fails(t)
  PROVE  Moves(t) /\ OnDisk(t)
  BY LoadingMoves, ReplacingMoves, FailureMoves DEF Works, FileInv

LEMMA StepKeepsDraftInv == FileInv /\ DraftInv /\ [Next]_vars => DraftInv'
  <1> SUFFICES ASSUME FileInv, DraftInv, [Next]_vars PROVE DraftInv'
    OBVIOUS
  <1>1. CASE \E t \in Threads : Works(t) \/ Fails(t)
    BY <1>1, WorkMoves, MovesKeepDraftInv
  <1>2. CASE OnDirty \/ ConfirmMissing \/ FinishProbe
    BY <1>2, OnDirtyKeepsDraftInv, ConfirmMissingKeepsDraftInv, FinishProbeKeepsDraftInv
  <1>3. CASE \E v \in Values : Commit(v)
    BY <1>3, CommitKeepsDraftInv
  <1>4. CASE FinishCommit \/ CompleteTask
    BY <1>4, FinishKeepsDraftInv
  <1>5. CASE \/ RequestReload
             \/ \E repair \in {"RetryWrite", "CreateDefault", "OverwritePending"} :
                  RequestRepair(repair)
    BY <1>5, RequestsKeepDraftInv
  <1>6. CASE \/ ScheduleCleanup \/ FinishCleanup
             \/ \E content \in Contents \cup {Missing} : Edit(content)
             \/ UNCHANGED vars
    BY <1>6, OthersKeepDraftInv
  <1> QED
    BY <1>1, <1>2, <1>3, <1>4, <1>5, <1>6 DEF Next

\* The inductive invariant of jobs, drafts and types holds in every state.
THEOREM DraftInvHolds == Spec => []DraftInv
  <1> QED
    BY InitIsDraftInv, StepKeepsDraftInv, FileInvHolds, PTL DEF Spec

\* Every variable of the configuration file keeps its type.
THEOREM TypeCorrect == Spec => []TypeOK
  <1>1. FileInv /\ DraftInv => TypeOK
    <2> SUFFICES ASSUME FileInv, DraftInv PROVE TypeOK
      OBVIOUS
    <2>1. /\ Types
          /\ op.phase \in Phases /\ op.data \in Drafts
          /\ op.problem \in Problems \cup {None}
      BY DEF DraftInv, OpSound, IsOperation, SoundProblem
    <2>2. (task # None) = IsRunning(op)
      BY <2>1 DEF Types, FileInv, TaskRuns, IsRunning
    <2>3. probe.thread \in Threads \cup {None}
      BY DEF FileInv, Shapes, NoProbe
    <2> QED
      BY <2>1, <2>2, <2>3 DEF TypeOK, Types, FileInv, Shapes
  <1> QED
    BY <1>1, FileInvHolds, DraftInvHolds, PTL

-----------------------------------------------------------------------------
(* Drafts *)

\* A conflict keeps its draft until it is written or the user asks for
\* something else.
THEOREM DraftsAreKept == Spec => ConflictKeepsItsDraft
  <1>1. FileInv /\ DraftInv /\ [Next]_vars =>
          [ InConflictWithData(op) /\ op'.problem # op.problem =>
              \/ op' = Ready(op.problem.draft)
              \/ op'.problem # None /\ op'.problem.draft = op.problem.draft
              \/ task # None /\ threads[task].purpose \in {"Load", "BackUp"} ]_vars
    <2> SUFFICES ASSUME FileInv, DraftInv, [Next]_vars,
                        InConflictWithData(op), op'.problem # op.problem
                 PROVE  \/ op' = Ready(op.problem.draft)
                        \/ op'.problem # None /\ op'.problem.draft = op.problem.draft
                        \/ task # None /\ threads[task].purpose \in {"Load", "BackUp"}
      OBVIOUS
    <2>0. OpSound(op) /\ op.phase \notin {"Ready", "Refreshing"}
      BY DEF DraftInv, OpSound, InConflictWithData
    <2>1. CASE CompleteTask
      <3> DEFINE r == threads[task].result
      <3>1. /\ task # None /\ threads[task].step = "Done" /\ op' = Settled(op, r)
        BY <2>1 DEF CompleteTask, Complete, FileInv, TaskRuns
      <3>2. \/ threads[task].purpose \in {"Load", "BackUp"}
            \/ threads[task].purpose = "Write" /\ threads[task].draft = op.problem.draft
        BY <3>1 DEF DraftInv, ConflictTask
      <3>3. CASE threads[task].purpose = "Write" /\ threads[task].draft = op.problem.draft
        <4>1. /\ SoundResult(r)
              /\ r.ok => r.value = op.problem.draft
              /\ ~r.ok => r.value.draft = op.problem.draft
          BY <3>1, <3>3, WaitersGetValues DEF Answer
        <4>2. CASE r.ok
          BY <3>1, <4>1, <4>2 DEF Settled
        <4>3. CASE ~r.ok
          <5>1. r.value # None
            BY <4>1, <4>3, NoneIsApart DEF SoundResult, Ok, SoundProblem
          <5>2. op'.problem = r.value
            BY <3>1, <4>3 DEF Settled, Unavailable, Degraded, Operation
          <5> QED
            BY <4>1, <4>3, <5>1, <5>2
        <4> QED
          BY <4>2, <4>3
      <3> QED
        BY <3>1, <3>2, <3>3
    <2>2. CASE ~CompleteTask
      <3>1. FALSE
        <4>1. CASE \E t \in Threads : Works(t) \/ Fails(t)
          BY <4>1, WorkMoves DEF Moves
        <4>2. CASE FinishCommit
          BY <2>0, <4>2 DEF FileInv, CommitIsAlone, FinishCommit
        <4>3. CASE FinishProbe
          <5>1. op' = op \/ op' = Repair(op) \/ op' = Observing(op)
            BY <4>3 DEF FinishProbe, UseResult
          <5>2. op' = op \/ ~IsRunning(op)
            BY <4>3 DEF FinishProbe
          <5> QED
            BY <2>0, <5>1, <5>2, StartedIsSound
        <4>4. CASE \/ RequestReload
                   \/ \E repair \in {"RetryWrite", "CreateDefault", "OverwritePending"} :
                        RequestRepair(repair)
          <5>1. op' = op \/ (~IsRunning(op) /\ op' = Repair(op))
            BY <2>0, <4>4 DEF RequestReload, RequestRepair, Starts, storeVars, IsRunning
          <5> QED
            BY <2>0, <5>1, StartedIsSound
        <4>5. CASE op' = op
          BY <4>5
        <4> QED
          BY <2>2, <4>1, <4>2, <4>3, <4>4, <4>5
             DEF Next, OnDirty, ConfirmMissing, Commit, ScheduleCleanup, FinishCleanup, Edit,
                 vars, storeVars
      <3> QED
        BY <3>1
    <2> QED
      BY <2>1, <2>2
  <1> QED
    BY <1>1, FileInvHolds, DraftInvHolds, PTL DEF Spec, ConflictKeepsItsDraft

-----------------------------------------------------------------------------
(* Replacements *)

\* No job starts at the rename.
LEMMA JobsStartBeforeTheGap ==
  /\ \A j \in {NoJob, ObserveJob, LoadJob} : j.step # "Rename"
  /\ \A purpose, e, v : WriteJob(purpose, e, v).step # "Rename"
  /\ \A problem, data :
       \A repair \in {"RetryWrite", "CreateDefault", "OverwritePending"} :
         RepairJob(problem, data, repair).step # "Rename"
  <1>1. /\ \A j \in {NoJob, ObserveJob, LoadJob} : j.step # "Rename"
        /\ \A purpose, e, v : WriteJob(purpose, e, v).step # "Rename"
    BY NoneIsApart DEF NoJob, ObserveJob, LoadJob, WriteJob, Job
  <1>2. ASSUME NEW problem, NEW data,
               NEW repair \in {"RetryWrite", "CreateDefault", "OverwritePending"}
        PROVE  RepairJob(problem, data, repair).step # "Rename"
    <2>1. CASE repair # "RetryWrite"
      BY <2>1 DEF RepairJob, Job
    <2>2. CASE repair = "RetryWrite" /\ (data = None \/ problem.kind # "WriteAfterBackup")
      BY <1>1, <2>2 DEF RepairJob
    <2>3. CASE repair = "RetryWrite" /\ data # None /\ problem.kind = "WriteAfterBackup"
      BY <2>3 DEF RepairJob, WriteJob, Job
    <2> QED
      BY <2>1, <2>2, <2>3
  <1> QED
    BY <1>1, <1>2

LEMMA GoesTo ==
  ASSUME Shapes, NEW t \in Threads, NEW step, threads' = [threads EXCEPT ![t].step = step]
  PROVE  threads'[t].step = step /\ threads'[t].expected = threads[t].expected
  BY DEF Shapes, AreThreads, IsJob

LEMMA EndsBeyondTheGap ==
  ASSUME Shapes, NEW t \in Threads, NEW r, Ends(t, r) \/ Loaded(t, r)
  PROVE  threads'[t].step # "Rename"
  <1>1. CASE Ends(t, r)
    <2> DEFINE done == [threads[t] EXCEPT !.step = "Done", !.result = r]
    <2>1. done.step = "Done"
      BY DEF Shapes, AreThreads, IsJob
    <2>2. threads'[t] = done \/ threads'[t] = NoJob
      BY <1>1 DEF Ends, Shapes, AreThreads
    <2>3. NoJob.step # "Rename"
      BY JobsStartBeforeTheGap
    <2> HIDE DEF done
    <2>4. CASE threads'[t] = done
      BY <2>1, <2>4
    <2>5. CASE threads'[t] = NoJob
      BY <2>3, <2>5
    <2> QED
      BY <2>2, <2>4, <2>5
  <1>2. CASE threads' = [threads EXCEPT ![t].step = "Original"]
    <2>1. threads'[t].step = "Original"
      BY <1>2, GoesTo
    <2> QED
      BY <2>1
  <1> QED
    BY <1>1, <1>2 DEF Loaded

\* A thread comes to the rename from a comparison, or expecting no file; and
\* only from there, or by creating it, it changes the file.
LEMMA GapIsEntered ==
  ASSUME Shapes, DraftInv, NEW t \in Threads, Works(t) \/ Fails(t)
  PROVE  /\ threads'[t].step = "Rename" =>
              \/ threads'[t].expected = Missing
              \/ file' = file /\ threads'[t].expected = file
         /\ file' = file \/ file = Missing
                         \/ (threads[t].step = "Rename" /\ threads[t].expected # Missing)
  <1> DEFINE Entered == threads'[t].step = "Rename" =>
                          \/ threads'[t].expected = Missing
                          \/ file' = file /\ threads'[t].expected = file
             Changed == file' = file \/ file = Missing
                          \/ (threads[t].step = "Rename" /\ threads[t].expected # Missing)
  <1>1. ASSUME NEW step, step # "Rename", Goes(t, step) PROVE Entered
    BY <1>1, GoesTo DEF Goes
  <1>2. ASSUME NEW r, Ends(t, r) \/ Loaded(t, r) PROVE Entered
    BY <1>2, EndsBeyondTheGap
  <1>3. CASE Observe(t) \/ Created(t) \/ Reread(t) \/ Verify(t)
    <2>1. \E r : Ends(t, r) \/ Loaded(t, r)
      BY <1>3 DEF Observe, Created, Reread, Verify
    <2> QED
      BY <1>2, <1>3, <2>1 DEF Observe, Created, Reread, Verify, Touches
  <1>4. CASE Read(t)
    <2>1. Goes(t, "Create") \/ \E r : Loaded(t, r)
      BY <1>4 DEF Read
    <2> QED
      BY <1>1, <1>2, <1>4, <2>1 DEF Read, Touches
  <1>5. CASE Create(t)
    <2>1. \/ \E r : Loaded(t, r)
          \/ Goes(t, "Reread")
          \/ threads' = [threads EXCEPT ![t].step = "Created"]
      BY <1>5 DEF Create
    <2>2. Entered
      BY <1>1, <1>2, <2>1, GoesTo
    <2>3. file' = file \/ file = Missing
      BY <1>5 DEF Create, Touches
    <2> QED
      BY <2>2, <2>3
  <1>6. CASE Original(t)
    <2>1. \/ \E r : Ends(t, r)
          \/ threads' = [threads EXCEPT ![t].step = "Recheck", ![t].expected = file]
      BY <1>6 DEF Original
    <2>2. CASE threads' = [threads EXCEPT ![t].step = "Recheck", ![t].expected = file]
      BY <2>2, <1>6 DEF Original, Shapes, AreThreads, IsJob
    <2> QED
      BY <1>2, <1>6, <2>1, <2>2 DEF Original
  <1>7. CASE Recheck(t)
    <2>1. Goes(t, "Compare") \/ \E r : Ends(t, r)
      BY <1>7 DEF Recheck
    <2> QED
      BY <1>1, <1>2, <1>7, <2>1 DEF Recheck, Touches
  <1>8. CASE Lock(t)
    <2>1. CASE lock # None
      <3>1. \E r : Ends(t, r)
        BY <1>8, <2>1 DEF Lock
      <3> QED
        BY <1>2, <1>8, <3>1 DEF Lock, Touches
    <2>2. CASE lock = None
      <3>1. PICK step : step = IF threads[t].expected = Missing THEN "Rename" ELSE "Compare"
        OBVIOUS
      <3>2. threads' = [threads EXCEPT ![t].step = step]
        BY <1>8, <2>2, <3>1 DEF Lock
      <3> QED
        BY <1>8, <3>1, <3>2, GoesTo DEF Lock, Touches
    <2> QED
      BY <2>1, <2>2
  <1>9. CASE Compare(t)
    <2>1. CASE file = threads[t].expected
      BY <1>9, <2>1, GoesTo DEF Compare, Goes, Touches
    <2>2. CASE file # threads[t].expected
      <3>1. \E r : Ends(t, r)
        BY <1>9, <2>2 DEF Compare
      <3> QED
        BY <1>2, <1>9, <3>1 DEF Compare, Touches
    <2> QED
      BY <2>1, <2>2
  <1>10. CASE Rename(t)
    <2>1. CASE threads[t].expected = Missing /\ file # Missing
      <3>1. (\E r : Ends(t, r)) /\ file' = file
        BY <1>10, <2>1 DEF Rename
      <3> QED
        BY <1>2, <3>1
    <2>2. CASE ~(threads[t].expected = Missing /\ file # Missing)
      <3>1. Goes(t, "Verify") /\ threads[t].step = "Rename"
        BY <1>10, <2>2 DEF Rename
      <3> QED
        BY <1>1, <2>2, <3>1
    <2> QED
      BY <2>1, <2>2
  <1>11. CASE Fails(t)
    <2>1. \E r : Ends(t, r) \/ Loaded(t, r)
      BY <1>11 DEF Fails
    <2> QED
      BY <1>2, <1>11, <2>1 DEF Fails, Touches
  <1> QED
    BY <1>3, <1>4, <1>5, <1>6, <1>7, <1>8, <1>9, <1>10, <1>11 DEF Works

\* Foreground steps take no thread to the rename.
LEMMA HandsOutsideTheGap ==
  ASSUME FileInv, NEW job, job.step # "Rename", Hands(job, Invalidated), NEW u \in Threads
  PROVE  threads'[u].step = "Rename" => threads'[u] = threads[u]
  BY HandsGives, JobsStartBeforeTheGap

LEMMA ConsumeOutsideTheGap ==
  ASSUME FileInv, DraftInv, NEW ths, AreThreads(ths),
         \A u \in Threads : ths[u] = threads[u] \/ ths[u] = NoJob,
         NEW o, NEW c, NEW p, NEW d \in BOOLEAN, Consume(o, c, ths, p, d), NEW u \in Threads
  PROVE  threads'[u].step = "Rename" => threads'[u] = threads[u]
  BY ConsumeTakesAFreeThread, JobsStartBeforeTheGap

LEMMA ForegroundOutsideTheGap ==
  ASSUME FileInv, DraftInv, [Next]_vars, ~(\E t \in Threads : Works(t) \/ Fails(t)),
         NEW u \in Threads
  PROVE  threads'[u].step = "Rename" => threads'[u] = threads[u]
  <1>0. AreThreads(threads) /\ dirty \in BOOLEAN
    BY DEF FileInv, Shapes, DraftInv, Types
  <1>1. ASSUME NEW t
        PROVE  /\ AreThreads([threads EXCEPT ![t] = NoJob])
               /\ \A w \in Threads : \/ [threads EXCEPT ![t] = NoJob][w] = threads[w]
                                     \/ [threads EXCEPT ![t] = NoJob][w] = NoJob
    BY <1>0, ThreadGetsJob, JobsArePending DEF AreThreads, IsPending
  <1>2. CASE OnDirty
    <2>1. UNCHANGED threads \/ StartProbe(op, threads)
      BY <1>2 DEF OnDirty
    <2> QED
      BY <1>0, <2>1, ProbeTakesAFreeThread, JobsStartBeforeTheGap
  <1>3. CASE ConfirmMissing
    BY <1>0, <1>3, JobsStartBeforeTheGap DEF ConfirmMissing, AreThreads
  <1>4. CASE FinishProbe
    <2> DEFINE closed == [threads EXCEPT ![probe.thread] = NoJob]
    <2>1. \/ \E job : job.step # "Rename" /\ threads' = [threads EXCEPT ![probe.thread] = job]
          \/ \E d \in BOOLEAN : Consume(op, cleanup, closed, NoProbe, d)
      <3>1. ASSUME NEW r, NEW job,
                   job = [NoJob EXCEPT !.step = "Done", !.purpose = "Observed", !.result = r]
            PROVE  job.step # "Rename"
        <4>1. job = [step |-> "Done", purpose |-> "Observed", expected |-> None,
                     draft |-> None, intent |-> None, result |-> r]
          BY <3>1 DEF NoJob, Job
        <4> QED
          BY <4>1
      <3>2. CASE \E r : UseResult(r)
        <4>1. PICK r : UseResult(r)
          BY <3>2
        <4>2. PICK job : job = [NoJob EXCEPT !.step = "Done", !.purpose = "Observed",
                                             !.result = r]
          OBVIOUS
        <4>3. PICK write : write = WriteJob("Write", op.data, op.problem.draft)
          OBVIOUS
        <4>4. \/ threads' = [threads EXCEPT ![probe.thread] = write]
              \/ Consume(op, cleanup, closed, NoProbe, dirty)
              \/ threads' = [threads EXCEPT ![probe.thread] = job]
          BY <4>1, <4>2, <4>3 DEF UseResult
        <4>5. job.step # "Rename" /\ write.step # "Rename"
          BY <3>1, <4>2, <4>3, JobsStartBeforeTheGap
        <4> HIDE DEF closed
        <4> QED
          BY <1>0, <4>4, <4>5
      <3>3. CASE ~(\E r : UseResult(r))
        BY <1>4, <3>3, JobsStartBeforeTheGap DEF FinishProbe
      <3> QED
        BY <3>2, <3>3
    <2>2. CASE \E d \in BOOLEAN : Consume(op, cleanup, closed, NoProbe, d)
      <3>1. AreThreads(closed) /\ \A w \in Threads : closed[w] = threads[w] \/ closed[w] = NoJob
        BY <1>1
      <3> HIDE DEF closed
      <3> QED
        BY <2>2, <3>1, ConsumeOutsideTheGap
    <2>3. ASSUME NEW job, job.step # "Rename",
                 threads' = [threads EXCEPT ![probe.thread] = job]
          PROVE  threads'[u].step = "Rename" => threads'[u] = threads[u]
      BY <1>0, <2>3 DEF AreThreads
    <2> QED
      BY <2>1, <2>2, <2>3
  <1>5. CASE \E v \in Values : Commit(v)
    BY <1>5, HandsOutsideTheGap, JobsStartBeforeTheGap DEF Commit
  <1>6. CASE FinishCommit \/ CompleteTask
    <2>1. PICK t : Consume(op', cleanup, [threads EXCEPT ![t] = NoJob], probe, dirty)
      BY <1>6 DEF FinishCommit, CompleteTask
    <2>2. PICK ths : ths = [threads EXCEPT ![t] = NoJob]
      OBVIOUS
    <2>3. /\ AreThreads(ths) /\ \A w \in Threads : ths[w] = threads[w] \/ ths[w] = NoJob
          /\ Consume(op', cleanup, ths, probe, dirty)
      BY <1>1, <2>1, <2>2
    <2> QED
      BY <1>0, <2>3, ConsumeOutsideTheGap
  <1>7. CASE \/ RequestReload
             \/ \E repair \in {"RetryWrite", "CreateDefault", "OverwritePending"} :
                  RequestRepair(repair)
    <2>1. UNCHANGED threads \/ \E job : job.step # "Rename" /\ Hands(job, Invalidated)
      BY <1>7, JobsStartBeforeTheGap DEF RequestReload, RequestRepair, Starts
    <2> QED
      BY <2>1, HandsOutsideTheGap
  <1>8. CASE FinishCleanup
    BY <1>0, <1>8, ConsumeOutsideTheGap DEF FinishCleanup
  <1>9. CASE UNCHANGED threads
    BY <1>9
  <1> QED
    BY <1>2, <1>3, <1>4, <1>5, <1>6, <1>7, <1>8, <1>9 DEF Next, ScheduleCleanup, Edit, vars

\* Only blocking work and others change the file, and others are counted.
LEMMA WhoChangesTheFile ==
  ASSUME [Next]_vars, ~(\E t \in Threads : Works(t) \/ Fails(t))
  PROVE  \/ UNCHANGED <<file, edits>>
         \/ (GapEdits \/ ~AtTheGap) /\ edits' = edits + 1
  <1>1. CASE \E content \in Contents \cup {Missing} : Edit(content)
    BY <1>1 DEF Edit
  <1>2. CASE ~(\E content \in Contents \cup {Missing} : Edit(content))
    BY <1>2 DEF Next, OnDirty, ConfirmMissing, FinishProbe, Commit, FinishCommit, RequestReload,
                RequestRepair, Starts, CompleteTask, ScheduleCleanup, FinishCleanup, Asks, vars,
                diskVars, boundVars
  <1> QED
    BY <1>1, <1>2

GapInv == GapIsClosed /\ edits \in Nat

LEMMA InitIsGapInv == Init => GapInv
  BY JobsStartBeforeTheGap DEF Init, GapInv, GapIsClosed

\* A comparison holds until the rename, for the lock keeps this Jaco out and
\* nobody else writes in the gap.
LEMMA StepKeepsGapInv ==
  ~GapEdits => (FileInv /\ DraftInv /\ GapInv /\ [Next]_vars => GapInv')
  <1> SUFFICES ASSUME ~GapEdits, FileInv, DraftInv, GapInv, [Next]_vars PROVE GapInv'
    OBVIOUS
  <1>1. CASE \E t \in Threads : Works(t) \/ Fails(t)
    <2>1. PICK t \in Threads : Works(t) \/ Fails(t)
      BY <1>1
    <2>2. edits' = edits
      BY <2>1
         DEF Works, Fails, JobFrame, Observe, Read, Create, Created, Reread, Original, Recheck,
             Lock, Compare, Rename, Verify
    <2>3. ASSUME NEW u \in Threads, threads'[u].step = "Rename",
                 threads'[u].expected # Missing
          PROVE  file' = threads'[u].expected
      <3>1. CASE u = t
        BY <2>1, <2>3, <3>1, GapIsEntered DEF FileInv
      <3>2. CASE u # t
        <4>1. Moves(t) /\ OnDisk(t)
          BY <2>1, WorkMoves
        <4>2. threads'[u] = threads[u]
          BY <3>2, <4>1 DEF Moves, FileInv, Shapes, AreThreads
        <4>3. lock = u
          BY <2>3, <4>2 DEF DraftInv, ThreadsSound, Sound, Holding
        <4>4. file' = file
          BY <3>2, <4>1, <4>3, ConstantsAreApart DEF OnDisk
        <4> QED
          BY <2>3, <4>2, <4>4 DEF GapInv, GapIsClosed
      <3> QED
        BY <3>1, <3>2
    <2> QED
      BY <2>2, <2>3 DEF GapInv, GapIsClosed
  <1>2. CASE ~(\E t \in Threads : Works(t) \/ Fails(t))
    <2>1. \A u \in Threads : threads'[u].step = "Rename" => threads'[u] = threads[u]
      BY <1>2, ForegroundOutsideTheGap
    <2>2. \/ UNCHANGED <<file, edits>>
          \/ ~AtTheGap /\ edits' = edits + 1
      BY <1>2, WhoChangesTheFile
    <2> QED
      BY <2>1, <2>2 DEF GapInv, GapIsClosed, AtTheGap
  <1> QED
    BY <1>1, <1>2

\* What is replaced was seen by the store or is backed up, as long as nobody
\* else writes in the gap between a comparison and its rename.
THEOREM ReplacementsAreSafe == ~GapEdits => (Spec => OnlyTheSeenOrBackedUpIsReplaced)
  <1> SUFFICES ASSUME ~GapEdits PROVE Spec => OnlyTheSeenOrBackedUpIsReplaced
    OBVIOUS
  <1>1. FileInv /\ DraftInv /\ GapInv /\ [Next]_vars => GapInv'
    BY StepKeepsGapInv
  <1>2. FileInv /\ DraftInv /\ GapInv /\ [Next]_vars =>
          [ file' # file /\ edits' = edits => file \in {Missing, op.data} \cup backups ]_vars
    <2> SUFFICES ASSUME FileInv, DraftInv, GapInv, [Next]_vars, file' # file, edits' = edits
                 PROVE  file \in {Missing, op.data} \cup backups
      OBVIOUS
    <2>1. PICK t \in Threads : Works(t) \/ Fails(t)
      BY WhoChangesTheFile DEF GapInv
    <2>2. CASE file = Missing
      BY <2>2
    <2>3. CASE threads[t].step = "Rename" /\ threads[t].expected # Missing
      <3>1. file = threads[t].expected
        BY <2>3 DEF GapInv, GapIsClosed
      <3>2. IsReplace(threads[t])
        BY <2>3, StepTellsPurpose DEF DraftInv, ThreadsSound, Sound, JobSound, Replacing
      <3> QED
        BY <2>3, <3>1, <3>2 DEF DraftInv, ThreadsSound, Sound, IsReplace
    <2> QED
      BY <2>1, <2>2, <2>3, GapIsEntered DEF FileInv
  <1> QED
    BY <1>1, <1>2, InitIsGapInv, FileInvHolds, DraftInvHolds, PTL
       DEF Spec, OnlyTheSeenOrBackedUpIsReplaced

=============================================================================
