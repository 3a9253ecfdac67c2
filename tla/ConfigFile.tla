----------------------------- MODULE ConfigFile -----------------------------
(***************************************************************************)
(* The configuration file of the jaco application and everybody who reads  *)
(* or writes it (app/jaco state/config.rs, with the lock and the atomic    *)
(* replacement of foundation/persistence.rs and the busy flag of the OAuth *)
(* credential cleanup in state/mcp/oauth.rs):                              *)
(*   - the ConfigOperation the store holds, its reload and repair tasks,   *)
(*   - commit_update, which writes the file on the foreground thread,      *)
(*   - ConfigFileObserver, which probes the file when the watcher reports  *)
(*     a change,                                                           *)
(*   - somebody else (an editor, another Jaco), who writes when he likes.  *)
(*                                                                         *)
(* Foreground code runs one step at a time; blocking code runs on threads, *)
(* one file operation a step.  Dropping a task drops its continuation:     *)
(* blocking work that has begun goes on.  A valid content of the file      *)
(* stands for the value it decodes to.  The watcher is the flag unseen     *)
(* here (FileWatch is its own module), and the managed quit, which stops   *)
(* it all, is left out.                                                    *)
(*                                                                         *)
(* An operator Name_Variant is Name with a plausible slip; the runs that   *)
(* use this module are checked to tell the two apart.                      *)
(***************************************************************************)
EXTENDS RepairTransitions, Naturals

CONSTANTS
  Values,    \* configurations
  Default,   \* the one a missing file is replaced by
  Broken,    \* a content that does not parse
  Missing,   \* no file
  Threads,   \* threads for blocking work
  GapEdits,  \* whether others may write in the gap between the comparison
             \* and the rename of a replacement
  MaxEdits,  \* bound: writes by others
  MaxAsks,   \* bound: what the user does
  MaxFaults  \* bound: file operations that fail

ASSUME ConstantsAreApart ==
  /\ Default \in Values
  /\ Broken \notin Values /\ Missing \notin Values \cup {Broken}
  /\ None \notin Values \cup Threads \cup {Broken, Missing, "Done"}
  /\ Threads # {}
ASSUME BoundsAreNatural ==
  MaxEdits \in Nat /\ MaxAsks \in Nat /\ MaxFaults \in Nat
ASSUME GapEditsIsBoolean == GapEdits \in BOOLEAN

Contents == Values \cup {Broken}

VARIABLES
  \* the disk
  file,     \* the content of config.toml
  backups,  \* history: the contents copied to config.invalid*.toml
  lock,     \* the thread that holds config.toml.lock
  \* the blocking threads: the job of each
  threads,
  \* the watcher
  unseen,   \* the file changed and the observer was not told yet
  \* the store
  op,       \* the ConfigOperation
  task,     \* the thread its task waits for
  save,     \* the thread of a running commit_update: the foreground thread
  \* ConfigFileObserver
  dirty,    \* pending_dirty
  probe,    \* probe_task with its ConfigProbeStart
  \* CredentialCleanupOwner
  cleanup,  \* "Idle", "Running", "Queued" (running, and requests wait)
  \* the bounds used up
  edits, asks, faults

diskVars   == <<file, backups, lock>>
storeVars  == <<op, task, save>>
probeVars  == <<dirty, probe>>
boundVars  == <<edits, asks, faults>>

vars == <<diskVars, threads, unseen, storeVars, probeVars, cleanup, boundVars>>

\* A ConfigProblem: the draft is the pending configuration it carries.
Problem(kind, draft, intent) == [kind |-> kind, draft |-> draft, intent |-> intent]
Plain(kind) == Problem(kind, None, None)

\* A job: the step it is at, what it is for, the content it expects to
\* replace, the configuration it wants to write, the intent of a backup, and
\* at last its result.
Job(step, purpose, expected, draft, intent) ==
  [step |-> step, purpose |-> purpose, expected |-> expected, draft |-> draft,
   intent |-> intent, result |-> None]
NoJob       == Job(None, None, None, None, None)
ObserveJob  == Job("Observe", "Observe", None, None, None)
LoadJob     == Job("Read", "Load", None, None, None)

\* write_pending and write_pending_at: nothing is compared when no file is
\* expected.
WriteJob(purpose, expected, draft) == Job("Lock", purpose, expected, draft, None)

NoProbe == [thread |-> None, phase |-> None, data |-> None]

\* What the code that waits for a thread is.
Awaited(t) == t \in {task, save, probe.thread}

Busy(c) == c # "Idle"

-----------------------------------------------------------------------------
(* Blocking work, one file operation a step *)

Unlocked(t) == IF lock = t THEN None ELSE lock

Goes(t, step) ==
  /\ threads' = [threads EXCEPT ![t].step = step]
  /\ UNCHANGED lock

\* The closure returns; nobody takes the result of a task that was dropped.
Ends(t, r) ==
  /\ threads' = [threads EXCEPT
       ![t] = IF Awaited(t) THEN [@ EXCEPT !.step = "Done", !.result = r] ELSE NoJob]
  /\ lock' = Unlocked(t)

\* What decode_data makes of a content.
Decoded(content) == IF content \in Values THEN Ok(content) ELSE Err(Plain("Parse"))

\* The failure of a write, and of one that follows a backup.
WriteFailure(j, kind) ==
  IF j.purpose = "Write" THEN Err(Problem(kind, j.draft, None))
  ELSE Err(Problem("WriteAfterBackup", j.draft, j.intent))

\* load_or_create returns: backup_and_replace goes on if that failed.
Loaded(t, r) ==
  IF threads[t].purpose = "BackUp" /\ ~r.ok
  THEN /\ threads' = [threads EXCEPT ![t].step = "Original"]
       /\ lock' = Unlocked(t)
  ELSE Ends(t, r)

JobFrame == UNCHANGED <<storeVars, probeVars, cleanup, edits, asks, faults>>
Touches  == UNCHANGED <<file, backups, unseen>>

\* read_for_observer.
Observe(t) ==
  /\ threads[t].step = "Observe"
  /\ Ends(t, IF file = Missing THEN Ok(Missing) ELSE Decoded(file))
  /\ Touches /\ JobFrame

\* load_or_create reads the file, and creates it if there is none.
Read(t) ==
  /\ threads[t].step = "Read"
  /\ IF file = Missing THEN Goes(t, "Create") ELSE Loaded(t, Decoded(file))
  /\ Touches /\ JobFrame

\* Under the lock, the default is linked to the name if nothing else has it.
Create(t) ==
  /\ threads[t].step = "Create"
  /\ \/ /\ lock # None
        /\ Loaded(t, Err(Problem("Locked", Default, None)))
        /\ Touches
     \/ /\ lock = None /\ file # Missing
        /\ Goes(t, "Reread")
        /\ Touches
     \/ /\ lock = None /\ file = Missing
        /\ file' = Default /\ unseen' = TRUE /\ lock' = t
        /\ threads' = [threads EXCEPT ![t].step = "Created"]
        /\ UNCHANGED backups
  /\ JobFrame

\* The bytes are read again after the write.
Created(t) ==
  /\ threads[t].step = "Created"
  /\ Loaded(t, IF file = Default THEN Ok(Default)
               ELSE Err(Problem("Write", Default, None)))
  /\ Touches /\ JobFrame

\* Another file won the name: it is the configuration.
Reread(t) ==
  /\ threads[t].step = "Reread"
  /\ Loaded(t, IF file = Missing THEN Err(Plain("Read")) ELSE Decoded(file))
  /\ Touches /\ JobFrame

\* backup_and_replace takes the lock and copies what it finds.
Original(t) ==
  /\ threads[t].step = "Original"
  /\ \/ /\ lock # None
        /\ Ends(t, Err(Problem("Locked", threads[t].draft, None)))
        /\ UNCHANGED backups
     \/ /\ lock = None /\ file = Missing
        /\ Ends(t, Err(Plain("Read")))
        /\ UNCHANGED backups
     \/ /\ lock = None /\ file # Missing
        /\ lock' = t
        /\ backups' = backups \cup {file}
        /\ threads' = [threads EXCEPT ![t].step = "Recheck", ![t].expected = file]
  /\ UNCHANGED <<file, unseen>>
  /\ JobFrame

Recheck(t) ==
  /\ threads[t].step = "Recheck"
  /\ IF file = threads[t].expected THEN Goes(t, "Compare")
     ELSE Ends(t, Err(Problem("ExternalChange", threads[t].draft, None)))
  /\ Touches /\ JobFrame

Lock(t) ==
  /\ threads[t].step = "Lock"
  /\ IF lock # None THEN Ends(t, WriteFailure(threads[t], "Locked"))
     ELSE /\ lock' = t
          /\ threads' = [threads EXCEPT
               ![t].step = IF threads[t].expected = Missing THEN "Rename" ELSE "Compare"]
  /\ Touches /\ JobFrame

Compare_Skipped(t) ==
  /\ threads[t].step = "Compare"
  /\ Goes(t, "Rename")
  /\ Touches /\ JobFrame
\* compare_current.
Compare(t) ==
  /\ threads[t].step = "Compare"
  /\ IF file = threads[t].expected THEN Goes(t, "Rename")
     ELSE Ends(t, WriteFailure(threads[t], "ExternalChange"))
  /\ Touches /\ JobFrame

\* persist_staged, or persist_staged_noclobber when no file was expected.
Rename(t) ==
  LET j == threads[t] IN
  /\ j.step = "Rename"
  /\ IF j.expected = Missing /\ file # Missing
     THEN Ends(t, WriteFailure(j, "ExternalChange")) /\ UNCHANGED <<file, unseen>>
     ELSE Goes(t, "Verify") /\ file' = j.draft /\ unseen' = TRUE
  /\ UNCHANGED backups
  /\ JobFrame

Verify(t) ==
  LET j == threads[t] IN
  /\ j.step = "Verify"
  /\ Ends(t, IF file = j.draft THEN Ok(j.draft) ELSE WriteFailure(j, "Write"))
  /\ Touches /\ JobFrame

\* A file operation fails: the disk, the permissions, or another Jaco that
\* holds the lock.
Fails(t) ==
  LET j == threads[t] IN
  /\ faults < MaxFaults
  /\ faults' = faults + 1
  /\ \/ j.step = "Observe" /\ Ends(t, Err(Plain("Read")))
     \/ j.step \in {"Read", "Reread"} /\ Loaded(t, Err(Plain("Read")))
     \/ /\ j.step = "Create"
        /\ \E kind \in {"Locked", "Write"} : Loaded(t, Err(Problem(kind, Default, None)))
     \/ j.step = "Original" /\ Ends(t, Err(Problem("Backup", j.draft, j.intent)))
     \/ j.step = "Lock" /\ Ends(t, WriteFailure(j, "Locked"))
     \/ j.step = "Rename" /\ Ends(t, WriteFailure(j, "Write"))
  /\ Touches
  /\ UNCHANGED <<storeVars, probeVars, cleanup, edits, asks>>

Works(t) == \/ Observe(t) \/ Read(t) \/ Create(t) \/ Created(t) \/ Reread(t)
            \/ Original(t) \/ Recheck(t)
            \/ Lock(t) \/ Compare(t) \/ Rename(t) \/ Verify(t)

-----------------------------------------------------------------------------
(* Foreground: the observer *)

\* commit_update keeps the foreground thread until its write is over.
Foreground == save = None

FreeThreads(ths) == {t \in Threads : ths[t] = NoJob}
FreeThread(ths)  == CHOOSE t \in FreeThreads(ths) : TRUE

\* start_probe, past its guards.
StartProbe(o, ths) ==
  /\ FreeThreads(ths) # {}
  /\ threads' = [ths EXCEPT ![FreeThread(ths)] = ObserveJob]
  /\ probe' = [thread |-> FreeThread(ths), phase |-> o.phase, data |-> o.data]

\* consume_pending, after a step that left the operation o, the cleanup c, the
\* threads ths, the probe p and the mark d.
Consume(o, c, ths, p, d) ==
  IF d /\ p = NoProbe /\ ~Busy(c) /\ ~IsRunning(o)
  THEN StartProbe(o, ths) /\ dirty' = FALSE
  ELSE threads' = ths /\ probe' = p /\ dirty' = d

OnDirty_Dropped ==
  /\ Foreground
  /\ unseen /\ unseen' = FALSE
  /\ IF Busy(cleanup) \/ probe # NoProbe \/ IsRunning(op)
     THEN UNCHANGED <<threads, probe>>
     ELSE StartProbe(op, threads)
  /\ UNCHANGED <<diskVars, storeVars, dirty, cleanup, boundVars>>
\* The watcher tells the observer.
OnDirty ==
  /\ Foreground
  /\ unseen /\ unseen' = FALSE
  /\ IF Busy(cleanup) \/ probe # NoProbe \/ IsRunning(op)
     THEN dirty' = TRUE /\ UNCHANGED <<threads, probe>>
     ELSE StartProbe(op, threads) /\ UNCHANGED dirty
  /\ UNCHANGED <<diskVars, storeVars, cleanup, boundVars>>

ProbeDone == probe # NoProbe /\ threads[probe.thread].step = "Done"

\* The probe found no file: it waits a moment, and then has it created.
ConfirmMissing ==
  /\ ProbeDone
  /\ threads[probe.thread].result = Ok(Missing)
  /\ threads' = [threads EXCEPT ![probe.thread] = LoadJob]
  /\ UNCHANGED <<diskVars, unseen, storeVars, probeVars, cleanup, boundVars>>

InConflict == op.phase = "Degraded" /\ op.problem.kind = "ExternalChange"

\* A problem that says nothing but that the file could not be used.
PermitsSameSourceRecovery ==
  op.phase = "Degraded" /\ op.problem.kind \in {"Read", "Parse"}

SameSource(r) == r = Ok(op.data)

\* The operation with a task the observer gives it.
Observing(o) == CASE o.phase = "Idle"  -> Load(o)
                  [] o.phase = "Ready" -> Refresh(o)
                  [] OTHER             -> Repair(o)

\* What the observer makes of a result, with its guards passed: it silently
\* drops it, writes the draft of a conflict that is over, or has it applied by
\* a task of its own, which runs later.
UseResult(r) ==
  LET t == probe.thread
      Drop == /\ Consume(op, cleanup, [threads EXCEPT ![t] = NoJob], NoProbe, dirty)
              /\ UNCHANGED <<op, task>>
  IN
  CASE InConflict /\ SameSource(r) ->
         /\ op' = Repair(op) /\ task' = t /\ probe' = NoProbe
         /\ threads' = [threads EXCEPT
                          ![t] = WriteJob("Write", op.data, op.problem.draft)]
         /\ UNCHANGED dirty
    [] InConflict /\ ~SameSource(r) -> Drop
    [] ~InConflict /\ SameSource(r) /\ ~PermitsSameSourceRecovery -> Drop
    [] OTHER ->
         /\ op' = Observing(op) /\ task' = t /\ probe' = NoProbe
         /\ threads' = [threads EXCEPT
                          ![t] = [NoJob EXCEPT !.step = "Done", !.purpose = "Observed",
                                               !.result = r]]
         /\ UNCHANGED dirty

FinishProbe_ConflictForgotten ==
  /\ Foreground /\ ProbeDone
  /\ LET r == threads[probe.thread].result IN
     /\ r # Ok(Missing)
     /\ ~Busy(cleanup) /\ InConflict
     /\ op' = Repair(op) /\ task' = probe.thread /\ probe' = NoProbe
     /\ threads' = [threads EXCEPT
                      ![probe.thread] = [NoJob EXCEPT !.step = "Done",
                                          !.purpose = "Observed", !.result = r]]
  /\ UNCHANGED <<diskVars, unseen, save, dirty, cleanup, boundVars>>
FinishProbe_MarkLost ==
  /\ Foreground /\ ProbeDone
  /\ LET r      == threads[probe.thread].result
         closed == [threads EXCEPT ![probe.thread] = NoJob]
     IN
     /\ r # Ok(Missing)
     /\ CASE Busy(cleanup) ->
               /\ probe' = NoProbe /\ threads' = closed
               /\ UNCHANGED <<op, task, dirty>>
          [] OTHER -> UseResult(r)
  /\ UNCHANGED <<diskVars, unseen, save, cleanup, boundVars>>
\* The basis epoch is left out: whoever advances it drops the probe as well.
FinishProbe ==
  /\ Foreground /\ ProbeDone
  /\ LET r      == threads[probe.thread].result
         closed == [threads EXCEPT ![probe.thread] = NoJob]
     IN
     /\ r # Ok(Missing)
     /\ CASE Busy(cleanup) ->
               /\ dirty' = TRUE /\ probe' = NoProbe /\ threads' = closed
               /\ UNCHANGED <<op, task>>
          [] ~Busy(cleanup) /\ (\/ IsRunning(op)
                                 \/ op.phase # probe.phase
                                 \/ op.data # probe.data) ->
               /\ Consume(op, cleanup, closed, NoProbe, TRUE)
               /\ UNCHANGED <<op, task>>
          [] OTHER -> UseResult(r)
  /\ UNCHANGED <<diskVars, unseen, save, cleanup, boundVars>>

-----------------------------------------------------------------------------
(* Foreground: the operation *)

\* The threads once the probe is invalidated: work that only reads, or has not
\* begun, may as well be gone.
Invalidated ==
  [t \in Threads |->
     IF t = probe.thread /\ threads[t].step \in {"Observe", "Done"}
     THEN NoJob ELSE threads[t]]

\* Somebody hands a job to a thread, and drops the probe.
Hands(job, ths) ==
  /\ FreeThreads(ths) # {}
  /\ threads' = [ths EXCEPT ![FreeThread(ths)] = job]
  /\ probe' = NoProbe
  /\ UNCHANGED dirty

Asks == Foreground /\ asks < MaxAsks /\ asks' = asks + 1

\* commit_update, up to write_pending.
Commit(v) ==
  /\ Asks
  /\ op.phase = "Ready" /\ v # op.data
  /\ Hands(WriteJob("Write", op.data, v), Invalidated)
  /\ save' = FreeThread(Invalidated)
  /\ UNCHANGED <<diskVars, unseen, op, task, cleanup, edits, faults>>

\* ... and the rest of it.  The observer watches the store.
FinishCommit ==
  /\ save # None /\ threads[save].step = "Done"
  /\ op' = Settle(op, threads[save].result)
  /\ save' = None
  /\ Consume(op', cleanup, [threads EXCEPT ![save] = NoJob], probe, dirty)
  /\ UNCHANGED <<diskVars, unseen, task, cleanup, boundVars>>

\* A task for the operation.
Starts(o, job) ==
  /\ op' = o
  /\ Hands(job, Invalidated)
  /\ task' = FreeThread(Invalidated)
  /\ UNCHANGED <<diskVars, unseen, save, cleanup, edits, faults>>

\* request_reload; nothing comes of it while a task runs.
RequestReload ==
  /\ Asks
  /\ \/ /\ ~Busy(cleanup) /\ ~IsRunning(op)
        /\ Starts(IF op.phase = "Ready" THEN Refresh(op) ELSE Repair(op), LoadJob)
     \/ /\ Busy(cleanup)
        /\ dirty' = TRUE
        /\ UNCHANGED <<diskVars, threads, unseen, storeVars, probe, cleanup, edits, faults>>

\* ConfigProblem::supports.
Supports(problem, repair) ==
  CASE repair = "RetryWrite" ->
         problem.kind \in {"Locked", "Write", "WriteAfterBackup"}
    [] repair = "CreateDefault" ->
         \/ problem.kind = "Parse"
         \/ problem.kind = "Backup" /\ problem.intent = "CreateDefault"
    [] repair = "OverwritePending" ->
         \/ problem.kind = "ExternalChange"
         \/ problem.kind = "Backup" /\ problem.intent = "OverwritePending"

RepairJob(problem, data, repair) ==
  CASE repair = "CreateDefault" ->
         Job("Read", "BackUp", None, Default, repair)
    [] repair = "OverwritePending" ->
         Job("Read", "BackUp", None, problem.draft, repair)
    [] repair = "RetryWrite" /\ data = None ->
         WriteJob("Write", Missing, problem.draft)
    [] repair = "RetryWrite" /\ data # None /\ problem.kind # "WriteAfterBackup" ->
         WriteJob("Write", data, problem.draft)
    [] repair = "RetryWrite" /\ data # None /\ problem.kind = "WriteAfterBackup" ->
         [WriteJob("WriteAgain", data, problem.draft)
            EXCEPT !.intent = "OverwritePending"]

\* request_repair; its Reload is RequestReload.
RequestRepair(repair) ==
  /\ Asks
  /\ ~Busy(cleanup)
  /\ op.phase \in {"Unavailable", "Degraded"}
  /\ Supports(op.problem, repair)
  /\ Starts(Repair(op), RepairJob(op.problem, op.data, repair))

CompleteTask_NotObserved ==
  /\ Foreground
  /\ task # None /\ threads[task].step = "Done"
  /\ op' = Complete(op, threads[task].result)
  /\ task' = None
  /\ threads' = [threads EXCEPT ![task] = NoJob]
  /\ UNCHANGED <<diskVars, unseen, save, probe, dirty, cleanup, boundVars>>
\* The task settles the operation, and the observer looks at it.
CompleteTask ==
  /\ Foreground
  /\ task # None /\ threads[task].step = "Done"
  /\ op' = Complete(op, threads[task].result)
  /\ task' = None
  /\ Consume(op', cleanup, [threads EXCEPT ![task] = NoJob], probe, dirty)
  /\ UNCHANGED <<diskVars, unseen, save, cleanup, boundVars>>

-----------------------------------------------------------------------------
(* Foreground: the credential cleanup *)

\* schedule_credential_cleanup: after a server was saved or deleted, or when a
\* draft is closed.
ScheduleCleanup ==
  /\ Asks
  /\ cleanup' = IF Busy(cleanup) THEN "Queued" ELSE "Running"
  /\ UNCHANGED <<diskVars, threads, unseen, storeVars, probeVars, edits, faults>>

\* finish_task: the next batch, or the observer is resumed.
FinishCleanup ==
  /\ Foreground
  /\ Busy(cleanup)
  /\ cleanup' = IF cleanup = "Queued" THEN "Running" ELSE "Idle"
  /\ Consume(op, cleanup', threads, probe, dirty)
  /\ UNCHANGED <<diskVars, unseen, storeVars, boundVars>>

-----------------------------------------------------------------------------
(* Everybody else *)

AtTheGap == \E t \in Threads : threads[t].step = "Rename" /\ threads[t].expected # Missing

\* An editor writes or removes the file, or another Jaco does.
Edit(content) ==
  /\ edits < MaxEdits
  /\ GapEdits \/ ~AtTheGap
  /\ content # file
  /\ file' = content /\ unseen' = TRUE /\ edits' = edits + 1
  /\ UNCHANGED <<backups, lock, threads, storeVars, probeVars, cleanup, asks, faults>>

\* What init leaves behind: the file was loaded or created, or could not be,
\* and the observer, bound to the watcher, has started its first probe.
Init ==
  /\ file \in Contents
  /\ backups = {} /\ lock = None
  /\ unseen = FALSE
  /\ \/ op = Settle(Idle, Decoded(file))
     \/ \E kind \in {"Read", "Locked"} :
          op = Settle(Idle, Err(Problem(kind, IF kind = "Locked" THEN Default ELSE None,
                                        None)))
  /\ task = None /\ save = None
  /\ dirty = FALSE
  /\ probe = [thread |-> CHOOSE t \in Threads : TRUE, phase |-> op.phase, data |-> op.data]
  /\ threads = [t \in Threads |-> IF t = probe.thread THEN ObserveJob ELSE NoJob]
  /\ cleanup = "Idle"
  /\ edits = 0 /\ asks = 0 /\ faults = 0

Next ==
  \/ \E t \in Threads : Works(t) \/ Fails(t)
  \/ OnDirty \/ ConfirmMissing \/ FinishProbe
  \/ \E v \in Values : Commit(v)
  \/ FinishCommit \/ RequestReload
  \/ \E repair \in {"RetryWrite", "CreateDefault", "OverwritePending"} : RequestRepair(repair)
  \/ CompleteTask
  \/ ScheduleCleanup \/ FinishCleanup
  \/ \E content \in Contents \cup {Missing} : Edit(content)

\* Threads, tasks and the watcher get on; users and others owe nothing.
Fairness ==
  /\ \A t \in Threads : WF_vars(Works(t))
  /\ WF_vars(OnDirty) /\ WF_vars(ConfirmMissing) /\ WF_vars(FinishProbe)
  /\ WF_vars(FinishCommit) /\ WF_vars(CompleteTask) /\ WF_vars(FinishCleanup)

Spec == Init /\ [][Next]_vars /\ Fairness

-----------------------------------------------------------------------------
(* Properties *)

Drafts == Values \cup {None}
Kinds  == {"Read", "Parse", "Locked", "ExternalChange", "Write", "Backup", "WriteAfterBackup"}
Problems == [kind : Kinds, draft : Drafts,
             intent : {None, "CreateDefault", "OverwritePending"}]

\* None is no step or purpose of a job and no problem.
ASSUME NoneIsApart ==
  None \notin
    Problems \cup
    {"Observe", "Read", "Create", "Created", "Reread", "Original", "Recheck",
     "Lock", "Compare", "Rename", "Verify", "Done"} \cup
    {"Load", "BackUp", "Write", "WriteAgain", "Observed"}

\* The variables have the values the code gives them, and a task is there
\* exactly while the operation runs.
TypeOK ==
  /\ file \in Contents \cup {Missing} /\ backups \subseteq Contents
  /\ lock \in Threads \cup {None}
  /\ unseen \in BOOLEAN /\ dirty \in BOOLEAN
  /\ op.phase \in Phases /\ op.data \in Drafts
  /\ op.problem \in Problems \cup {None}
  /\ (task # None) = IsRunning(op)
  /\ task \in Threads \cup {None} /\ save \in Threads \cup {None}
  /\ probe.thread \in Threads \cup {None}
  /\ cleanup \in {"Idle", "Running", "Queued"}

\* A store that calls itself Ready shows what the file holds, unless the
\* difference is about to be noticed: the watcher has not been heard, a mark
\* waits, a probe or a task or a commit is under way.  However edits,
\* commits, probes that are dropped and cleanups interleave, no change of the
\* file is forgotten.
NoChangeIsForgotten ==
  op.phase = "Ready" /\ op.data # file =>
    unseen \/ dirty \/ probe # NoProbe \/ save # None

\* pending_dirty is set only while something runs whose end looks at it.
PendingDirtyIsTakenUp ==
  dirty => Busy(cleanup) \/ probe # NoProbe \/ IsRunning(op) \/ save # None

InConflictWithData(o) ==
  o.data # None /\ o.problem # None /\ o.problem.kind = "ExternalChange"

\* The draft of a conflict between a commit and an external change leaves the
\* store only when the user asked for a reload or a repair, or when it has been
\* written: no probe, and no watcher event during a retry, takes it away.
ConflictKeepsItsDraft ==
  [][ InConflictWithData(op) /\ op'.problem # op.problem =>
        \/ op' = Ready(op.problem.draft)
        \/ op'.problem # None /\ op'.problem.draft = op.problem.draft
        \/ task # None /\ threads[task].purpose \in {"Load", "BackUp"} ]_vars

\* What this process replaces is a file that is not there, the configuration
\* the store holds, or something of which there is a backup.
OnlyTheSeenOrBackedUpIsReplaced ==
  [][ file' # file /\ edits' = edits => file \in {Missing, op.data} \cup backups ]_vars

\* When the others let the file be, the store comes to show it or says why not.
StoreFollowsTheFile == <>[](op.phase = "Ready" => op.data = file)

-----------------------------------------------------------------------------
(* What the documentation says and the code does not do *)

\* "BackupAndOverwritePending" copies the current file and then writes the
\* draft: when it succeeds, the draft is what the store gets.
OverwriteWritesTheDraft ==
  \A t \in Threads :
    LET j == threads[t] IN
    j.intent = "OverwritePending" /\ j.purpose = "BackUp" /\ j.step = "Done" /\ j.result.ok
      => j.result.value = j.draft

=============================================================================
