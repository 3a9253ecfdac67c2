-------------------------- MODULE DatabaseLifecycle --------------------------
(***************************************************************************)
(* The database of the jaco application (app/jaco database.rs, its         *)
(* operation and session modules, and quit_app in app.rs):                 *)
(*   - DatabaseOperation, the six-phase lifecycle the owner stores,        *)
(*   - DatabaseSession: the permits that let blocking jobs use the         *)
(*     database, and the lock file that keeps everybody else away from it, *)
(*   - the refresh, retire, reopen and back-up-and-create-fresh tasks,     *)
(*   - the managed quit, a crash at any moment, and another instance.      *)
(*                                                                         *)
(* Jobs run on threads of their own; each of their atomic operations is a  *)
(* step.  The atomics are sequentially consistent here: the code uses      *)
(* Release and Acquire, and between the store that stops admissions and    *)
(* the first load of the count the foreground thread schedules a task.     *)
(* A successful open, reopen or repair uses up one of Sessions, so that a  *)
(* process starts or repairs only while one is left.                       *)
(*                                                                         *)
(* An operator Name_Variant is Name with a plausible slip; the runs that   *)
(* use this module are checked to tell the two apart.                      *)
(***************************************************************************)
EXTENDS Integers, FiniteSets

CONSTANTS
  Jobs,      \* blocking database commands
  Sessions,  \* bound: the sessions opened over all processes
  MaxStarts  \* bound: processes started

None       == "None"
Validation == "Validation"  \* the job a refresh runs
Workers    == Jobs \cup {Validation}

ASSUME NamesAreApart ==
  /\ None \notin Jobs \cup Sessions
  /\ Validation \notin Jobs
  /\ {"Repair", "Other"} \cap Sessions = {}
ASSUME JobsAreFinite == IsFiniteSet(Jobs)
ASSUME MaxStartsIsNatural == MaxStarts \in Nat

VARIABLES
  starts,       \* processes started so far
  process,      \* "Up" or "Down"
  \* DatabaseOperation
  phase,
  session,      \* the session of Ready and Refreshing
  problem,      \* the problem of Retiring, Unavailable and Repairing
  \* per DatabaseSession
  active,       \* who owns its ActiveDatabaseSession, and with it the lock
  accepting,    \* DatabaseActivity.accepting
  activeJobs,   \* DatabaseActivity.active_jobs
  empty,        \* the sessions whose owner has read a count of zero
  \* per worker
  job,          \* where it is
  jobSession,   \* the session whose executor it uses
  \* the operation's task
  driver,       \* the step a repair's blocking half is at
  outcome,      \* its result
  \* quit_app
  quitting,     \* "No", "AwaitRuntime" or "Draining"
  quitSession,  \* the session it found when it began
  \* outside the process
  lock,         \* the holder of jaco.sqlite3.lock
  file,         \* the database file: "Old" (the user's), "None" or "Fresh"
  saved         \* a complete backup of the old file exists

operationVars == <<phase, session, problem>>
sessionVars   == <<active, accepting, activeJobs, empty>>
workerVars    == <<job, jobSession>>
driverVars    == <<driver, outcome>>
quitVars      == <<quitting, quitSession>>
diskVars      == <<file, saved>>

vars == <<starts, process, operationVars, sessionVars, workerVars, driverVars,
          quitVars, lock, diskVars>>

Unused == {s \in Sessions : active[s] = "Unused"}

-----------------------------------------------------------------------------
(* DatabaseJobPermit *)

\* The ready session hands out its executor until the quit begins, and agent
\* runs keep theirs.
HandedOut(s) ==
  /\ active[s] \notin {"Unused", "Dead"}
  /\ quitting = "No" \/ s = quitSession \/ s # session

StartJob(w, s) ==
  /\ process = "Up"
  /\ job[w] = "Idle"
  /\ HandedOut(s)
  /\ job' = [job EXCEPT ![w] = "Queued"]
  /\ jobSession' = [jobSession EXCEPT ![w] = s]
  /\ UNCHANGED <<starts, process, operationVars, sessionVars, driverVars,
                 quitVars, lock, diskVars>>

\* What a worker that got no permit, or has finished, becomes: the refresh
\* waits for the outcome of its validation.
Ended(w, passed) ==
  IF w # Validation THEN "Idle" ELSE IF passed THEN "Passed" ELSE "Failed"

Goes(w, step) == job' = [job EXCEPT ![w] = step]

JobFrame == UNCHANGED <<starts, process, operationVars, active, accepting, empty,
                        jobSession, driverVars, quitVars, lock, diskVars>>

\* acquire, step by step: look, count, look again.
CheckAccepting(w) ==
  /\ job[w] = "Queued"
  /\ Goes(w, IF accepting[jobSession[w]] THEN "Checked" ELSE Ended(w, FALSE))
  /\ UNCHANGED activeJobs
  /\ JobFrame

Count(w) ==
  /\ job[w] = "Checked"
  /\ activeJobs' = [activeJobs EXCEPT ![jobSession[w]] = @ + 1]
  /\ Goes(w, "Counted")
  /\ JobFrame

CheckAgain_Skipped(w) ==
  /\ job[w] = "Counted"
  /\ Goes(w, "Running")
  /\ UNCHANGED activeJobs
  /\ JobFrame
CheckAgain(w) ==
  /\ job[w] = "Counted"
  /\ Goes(w, IF accepting[jobSession[w]] THEN "Running" ELSE "Withdrawing")
  /\ UNCHANGED activeJobs
  /\ JobFrame

Withdraw_CountKept(w) ==
  /\ job[w] = "Withdrawing"
  /\ Goes(w, Ended(w, FALSE))
  /\ UNCHANGED activeJobs
  /\ JobFrame
Withdraw(w) ==
  /\ job[w] = "Withdrawing"
  /\ activeJobs' = [activeJobs EXCEPT ![jobSession[w]] = @ - 1]
  /\ Goes(w, Ended(w, FALSE))
  /\ JobFrame

\* The closure returns; its permit is dropped last.
JobEnds_FailureLeaks(w, passed) ==
  /\ job[w] = "Running"
  /\ activeJobs' = [activeJobs EXCEPT ![jobSession[w]] = IF passed THEN @ - 1 ELSE @]
  /\ Goes(w, Ended(w, passed))
  /\ JobFrame
JobEnds(w, passed) ==
  /\ job[w] = "Running"
  /\ activeJobs' = [activeJobs EXCEPT ![jobSession[w]] = @ - 1]
  /\ Goes(w, Ended(w, passed))
  /\ JobFrame

-----------------------------------------------------------------------------
(* Sessions *)

\* DatabaseSession::new, with the lock the opener holds.
OpenSession(s) ==
  /\ active' = [active EXCEPT ![s] = "Session"]
  /\ accepting' = [accepting EXCEPT ![s] = TRUE]
  /\ lock' = s
  /\ UNCHANGED <<activeJobs, empty>>

\* take_active: admissions stop, and whoever asks first gets the rest.
TakeActive(s, owner) ==
  IF s # None /\ active[s] = "Session"
  THEN /\ active' = [active EXCEPT ![s] = owner]
       /\ accepting' = [accepting EXCEPT ![s] = FALSE]
  ELSE UNCHANGED <<active, accepting>>

\* The loop of a task that took s: it looks every 10 ms until the count is
\* zero.  A job may still count itself between this look and the drop.
SeeEmpty_Unread(s) ==
  /\ active[s] \in {"Retire", "Quit"}
  /\ s \notin empty
  /\ empty' = empty \cup {s}
  /\ UNCHANGED <<starts, process, operationVars, active, accepting, activeJobs,
                 workerVars, driverVars, quitVars, lock, diskVars>>
SeeEmpty(s) ==
  /\ active[s] \in {"Retire", "Quit"}
  /\ s \notin empty
  /\ activeJobs[s] = 0
  /\ empty' = empty \cup {s}
  /\ UNCHANGED <<starts, process, operationVars, active, accepting, activeJobs,
                 workerVars, driverVars, quitVars, lock, diskVars>>

\* An owner that took nothing waits for nothing.
Drained(owner) == \A s \in Sessions : active[s] = owner => s \in empty

\* The owner drops what it took: the pool and the lock.
DropActive(owner) ==
  /\ active' = [s \in Sessions |-> IF active[s] = owner THEN "Dropped" ELSE active[s]]
  /\ lock' = IF \E s \in Sessions : active[s] = owner THEN None ELSE lock

-----------------------------------------------------------------------------
(* request_refresh in Ready: validate, and retire the session if it fails *)

RequestRefresh ==
  /\ process = "Up"
  /\ phase = "Ready"
  /\ phase' = "Refreshing"
  /\ IF active[session] = "Session"
     THEN /\ job' = [job EXCEPT ![Validation] = "Queued"]
          /\ jobSession' = [jobSession EXCEPT ![Validation] = session]
     ELSE /\ job' = [job EXCEPT ![Validation] = "Failed"]
          /\ UNCHANGED jobSession
  /\ UNCHANGED <<starts, process, session, problem, sessionVars, driverVars,
                 quitVars, lock, diskVars>>

RefreshPasses ==
  /\ phase = "Refreshing"
  /\ job[Validation] = "Passed"
  /\ phase' = "Ready"
  /\ Goes(Validation, "Idle")
  /\ UNCHANGED <<starts, process, session, problem, sessionVars, jobSession,
                 driverVars, quitVars, lock, diskVars>>

\* retire_failed_refresh
RefreshFails ==
  /\ phase = "Refreshing"
  /\ job[Validation] = "Failed"
  /\ phase' = "Retiring"
  /\ TakeActive(session, "Retire")
  /\ session' = None
  /\ problem' = "Open"
  /\ Goes(Validation, "Idle")
  /\ UNCHANGED <<starts, process, activeJobs, empty, jobSession, driverVars,
                 quitVars, lock, diskVars>>

Retire ==
  /\ phase = "Retiring"
  /\ Drained("Retire")
  /\ DropActive("Retire")
  /\ phase' = "Unavailable"
  /\ UNCHANGED <<starts, process, session, problem, accepting, activeJobs, empty,
                 workerVars, driverVars, quitVars, diskVars>>

-----------------------------------------------------------------------------
(* Repairs: request_refresh in Unavailable, and backup_and_create_fresh *)

RequestReopen ==
  /\ process = "Up"
  /\ phase = "Unavailable"
  /\ Unused # {}
  /\ phase' = "Repairing"
  /\ driver' = "LockToReopen"
  /\ UNCHANGED <<starts, process, session, problem, sessionVars, workerVars,
                 outcome, quitVars, lock, diskVars>>

\* A database in use is not to be replaced.
RequestFresh ==
  /\ process = "Up"
  /\ phase = "Unavailable"
  /\ problem # "InUse"
  /\ Unused # {}
  /\ phase' = "Repairing"
  /\ driver' = "LockToReplace"
  /\ UNCHANGED <<starts, process, session, problem, sessionVars, workerVars,
                 outcome, quitVars, lock, diskVars>>

DriverFrame == UNCHANGED <<starts, process, operationVars, sessionVars,
                           workerVars, quitVars>>

\* The blocking half returns, with or without the lock.
Returns(result, holder) ==
  /\ driver' = "Returned"
  /\ outcome' = result
  /\ lock' = holder

\* DatabaseTargetLease::acquire
AcquireLock ==
  /\ driver \in {"LockToReopen", "LockToReplace"}
  /\ IF lock = None
     THEN /\ driver' = IF driver = "LockToReopen" THEN "Reopen" ELSE "BackUp"
          /\ lock' = "Repair"
          /\ UNCHANGED outcome
     ELSE Returns("InUse", lock)
  /\ UNCHANGED diskVars
  /\ DriverFrame

\* reopen_validated_existing: there must be a file; it may not validate.
Reopen ==
  /\ driver = "Reopen"
  /\ \/ file # "None" /\ Returns("Opened", "Repair")
     \/ Returns("Open", None)
  /\ UNCHANGED diskVars
  /\ DriverFrame

\* backup_database_files: the copies are made and synced, or there is none.
BackUp_FailureIgnored ==
  /\ driver = "BackUp"
  /\ saved' \in {saved, saved \/ file = "Old"}
  /\ driver' = "RemoveOld"
  /\ UNCHANGED <<outcome, lock>>
  /\ UNCHANGED file
  /\ DriverFrame
BackUp ==
  /\ driver = "BackUp"
  /\ \/ /\ saved' = (saved \/ file = "Old")
        /\ driver' = "RemoveOld"
        /\ UNCHANGED <<outcome, lock>>
     \/ /\ Returns("Backup", None)
        /\ UNCHANGED saved
  /\ UNCHANGED file
  /\ DriverFrame

\* create_fresh_database: stage, remove the old files, rename, reopen.  Each
\* can fail, and a failed removal may have removed the database itself.
RemoveOld ==
  /\ driver = "RemoveOld"
  /\ \/ /\ file' = "None"
        /\ driver' = "Rename"
        /\ UNCHANGED <<outcome, lock>>
     \/ /\ Returns("CreateFresh", "Repair")
        /\ file' \in {file, "None"}
  /\ UNCHANGED saved
  /\ DriverFrame

Rename ==
  /\ driver = "Rename"
  /\ \/ file' = "Fresh" /\ Returns("Opened", "Repair")
     \/ file' \in {file, "Fresh"} /\ Returns("CreateFresh", "Repair")
  /\ UNCHANGED saved
  /\ DriverFrame

\* Back on the foreground thread: Repaired, with a new session or a problem.
RepairDone_OldProblemKept ==
  /\ driver = "Returned"
  /\ driver' = "None"
  /\ outcome' = None
  /\ IF outcome = "Opened"
     THEN \E s \in Unused :
            phase' = "Ready" /\ session' = s /\ OpenSession(s) /\ UNCHANGED problem
     ELSE /\ phase' = "Unavailable" /\ problem' = outcome
          /\ lock' = IF lock = "Repair" THEN None ELSE lock
          /\ UNCHANGED <<session, sessionVars>>
  /\ UNCHANGED <<starts, process, workerVars, quitVars, diskVars>>
RepairDone ==
  /\ driver = "Returned"
  /\ driver' = "None"
  /\ outcome' = None
  /\ IF outcome = "Opened"
     THEN \E s \in Unused :
            phase' = "Ready" /\ session' = s /\ problem' = None /\ OpenSession(s)
     ELSE /\ phase' = "Unavailable" /\ problem' = outcome
          /\ lock' = IF lock = "Repair" THEN None ELSE lock
          /\ UNCHANGED <<session, sessionVars>>
  /\ UNCHANGED <<starts, process, workerVars, quitVars, diskVars>>

-----------------------------------------------------------------------------
(* quit_app *)

\* A later call only brings the window back.
RequestQuit ==
  /\ process = "Up"
  /\ quitting = "No"
  /\ quitting' = "AwaitRuntime"
  /\ quitSession' = session
  /\ UNCHANGED <<starts, process, operationVars, sessionVars, workerVars,
                 driverVars, lock, diskVars>>

\* The conversation runtime has answered shutdown_all, or there is none.
QuitTakes ==
  /\ quitting = "AwaitRuntime"
  /\ quitting' = "Draining"
  /\ TakeActive(quitSession, "Quit")
  /\ UNCHANGED <<starts, process, operationVars, activeJobs, empty, workerVars,
                 driverVars, quitSession, lock, diskVars>>

\* Nothing in memory outlives the process, and the lock goes with it.
ProcessEnds ==
  /\ process' = "Down"
  /\ phase' = "Idle" /\ session' = None /\ problem' = None
  /\ active' = [s \in Sessions |-> IF active[s] = "Unused" THEN "Unused" ELSE "Dead"]
  /\ accepting' = [s \in Sessions |-> FALSE]
  /\ activeJobs' = [s \in Sessions |-> 0]
  /\ empty' = {}
  /\ job' = [w \in Workers |-> "Idle"]
  /\ jobSession' = [w \in Workers |-> None]
  /\ driver' = "None" /\ outcome' = None
  /\ quitting' = "No" /\ quitSession' = None
  /\ lock' = IF lock = "Other" THEN lock ELSE None
  /\ UNCHANGED <<starts, diskVars>>

QuitDone ==
  /\ quitting = "Draining"
  /\ Drained("Quit")
  /\ ProcessEnds

Crash ==
  /\ process = "Up"
  /\ ProcessEnds

-----------------------------------------------------------------------------
(* A process starts: init_store, open_initial and open_or_create_initial. *)

Start ==
  /\ process = "Down"
  /\ starts < MaxStarts
  /\ Unused # {}
  /\ starts' = starts + 1
  /\ process' = "Up"
  /\ \/ /\ lock = None
        /\ \E s \in Unused :
             phase' = "Ready" /\ session' = s /\ problem' = None /\ OpenSession(s)
        /\ file' = IF file = "None" THEN "Fresh" ELSE file
     \/ /\ phase' = "Unavailable"
        /\ \/ lock = None /\ problem' = "Open"
              /\ file' \in IF file = "None" THEN {"None", "Fresh"} ELSE {file}
           \/ lock # None /\ problem' = "InUse" /\ file' = file
        /\ UNCHANGED <<session, sessionVars, lock>>
  /\ UNCHANGED <<workerVars, driverVars, quitVars, saved>>

\* Another instance holds the lock for a while.
OtherLocks ==
  /\ lock = None
  /\ lock' = "Other"
  /\ UNCHANGED <<starts, process, operationVars, sessionVars, workerVars,
                 driverVars, quitVars, diskVars>>

OtherUnlocks ==
  /\ lock = "Other"
  /\ lock' = None
  /\ UNCHANGED <<starts, process, operationVars, sessionVars, workerVars,
                 driverVars, quitVars, diskVars>>

-----------------------------------------------------------------------------
Init ==
  /\ starts = 0 /\ process = "Down"
  /\ phase = "Idle" /\ session = None /\ problem = None
  /\ active = [s \in Sessions |-> "Unused"]
  /\ accepting = [s \in Sessions |-> FALSE]
  /\ activeJobs = [s \in Sessions |-> 0]
  /\ empty = {}
  /\ job = [w \in Workers |-> "Idle"]
  /\ jobSession = [w \in Workers |-> None]
  /\ driver = "None" /\ outcome = None
  /\ quitting = "No" /\ quitSession = None
  /\ lock = None
  /\ file = "Old" /\ saved = FALSE

\* What a worker's own thread does.
Works(w) ==
  \/ CheckAccepting(w) \/ Count(w) \/ CheckAgain(w) \/ Withdraw(w)
  \/ \E passed \in BOOLEAN : JobEnds(w, passed)

\* What the operation's task, its blocking half included, does.
TaskRuns ==
  \/ RefreshPasses \/ RefreshFails \/ Retire
  \/ AcquireLock \/ Reopen \/ BackUp \/ RemoveOld \/ Rename \/ RepairDone

Next ==
  \/ \E w \in Jobs, s \in Sessions : StartJob(w, s)
  \/ \E w \in Workers : Works(w)
  \/ \E s \in Sessions : SeeEmpty(s)
  \/ RequestRefresh \/ RequestReopen \/ RequestFresh
  \/ TaskRuns
  \/ RequestQuit \/ QuitTakes \/ QuitDone
  \/ Crash \/ Start
  \/ OtherLocks \/ OtherUnlocks

Spec == Init /\ [][Next]_vars

\* Blocking commands return, and the executors go on polling their tasks.
Fairness ==
  /\ \A w \in Workers : WF_vars(Works(w))
  /\ \A s \in Sessions : WF_vars(SeeEmpty(s))
  /\ WF_vars(TaskRuns)
  /\ WF_vars(QuitTakes) /\ WF_vars(QuitDone)

FairSpec == Spec /\ Fairness

-----------------------------------------------------------------------------
(* Properties *)

Phases   == {"Idle", "Ready", "Refreshing", "Retiring", "Unavailable", "Repairing"}
Problems == {"Open", "InUse", "Backup", "CreateFresh"}
Owners   == {"Unused", "Session", "Retire", "Quit", "Dropped", "Dead"}
JobSteps == {"Idle", "Queued", "Checked", "Counted", "Withdrawing", "Running",
             "Passed", "Failed"}
Drivers  == {"None", "LockToReopen", "LockToReplace", "Reopen", "BackUp",
             "RemoveOld", "Rename", "Returned"}

\* Every variable has its type; a session is stored exactly in Ready and
\* Refreshing, a problem exactly in Retiring, Unavailable and Repairing, and a
\* repair runs exactly in Repairing (DatabaseOperation::session and problem).
TypeOK ==
  /\ starts \in 0..MaxStarts
  /\ process \in {"Up", "Down"}
  /\ phase \in Phases
  /\ session \in Sessions \cup {None}
  /\ session # None <=> phase \in {"Ready", "Refreshing"}
  /\ problem \in Problems \cup {None}
  /\ problem # None <=> phase \in {"Retiring", "Unavailable", "Repairing"}
  /\ active \in [Sessions -> Owners]
  /\ accepting \in [Sessions -> BOOLEAN]
  /\ activeJobs \in [Sessions -> 0..Cardinality(Workers)]
  /\ empty \subseteq Sessions
  /\ job \in [Workers -> JobSteps]
  /\ jobSession \in [Workers -> Sessions \cup {None}]
  /\ driver \in Drivers
  /\ driver # "None" <=> phase = "Repairing"
  /\ outcome \in Problems \cup {"Opened", None}
  /\ quitting \in {"No", "AwaitRuntime", "Draining"}
  /\ quitSession \in Sessions \cup {None}
  /\ lock \in Sessions \cup {None, "Repair", "Other"}
  /\ file \in {"Old", "None", "Fresh"}
  /\ saved \in BOOLEAN

\* A command runs only while the session it was admitted to holds the lock
\* file (DatabaseJobPermit::acquire against take_active and the drains), so
\* nobody reopens or replaces the database beneath it.
JobsRunUnderTheLock ==
  \A w \in Workers : job[w] = "Running" => lock = jobSession[w]

\* Unless the application is quitting, the session the operation shows admits
\* jobs and holds the lock (create_data, Settle and Repaired).
ReadySessionServes ==
  phase \in {"Ready", "Refreshing"} /\ quitting = "No" =>
    /\ active[session] = "Session"
    /\ accepting[session]
    /\ lock = session

\* Unless the application is quitting, it does not hold the lock while it
\* reports the database unavailable: a retry meets no lock of its own
\* (retire_failed_refresh and the leases of the two repairs).
UnavailableHoldsNoLock ==
  phase = "Unavailable" /\ quitting = "No" => lock \in {None, "Other"}

\* The user's data is in place or completely backed up, whatever step of the
\* replacement fails or crashes (backup_and_create_fresh).
NothingIsLost == file = "Old" \/ saved

\* The database file changes only while no command runs on it: a repair starts
\* after the old session's jobs are over (retire_failed_refresh).
FileChangesAlone ==
  [][file' # file => \A w \in Workers : job[w] # "Running"]_vars

\* A failed refresh becomes repairable: the retirement ends although jobs it
\* turns away count themselves for a moment (DatabaseJobPermit::acquire).
RetirementEnds == phase = "Retiring" ~> phase # "Retiring"

\* A managed quit ends, whichever of the two tasks took the session first
\* (quit_app against retire_failed_refresh).
QuitEnds == quitting # "No" ~> process = "Down"

\* What the design promises: a managed quit never ends the process beneath a
\* command that holds a permit (docs/dev/issue-177/README.md).
QuitWaitsForJobs ==
  [][QuitDone => \A w \in Jobs : job[w] # "Running"]_vars
=============================================================================
