------------------------ MODULE ConversationRuntime ------------------------
(***************************************************************************)
(* ConversationRuntimeStore (app/jaco features/conversation/runtime.rs):   *)
(* at most one attempt per conversation, from the submission of a message  *)
(* over the agent run it starts to the run's end, a stop or the shutdown   *)
(* of the runtime, together with                                           *)
(*   - the task of each attempt (the submission, then the agent run),      *)
(*   - the publication channel and the listener of each run,               *)
(*   - the cleanup task of a stopped run,                                  *)
(*   - the agent_runs rows in the database and their recovery,             *)
(*   - crashes of the process, after which only the rows remain.           *)
(*                                                                         *)
(* An attempt is named by a number that is never used again; it stands for *)
(* the tasks and channels the attempt owns.  What the code compares is the *)
(* attempt's key, which wraps around and starts over in a new process.     *)
(*                                                                         *)
(* An operator Name_Variant is Name with a plausible slip; the runs that   *)
(* use this module are checked to tell the two apart.                      *)
(***************************************************************************)
EXTENDS Integers, Sequences, RefreshTransitions

CONSTANTS
  Conversations,
  KeyModulus,    \* the number of distinct keys: 2^64
  MaxAttempts,   \* bound: attempts over all processes
  MaxQueued,     \* bound: a run publishes progress below this queue length
  MaxRestarts    \* bound: crashes

ASSUME BoundsAreNaturals ==
  /\ MaxAttempts \in Nat
  /\ MaxQueued \in Nat
  /\ MaxRestarts \in Nat
ASSUME KeyModulusIsPositive == KeyModulus \in Nat \ {0}

Attempts  == 1..MaxAttempts
NoAttempt == 0

VARIABLES
  \* fields of ConversationRuntimeStore
  activeRuns,    \* conversation -> the attempt it is busy with
  lastErrors,    \* the conversations with an error to show
  nextRunKey,
  shuttingDown,
  recovery,      \* refresh operation
  \* the registry's retained conversation models
  retained,
  \* per attempt: what its tasks captured, and where they are
  issued,        \* the attempts submitted so far
  ticket,        \* attempt -> its ConversationSubmissionTicket
  task,          \* attempt -> the step its task is at
  failed,        \* attempt -> its run ended with an error
  cancelled,     \* attempt -> its cancellation token
  pending,       \* attempt -> its approval broker holds a request
  decision,      \* attempt -> the decision sent to the waiting run
  channel,       \* attempt -> the publications sent and not yet received
  listener,      \* attempt -> its event task
  cleanup,       \* attempt -> its stop's cleanup task
  sweep,         \* attempt -> rows its cleanup has listed and not yet canceled
  \* tasks of the store
  recoveryTask, recoverySweep,
  shutdownTask, awaited,
  \* the database
  row,           \* attempt -> status of its agent_runs row
  \* history
  announced,     \* attempt -> the events emitted for its ticket
  lost,          \* attempt -> a publication of it was refused or dropped
  unsettled,     \* attempt -> its final commit failed in this process
  restarts

storeVars    == <<activeRuns, lastErrors, nextRunKey, shuttingDown, recovery>>
runVars      == <<task, failed, cancelled, pending, decision, channel, listener>>
stopVars     == <<cleanup, sweep>>
recoveryVars == <<recoveryTask, recoverySweep>>
shutdownVars == <<shutdownTask, awaited>>
historyVars  == <<announced, lost, unsettled, restarts>>

vars == <<storeVars, retained, issued, ticket, runVars, stopVars, recoveryVars,
          shutdownVars, row, historyVars>>

-----------------------------------------------------------------------------
(* ActiveRuns: HashMap<ConversationId, ConversationAttempt>.  An entry holds
   the attempt's tasks; its key is the key of the attempt's ticket. *)

Vacant          == [phase |-> "Idle", attempt |-> NoAttempt, runKnown |-> FALSE]
Entry(ph, a, k) == [phase |-> ph, attempt |-> a, runKnown |-> k]

NoTicket == [conversation |-> None, key |-> 0]

Conv(a) == ticket[a].conversation

RunStatus(c) == activeRuns[c].phase

\* The test every transition makes before it moves an entry.
Matches_AnyPhase(a, phases) ==
  LET entry == activeRuns[Conv(a)]
  IN  entry.phase # "Idle" /\ ticket[entry.attempt].key = ticket[a].key
Matches(a, phases) ==
  LET entry == activeRuns[Conv(a)]
  IN  entry.phase \in phases /\ ticket[entry.attempt].key = ticket[a].key

SetEntry(c, entry) == activeRuns' = [activeRuns EXCEPT ![c] = entry]
Vacate_OnlyPhase(c) == SetEntry(c, Entry("Idle", activeRuns[c].attempt, FALSE))
Vacate_Forgotten(c) == UNCHANGED activeRuns
Vacate(c)           == SetEntry(c, Vacant)

Step(a, step)      == task' = [task EXCEPT ![a] = step]
Announce(a, said)  == announced' = [announced EXCEPT ![a] = @ \o said]

\* A send; without a receiver it fails, and the code goes on.
Publish(a, what) ==
  channel' = IF listener[a] = "Listening"
             THEN [channel EXCEPT ![a] = @ \o what] ELSE channel

\* The publications the registry is to apply.
IsData(message) == message \in {"Timeline", "Commit"}

\* Dropping the listener drops what is in its channel.
DropListener(a) ==
  /\ listener' = [listener EXCEPT ![a] = "Ended"]
  /\ channel' = [channel EXCEPT ![a] = <<>>]
  /\ lost' = [lost EXCEPT ![a] = @ \/ \E i \in DOMAIN channel[a] : IsData(channel[a][i])]

RecoveryReady       == recovery.phase = "Ready"
Open                == ~shuttingDown /\ RecoveryReady

\* The end of a run or of its stop: the entry is removed and its broker,
\* listener and retained model go with it.
Release(a) ==
  /\ Vacate(Conv(a))
  /\ pending' = [pending EXCEPT ![a] = FALSE]
  /\ DropListener(a)
  /\ retained' = retained \ {Conv(a)}
  /\ Announce(a, <<"Finished">>)

-----------------------------------------------------------------------------
(* Submission *)

\* submit_message / submit_new_conversation.  A busy conversation, a runtime
\* that shuts down or has not recovered refuses and changes nothing.
Submit(c) ==
  /\ issued < MaxAttempts
  /\ RunStatus(c) = "Idle"
  /\ Open
  /\ LET a == issued + 1
     IN  /\ issued' = a
         /\ ticket' = [ticket EXCEPT ![a] = [conversation |-> c, key |-> nextRunKey]]
         /\ SetEntry(c, Entry("Submitting", a, FALSE))
         /\ Step(a, "Writing")
  /\ nextRunKey' = (nextRunKey + 1) % KeyModulus
  /\ lastErrors' = lastErrors \ {c}
  /\ UNCHANGED <<shuttingDown, recovery, retained, failed, cancelled, pending,
                 decision, channel, listener, stopVars, recoveryVars,
                 shutdownVars, row, historyVars>>

\* finish_submission with an error: nothing was committed.
RejectSubmission(a) ==
  /\ task[a] = "Writing"
  /\ Step(a, "Over")
  /\ IF Matches(a, {"Submitting"})
     THEN Vacate(Conv(a)) /\ Announce(a, <<"SubmissionFailed">>)
     ELSE UNCHANGED <<activeRuns, announced>>
  /\ UNCHANGED <<lastErrors, nextRunKey, shuttingDown, recovery, retained,
                 issued, ticket, failed, cancelled, pending, decision, channel,
                 listener, stopVars, recoveryVars, shutdownVars, row, lost,
                 unsettled, restarts>>

\* finish_submission of a committed message whose run cannot start: the
\* runtime is closed, or the database or the provider is not available.
RefuseLaunch(a) ==
  /\ task[a] = "Writing"
  /\ Step(a, "Over")
  /\ IF Matches(a, {"Submitting"})
     THEN Vacate(Conv(a)) /\ Announce(a, <<"Committed", "LaunchFailed">>)
     ELSE UNCHANGED <<activeRuns, announced>>
  /\ UNCHANGED <<lastErrors, nextRunKey, shuttingDown, recovery, retained,
                 issued, ticket, failed, cancelled, pending, decision, channel,
                 listener, stopVars, recoveryVars, shutdownVars, row, lost,
                 unsettled, restarts>>

\* finish_submission of a committed message: the run task and the listener
\* are spawned and replace the submission in the entry.
LaunchRun(a) ==
  /\ task[a] = "Writing"
  /\ Open
  /\ IF Matches(a, {"Submitting"})
     THEN /\ SetEntry(Conv(a), Entry("Running", a, FALSE))
          /\ Step(a, "Launching")
          /\ listener' = [listener EXCEPT ![a] = "Listening"]
          /\ retained' = retained \cup {Conv(a)}
          /\ Announce(a, <<"Committed", "Started">>)
     ELSE /\ Step(a, "Over")
          /\ UNCHANGED <<activeRuns, listener, retained, announced>>
  /\ UNCHANGED <<lastErrors, nextRunKey, shuttingDown, recovery, issued, ticket,
                 failed, cancelled, pending, decision, channel, stopVars,
                 recoveryVars, shutdownVars, row, lost, unsettled, restarts>>

-----------------------------------------------------------------------------
(* The run task: run_agent_with_saved_provider, drain, finish_run *)

\* Everything a run step may leave alone.
RunFrame == UNCHANGED <<storeVars, retained, issued, ticket, cancelled, stopVars,
                        recoveryVars, shutdownVars, announced, lost, restarts>>

\* begin_run looks at the token once, before it asks for the row.
CheckToken(a) ==
  /\ task[a] = "Launching"
  /\ Step(a, IF cancelled[a] THEN "Ending" ELSE "Inserting")
  /\ failed' = [failed EXCEPT ![a] = cancelled[a]]
  /\ UNCHANGED <<pending, decision, channel, listener, row, unsettled>>
  /\ RunFrame

\* Tool registration or the insert fails: there is no row.
BeginFails(a) ==
  /\ task[a] \in {"Launching", "Inserting"}
  /\ Step(a, "Ending")
  /\ failed' = [failed EXCEPT ![a] = TRUE]
  /\ UNCHANGED <<pending, decision, channel, listener, row, unsettled>>
  /\ RunFrame

InsertRow(a) ==
  /\ task[a] = "Inserting"
  /\ Step(a, "Executing")
  /\ row' = [row EXCEPT ![a] = "Running"]
  /\ Publish(a, <<"Started", "Timeline">>)
  /\ UNCHANGED <<failed, pending, decision, listener, unsettled>>
  /\ RunFrame

\* The run commits an entry, a step or a tool invocation and publishes it.
Progress(a) ==
  /\ task[a] = "Executing"
  /\ Len(channel[a]) < MaxQueued
  /\ Publish(a, <<"Timeline">>)
  /\ UNCHANGED <<task, failed, pending, decision, listener, row, unsettled>>
  /\ RunFrame

\* await_tool_approval registers whatever the token says (one request at a
\* time is a bound of the model).
RequestApproval(a) ==
  /\ task[a] = "Executing"
  /\ ~pending[a]
  /\ Len(channel[a]) < MaxQueued
  /\ Step(a, "Awaiting")
  /\ pending' = [pending EXCEPT ![a] = TRUE]
  /\ Publish(a, <<"Approval">>)
  /\ UNCHANGED <<failed, decision, listener, row, unsettled>>
  /\ RunFrame

\* select! { biased; token, decision }: the token wins, and then the request
\* may stay in the broker.
Answered_DecisionOnly(a) ==
  /\ task[a] = "Awaiting"
  /\ decision[a] # "None"
  /\ Step(a, "Executing")
  /\ decision' = [decision EXCEPT ![a] = "None"]
  /\ UNCHANGED <<failed, pending, channel, listener, row, unsettled>>
  /\ RunFrame
Answered(a) ==
  /\ task[a] = "Awaiting"
  /\ cancelled[a] \/ decision[a] # "None"
  /\ Step(a, "Executing")
  /\ decision' = [decision EXCEPT ![a] = "None"]
  /\ UNCHANGED <<failed, pending, channel, listener, row, unsettled>>
  /\ RunFrame

\* finish_agent_run: the guarded update, a terminal row is returned as it is.
FinishRow(a, status) ==
  row' = [row EXCEPT ![a] = IF @ = "Running" THEN status ELSE @]

\* finish_agent_run_with_observer.  Whatever the run was doing, its outcome
\* is canceled only if its token is.
Finalize(a, status) ==
  /\ task[a] = "Executing"
  /\ status = "Canceled" => cancelled[a]
  /\ Step(a, "Ending")
  /\ FinishRow(a, status)
  /\ Publish(a, <<"Commit">>)
  /\ UNCHANGED <<failed, pending, decision, listener, unsettled>>
  /\ RunFrame

\* The final commit fails, or the task on the tokio runtime panics and never
\* makes it: the row is left as it is, for recovery.
FinalizeFails(a) ==
  /\ task[a] = "Executing"
  /\ Step(a, "Ending")
  /\ failed' = [failed EXCEPT ![a] = TRUE]
  /\ unsettled' = [unsettled EXCEPT ![a] = TRUE]
  /\ UNCHANGED <<pending, decision, channel, listener, row>>
  /\ RunFrame

\* drain_runtime_publications: the send fails if the listener is gone.
SendDrain_Skipped(a) ==
  /\ task[a] = "Ending"
  /\ Step(a, "Finishing")
  /\ UNCHANGED <<failed, pending, decision, channel, listener, row, unsettled>>
  /\ RunFrame
SendDrain(a) ==
  /\ task[a] = "Ending"
  /\ IF listener[a] = "Listening"
     THEN Step(a, "Draining") /\ Publish(a, <<"Drain">>)
     ELSE Step(a, "Finishing") /\ UNCHANGED channel
  /\ UNCHANGED <<failed, pending, decision, listener, row, unsettled>>
  /\ RunFrame

\* The acknowledgement, or the error that the listener is gone without one.
Drained(a) ==
  /\ task[a] = "Draining"
  /\ listener[a] = "Ended"
  /\ Step(a, "Finishing")
  /\ UNCHANGED <<failed, pending, decision, channel, listener, row, unsettled>>
  /\ RunFrame

\* finish_run: only the run the conversation is still Running with.  Dropping
\* the entry drops the listener with what is left in its channel.
FinishRun(a) ==
  /\ task[a] = "Finishing"
  /\ Step(a, "Over")
  /\ IF Matches(a, {"Running"})
     THEN /\ Release(a)
          /\ lastErrors' = IF failed[a] THEN lastErrors \cup {Conv(a)} ELSE lastErrors
     ELSE UNCHANGED <<activeRuns, pending, channel, listener, lost, retained,
                      lastErrors, announced>>
  /\ UNCHANGED <<nextRunKey, shuttingDown, recovery, issued, ticket, failed,
                 cancelled, decision, stopVars, recoveryVars, shutdownVars, row,
                 unsettled, restarts>>

-----------------------------------------------------------------------------
(* The event listener of a run *)

Listen(a) ==
  /\ listener[a] = "Listening"
  /\ channel[a] # <<>>
  /\ channel' = [channel EXCEPT ![a] = Tail(@)]
  /\ LET message == Head(channel[a])
         accepted == Matches(a, {"Running", "Stopping"})
     IN  /\ IF message = "Started" /\ Matches(a, {"Running"})
            THEN SetEntry(Conv(a), Entry("Running", activeRuns[Conv(a)].attempt, TRUE))
            ELSE UNCHANGED activeRuns
         /\ lost' = [lost EXCEPT ![a] = @ \/ (IsData(message) /\ ~accepted)]
         /\ listener' = [listener EXCEPT ![a] = IF message = "Drain" THEN "Ended" ELSE @]
  /\ UNCHANGED <<lastErrors, nextRunKey, shuttingDown, recovery, retained,
                 issued, ticket, task, failed, cancelled, pending, decision,
                 stopVars, recoveryVars, shutdownVars, row, announced,
                 unsettled, restarts>>

-----------------------------------------------------------------------------
(* Decisions of the user on a tool invocation *)

\* can_decide_tool_invocation
Decidable_WhileStopping(c) ==
  /\ Open
  /\ RunStatus(c) \in {"Running", "Stopping"}
  /\ activeRuns[c].runKnown
  /\ pending[activeRuns[c].attempt]
Decidable(c) ==
  /\ Open
  /\ RunStatus(c) = "Running"
  /\ activeRuns[c].runKnown
  /\ pending[activeRuns[c].attempt]

\* resolve_for: the request is removed and its removal published before the
\* waiter is told.
ResolveFor(a, answer) ==
  /\ pending' = [pending EXCEPT ![a] = FALSE]
  /\ Publish(a, <<"Approval">>)
  /\ decision' = [decision EXCEPT ![a] = answer]

Decide(c, answer) ==
  /\ Decidable(c)
  /\ ResolveFor(activeRuns[c].attempt, answer)
  /\ lastErrors' = lastErrors \ {c}
  /\ UNCHANGED <<activeRuns, nextRunKey, shuttingDown, recovery, retained,
                 issued, ticket, task, failed, cancelled, listener, stopVars,
                 recoveryVars, shutdownVars, row, historyVars>>

Approve(c) == Decide(c, "Approved")
Deny(c)    == Decide(c, "Denied")

TakeLastError(c) ==
  /\ c \in lastErrors
  /\ lastErrors' = lastErrors \ {c}
  /\ UNCHANGED <<activeRuns, nextRunKey, shuttingDown, recovery, retained,
                 issued, ticket, runVars, stopVars, recoveryVars, shutdownVars,
                 row, historyVars>>

-----------------------------------------------------------------------------
(* Stopping a run *)

\* Cancel the tokens and the approval requests of a set of attempts, each
\* request's removal published before its waiter is told.
CancelAttempts_RequestsOnly(S) ==
  /\ pending'   = [a \in Attempts |-> pending[a] /\ a \notin S]
  /\ decision'  = [a \in Attempts |-> IF a \in S /\ pending[a] THEN "Canceled"
                                      ELSE decision[a]]
  /\ UNCHANGED <<cancelled, channel>>
CancelAttempts(S) ==
  /\ cancelled' = [a \in Attempts |-> cancelled[a] \/ a \in S]
  /\ pending'   = [a \in Attempts |-> pending[a] /\ a \notin S]
  /\ decision'  = [a \in Attempts |-> IF a \in S /\ pending[a] THEN "Canceled"
                                      ELSE decision[a]]
  /\ channel'   = [a \in Attempts |-> IF a \in S /\ pending[a] /\ listener[a] = "Listening"
                                      THEN Append(channel[a], "Approval")
                                      ELSE channel[a]]

\* stop_run.  Whether the cleanup can use the database is decided here: it
\* captures the persistence, or the error that there is none.
StopRun(c, persistence) ==
  /\ RunStatus(c) = "Running"
  /\ LET a == activeRuns[c].attempt
     IN  /\ CancelAttempts({a})
         /\ SetEntry(c, Entry("Stopping", a, activeRuns[c].runKnown))
         /\ cleanup' = [cleanup EXCEPT ![a] =
                          IF persistence THEN "AwaitRun" ELSE "AwaitRunOffline"]
  /\ lastErrors' = lastErrors \ {c}
  /\ UNCHANGED <<nextRunKey, shuttingDown, recovery, retained, issued, ticket,
                 task, failed, listener, sweep, recoveryVars, shutdownVars, row,
                 historyVars>>

\* Everything a cleanup step leaves alone, up to its end.
CleanupFrame == UNCHANGED <<storeVars, retained, issued, ticket, runVars,
                            recoveryVars, shutdownVars, historyVars>>

\* The run task has ended and its session is closed: list the rows.
CleanupLists_RunStillEnding(a) ==
  /\ cleanup[a] = "AwaitRun"
  /\ cleanup' = [cleanup EXCEPT ![a] = "Cancelling"]
  /\ sweep' = [sweep EXCEPT ![a] = {b \in 1..issued : Conv(b) = Conv(a) /\ row[b] = "Running"}]
  /\ UNCHANGED row
  /\ CleanupFrame
CleanupLists(a) ==
  /\ cleanup[a] = "AwaitRun"
  /\ task[a] = "Over"
  /\ cleanup' = [cleanup EXCEPT ![a] = "Cancelling"]
  /\ sweep' = [sweep EXCEPT ![a] = {b \in 1..issued : Conv(b) = Conv(a) /\ row[b] = "Running"}]
  /\ UNCHANGED row
  /\ CleanupFrame

\* cancel_run: canceled, or failed if its steps and tools cannot be settled.
CleanupCancels(a, b, status) ==
  /\ cleanup[a] = "Cancelling"
  /\ b \in sweep[a]
  /\ FinishRow(b, status)
  /\ sweep' = [sweep EXCEPT ![a] = @ \ {b}]
  /\ UNCHANGED cleanup
  /\ CleanupFrame

\* No database, or an error from it.
CleanupFails(a) ==
  /\ \/ cleanup[a] \in {"AwaitRun", "AwaitRunOffline"} /\ task[a] = "Over"
     \/ cleanup[a] = "Cancelling"
  /\ cleanup' = [cleanup EXCEPT ![a] = "Failed"]
  /\ UNCHANGED <<sweep, row>>
  /\ CleanupFrame

\* finish_stop.  The broker goes with the entry, and what it still holds.
FinishStop(a) ==
  /\ cleanup[a] = "Failed" \/ (cleanup[a] = "Cancelling" /\ sweep[a] = {})
  /\ cleanup' = [cleanup EXCEPT ![a] = "Done"]
  /\ IF Matches(a, {"Stopping"})
     THEN /\ Release(a)
          /\ lastErrors' = IF cleanup[a] = "Failed" THEN lastErrors \cup {Conv(a)}
                           ELSE lastErrors
     ELSE UNCHANGED <<activeRuns, pending, channel, listener, lost, retained,
                      lastErrors, announced>>
  /\ UNCHANGED <<nextRunKey, shuttingDown, recovery, issued, ticket, task,
                 failed, cancelled, decision, sweep, recoveryVars, shutdownVars,
                 row, unsettled, restarts>>

-----------------------------------------------------------------------------
(* Shutdown: before the application quits, and before the database closes *)

ShutdownAll ==
  LET held(phases) == {activeRuns[c].attempt : c \in {d \in Conversations : RunStatus(d) \in phases}}
      submitting == held({"Submitting"})
      running    == held({"Running", "Stopping"})
  IN
  /\ ~shuttingDown
  /\ shuttingDown' = TRUE
  /\ recovery' = Cancel(recovery)
  /\ recoveryTask' = IF IsRunning(recovery) THEN "Dropped" ELSE recoveryTask
  /\ activeRuns' = [c \in Conversations |-> Vacant]
  /\ task' = [a \in Attempts |-> IF a \in submitting THEN "Over" ELSE task[a]]
  /\ CancelAttempts(running)
  /\ lastErrors' = lastErrors \ {c \in Conversations : RunStatus(c) \in {"Running", "Stopping"}}
  /\ announced' = [a \in Attempts |-> IF a \in running THEN Append(announced[a], "Finished")
                                      ELSE announced[a]]
  /\ shutdownTask' = "Waiting"
  /\ awaited' = running
  /\ recoverySweep' = {}
  /\ UNCHANGED <<nextRunKey, retained, issued, ticket, failed, listener,
                 stopVars, row, lost, unsettled, restarts>>

\* What an entry's task field held: the cleanup of a stopped run, else the run.
EntryTaskOver(a) == IF cleanup[a] = "None" THEN task[a] = "Over" ELSE cleanup[a] = "Done"

\* The task shutdown_all returns: every run and every listener has ended.
ShutdownDone ==
  /\ shutdownTask = "Waiting"
  /\ \A a \in awaited : EntryTaskOver(a) /\ listener[a] = "Ended"
  /\ shutdownTask' = "Done"
  /\ UNCHANGED <<storeVars, retained, issued, ticket, runVars, stopVars,
                 recoveryVars, awaited, row, historyVars>>

-----------------------------------------------------------------------------
(* Recovery of the rows an earlier process left *)

RecoveryFrame == UNCHANGED <<activeRuns, lastErrors, nextRunKey, shuttingDown,
                             retained, issued, ticket, runVars, stopVars,
                             shutdownVars, historyVars>>

RecoveryLists ==
  /\ recoveryTask = "Listing"
  /\ recoveryTask' = "Sweeping"
  /\ recoverySweep' = {a \in Attempts : row[a] = "Running"}
  /\ UNCHANGED <<recovery, row>>
  /\ RecoveryFrame

RecoveryFails(a) ==
  /\ recoveryTask = "Sweeping"
  /\ a \in recoverySweep
  /\ recoverySweep' = recoverySweep \ {a}
  /\ FinishRow(a, "Failed")
  /\ UNCHANGED <<recovery, recoveryTask>>
  /\ RecoveryFrame

\* The task ends, with the database's error at any point of it.
CompleteRecovery_AfterOneRow(result) ==
  /\ recoveryTask \in {"Listing", "Sweeping"}
  /\ result.ok => recoveryTask = "Sweeping"
  /\ recoveryTask' = "Over"
  /\ recovery' = IF IsRunning(recovery) THEN Complete(recovery, result) ELSE recovery
  /\ UNCHANGED <<recoverySweep, row>>
  /\ RecoveryFrame
CompleteRecovery(result) ==
  /\ recoveryTask \in {"Listing", "Sweeping"}
  /\ result.ok => recoveryTask = "Sweeping" /\ recoverySweep = {}
  /\ recoveryTask' = "Over"
  /\ recovery' = IF IsRunning(recovery) THEN Complete(recovery, result) ELSE recovery
  /\ UNCHANGED <<recoverySweep, row>>
  /\ RecoveryFrame

\* retry_recovery_if_needed: the user asks again.
RetryRecovery ==
  /\ ~shuttingDown
  /\ recovery.phase \in {"Unavailable", "Degraded"}
  /\ recovery' = Retry(recovery, "RecoveryTask")
  /\ recoveryTask' = IF IsRunning(Retry(recovery, "RecoveryTask")) THEN "Listing" ELSE recoveryTask
  /\ UNCHANGED <<recoverySweep, row>>
  /\ RecoveryFrame

RecoveryResults == {Ok("Recovered"), Err("RecoveryProblem")}

-----------------------------------------------------------------------------
(* The process *)

\* create: an empty store that recovers first.
FreshStore ==
  /\ activeRuns' = [c \in Conversations |-> Vacant]
  /\ lastErrors' = {}
  /\ nextRunKey' = 0
  /\ shuttingDown' = FALSE
  /\ recovery' = Load(Idle, "RecoveryTask")
  /\ recoveryTask' = "Listing"
  /\ recoverySweep' = {}

\* The process ends at any moment and starts again: the rows are what is left.
Restart ==
  /\ restarts < MaxRestarts
  /\ restarts' = restarts + 1
  /\ FreshStore
  /\ retained' = {}
  /\ task' = [a \in Attempts |-> IF task[a] = "None" THEN "None" ELSE "Over"]
  /\ pending' = [a \in Attempts |-> FALSE]
  /\ channel' = [a \in Attempts |-> <<>>]
  /\ listener' = [a \in Attempts |-> IF listener[a] = "None" THEN "None" ELSE "Ended"]
  /\ cleanup' = [a \in Attempts |-> IF cleanup[a] = "None" THEN "None" ELSE "Done"]
  /\ sweep' = [a \in Attempts |-> {}]
  /\ shutdownTask' = "None"
  /\ awaited' = {}
  /\ announced' = [a \in Attempts |-> IF a <= issued THEN <<"Crashed">> ELSE <<>>]
  /\ failed' = [a \in Attempts |-> FALSE]
  /\ cancelled' = [a \in Attempts |-> FALSE]
  /\ decision' = [a \in Attempts |-> "None"]
  /\ lost' = [a \in Attempts |-> FALSE]
  /\ unsettled' = [a \in Attempts |-> FALSE]
  /\ UNCHANGED <<issued, ticket, row>>

Init ==
  /\ activeRuns = [c \in Conversations |-> Vacant]
  /\ lastErrors = {}
  /\ nextRunKey = 0
  /\ shuttingDown = FALSE
  /\ recovery = Load(Idle, "RecoveryTask")
  /\ retained = {}
  /\ issued = 0
  /\ ticket = [a \in Attempts |-> NoTicket]
  /\ task = [a \in Attempts |-> "None"]
  /\ failed = [a \in Attempts |-> FALSE]
  /\ cancelled = [a \in Attempts |-> FALSE]
  /\ pending = [a \in Attempts |-> FALSE]
  /\ decision = [a \in Attempts |-> "None"]
  /\ channel = [a \in Attempts |-> <<>>]
  /\ listener = [a \in Attempts |-> "None"]
  /\ cleanup = [a \in Attempts |-> "None"]
  /\ sweep = [a \in Attempts |-> {}]
  /\ recoveryTask = "Listing"
  /\ recoverySweep = {}
  /\ shutdownTask = "None"
  /\ awaited = {}
  /\ row = [a \in Attempts |-> "None"]
  /\ announced = [a \in Attempts |-> <<>>]
  /\ lost = [a \in Attempts |-> FALSE]
  /\ unsettled = [a \in Attempts |-> FALSE]
  /\ restarts = 0
-----------------------------------------------------------------------------
(* The specification *)

Submitted(a) == RejectSubmission(a) \/ RefuseLaunch(a) \/ LaunchRun(a)

Settles(a) == FinalizeFails(a) \/ \E s \in {"Completed", "Failed", "Canceled"} : Finalize(a, s)

Begins(a) == CheckToken(a) \/ BeginFails(a) \/ InsertRow(a)

Ends(a) == SendDrain(a) \/ Drained(a) \/ FinishRun(a)

Cleans(a) ==
  \/ CleanupLists(a)
  \/ \E b \in Attempts, s \in {"Canceled", "Failed"} : CleanupCancels(a, b, s)
  \/ CleanupFails(a)
  \/ FinishStop(a)

Recovers ==
  \/ RecoveryLists
  \/ \E a \in Attempts : RecoveryFails(a)
  \/ \E r \in RecoveryResults : CompleteRecovery(r)

Next ==
  \/ \E c \in Conversations :
       \/ Submit(c) \/ Approve(c) \/ Deny(c) \/ TakeLastError(c)
       \/ \E persistence \in BOOLEAN : StopRun(c, persistence)
  \/ \E a \in Attempts :
       \/ Submitted(a) \/ Begins(a) \/ Progress(a) \/ RequestApproval(a)
       \/ Answered(a) \/ Settles(a) \/ Ends(a) \/ Listen(a) \/ Cleans(a)
  \/ ShutdownAll \/ ShutdownDone
  \/ Recovers \/ RetryRecovery
  \/ Restart

\* The executors run what is runnable, the database answers, and a run that
\* is told to cancel ends.  Nothing makes a run end by itself, and the user
\* owes nothing.
Fairness ==
  /\ \A a \in Attempts :
       /\ WF_vars(Submitted(a) \/ Begins(a) \/ Answered(a) \/ Ends(a)
                  \/ (cancelled[a] /\ Settles(a)))
       /\ WF_vars(Listen(a))
       /\ WF_vars(Cleans(a))
  /\ WF_vars(ShutdownDone)
  /\ WF_vars(Recovers)

Spec == Init /\ [][Next]_vars
FairSpec == Spec /\ Fairness

-----------------------------------------------------------------------------
(* Type invariant *)

Messages == {"Started", "Timeline", "Commit", "Approval", "Drain"}
TaskSteps == {"None", "Writing", "Launching", "Inserting", "Executing", "Awaiting",
              "Ending", "Draining", "Finishing", "Over"}
CleanupSteps == {"None", "AwaitRun", "AwaitRunOffline", "Cancelling", "Failed", "Done"}
Events == {"Committed", "SubmissionFailed", "LaunchFailed", "Started", "Finished", "Crashed"}
Announcements == {<<>>, <<"SubmissionFailed">>, <<"Committed", "LaunchFailed">>,
                  <<"Committed", "Started">>, <<"Committed", "Started", "Finished">>,
                  <<"Crashed">>}
RecoveryOperations ==
  {Load(Idle, "RecoveryTask"), Idle, Ready("Recovered"), Unavailable("RecoveryProblem"),
   Retry(Unavailable("RecoveryProblem"), "RecoveryTask")}

Entries == {Vacant} \cup
  [phase : {"Submitting", "Running", "Stopping"}, attempt : Attempts, runKnown : BOOLEAN]
Tickets == [conversation : Conversations \cup {None}, key : 0..(KeyModulus - 1)]

StoreTypeOK ==
  /\ activeRuns \in [Conversations -> Entries]
  /\ lastErrors \subseteq Conversations
  /\ nextRunKey \in 0..(KeyModulus - 1)
  /\ shuttingDown \in BOOLEAN
  /\ recovery \in RecoveryOperations
  /\ retained \subseteq Conversations

AttemptTypeOK ==
  /\ issued \in 0..MaxAttempts
  /\ ticket \in [Attempts -> Tickets]
  /\ task \in [Attempts -> TaskSteps]
  /\ failed \in [Attempts -> BOOLEAN]
  /\ cancelled \in [Attempts -> BOOLEAN]

TalkTypeOK ==
  /\ pending \in [Attempts -> BOOLEAN]
  /\ decision \in [Attempts -> {"None", "Approved", "Denied", "Canceled"}]
  /\ channel \in [Attempts -> Seq(Messages)]
  /\ listener \in [Attempts -> {"None", "Listening", "Ended"}]

CleanupTypeOK ==
  /\ cleanup \in [Attempts -> CleanupSteps]
  /\ sweep \in [Attempts -> SUBSET Attempts]
  /\ recoveryTask \in {"Listing", "Sweeping", "Dropped", "Over"}
  /\ recoverySweep \subseteq Attempts
  /\ shutdownTask \in {"None", "Waiting", "Done"}
  /\ awaited \subseteq Attempts

RecordTypeOK ==
  /\ row \in [Attempts -> {"None", "Running", "Completed", "Failed", "Canceled"}]
  /\ announced \in [Attempts -> Seq(Events)]
  /\ lost \in [Attempts -> BOOLEAN]
  /\ unsettled \in [Attempts -> BOOLEAN]
  /\ restarts \in 0..MaxRestarts

\* Every variable has its type.
TypeOK == StoreTypeOK /\ AttemptTypeOK /\ TalkTypeOK /\ CleanupTypeOK /\ RecordTypeOK

-----------------------------------------------------------------------------
(* Safety *)

\* Something of the attempt still runs: its submission, its run, or the
\* cleanup of its stop.
Live(a) == task[a] \notin {"None", "Over"} \/ cleanup[a] \notin {"None", "Done"}

\* No attempt is ever forgotten while a task of it runs: it is the entry of
\* its conversation, in the phase its tasks are in, or the shutdown waits for
\* it.  So a conversation is never busy with two attempts, a Stopping entry
\* stays until its cleanup is over, and a shutdown that is done left nothing.
LiveAttemptIsRegistered ==
  \A a \in Attempts : Live(a) =>
    \/ shuttingDown /\ shutdownTask = "Waiting" /\ a \in awaited
    \/ /\ ~shuttingDown
       /\ activeRuns[Conv(a)].attempt = a
       /\ RunStatus(Conv(a)) =
            CASE task[a] = "Writing"   -> "Submitting"
              [] cleanup[a] # "None"   -> "Stopping"
              [] OTHER                 -> "Running"

\* Two live attempts are never attempts of the same conversation (R-1300).
OneLiveAttempt ==
  \A a, b \in Attempts : Live(a) /\ Live(b) /\ Conv(a) = Conv(b) => a = b

\* Once recovery is done, a row that says Running is the row of a run that
\* runs, unless the database refused the run's final commit.
RunningRowHasARun ==
  RecoveryReady =>
    \A a \in Attempts : row[a] = "Running" =>
      task[a] \in {"Executing", "Awaiting"} \/ unsettled[a]

\* Recovery settles rows only while no attempt runs: it cannot fail the row of
\* a live run.
RecoveryLeavesLiveRunsAlone ==
  recoveryTask \in {"Listing", "Sweeping"} => \A a \in Attempts : ~Live(a)

\* A step that ends a stop of conversation c without an error.
StopSettlesItsRows ==
  \A c \in Conversations :
    /\ RunStatus(c) = "Stopping" /\ RunStatus(c)' = "Idle"
    /\ c \notin lastErrors' /\ ~shuttingDown' /\ restarts' = restarts
    => \A a \in Attempts : Conv(a)' = c => row'[a] # "Running"

\* A stop that reports no error left no row of the conversation Running.
StopLeavesNoRunningRow == [][StopSettlesItsRows]_vars

\* Every data publication of a run reaches the registry before the run leaves
\* the map; only a shutdown gives publications up.
PublicationsReachRegistry ==
  \A a \in Attempts : lost[a] => shuttingDown

\* What the ticket's holder hears is one of the three histories, at the pace
\* of the entry: nothing while Submitting, Committed and Started while Running
\* or Stopping, and exactly one closing event when the entry goes.  A shutdown
\* closes the runs and says nothing of the submissions it drops.
EventsFollowTheEntry ==
  /\ \A c \in Conversations : RunStatus(c) # "Idle" =>
       announced[activeRuns[c].attempt] =
         (IF RunStatus(c) = "Submitting" THEN <<>> ELSE <<"Committed", "Started">>)
  /\ \A a \in 1..issued :
       /\ announced[a] \in Announcements
       /\ announced[a] = <<"Committed", "Started">> =>
            RunStatus(Conv(a)) # "Idle" /\ activeRuns[Conv(a)].attempt = a
       /\ announced[a] = <<>> /\ ~shuttingDown => task[a] = "Writing"

\* Whenever the user may decide on a request, the run waits for the decision
\* and has not been given one.
DecidableRequestHasAWaiter ==
  \A a \in Attempts :
    pending[a] /\ ~cancelled[a] => task[a] = "Awaiting" /\ decision[a] = "None"

\* After a stop or a shutdown has cancelled a run, no approval and no denial
\* reaches it any more, even for a request that was registered too late to be
\* cancelled with the others.
NoDecisionAfterCancel ==
  [][\A a \in Attempts :
       cancelled[a] => decision'[a] \in {decision[a], "None", "Canceled"}]_vars

\* An error is shown for a conversation that does nothing, never next to a
\* newer attempt; and the registry retains the models of exactly the
\* conversations that run.
IdleBookkeeping ==
  /\ \A c \in lastErrors : RunStatus(c) = "Idle"
  /\ ~shuttingDown => retained = {c \in Conversations : RunStatus(c) \in {"Running", "Stopping"}}

-----------------------------------------------------------------------------
(* Liveness, under FairSpec *)

\* A stop ends: the conversation becomes idle again.
StopEnds ==
  \A c \in Conversations : RunStatus(c) = "Stopping" ~> RunStatus(c) = "Idle"

\* A submission becomes a run or an error.
SubmissionResolves ==
  \A c \in Conversations : RunStatus(c) = "Submitting" ~> RunStatus(c) # "Submitting"

\* A shutdown ends (or the process does first).
ShutdownEnds == shuttingDown ~> (shutdownTask = "Done" \/ ~shuttingDown)

=============================================================================
