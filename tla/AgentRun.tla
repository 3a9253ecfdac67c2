------------------------------ MODULE AgentRun ------------------------------
(***************************************************************************)
(* One agent run of jaco-agent and the record it leaves in the database.   *)
(*                                                                         *)
(* The run's task (run_started_with_model_observed_inner) drives the agent *)
(* loop, a future that calls the provider, asks for approvals and runs     *)
(* tools.  Everything it does is recorded by commands of the database      *)
(* session, each one transaction on a thread of its own (smol::unblock):   *)
(* the future that sent a command hears of it only when it is polled       *)
(* again.  A select drops the future as soon as the run's cancellation     *)
(* token is set, whatever commands are out, and the task then settles the  *)
(* record with what it can read.                                           *)
(*                                                                         *)
(* The texts of a run (answers, reasoning, skills) are left out, except    *)
(* that writing them may fail.  Links between records are left out.        *)
(*                                                                         *)
(* An operator named Name_Variant is a form of Name that the code does not *)
(* have; it stands before Name and no other definition uses it.            *)
(***************************************************************************)
EXTENDS Naturals

CONSTANTS
  Calls,        \* the tool calls the model may ask for
  MaxSteps,     \* the run's max_steps: provider steps it may take
  MaxFailures,  \* bound: database commands that fail
  MaxRestarts   \* bound: crashes of the process

ASSUME AgentRunAssumption ==
  /\ MaxSteps \in Nat \ {0}
  /\ MaxFailures \in Nat
  /\ MaxRestarts \in Nat
  /\ "agent" \notin Calls

VARIABLES
  \* the record
  row,        \* the run's status
  steps,      \* the status of each provider step, "None" before its insert
  usage,      \* the usage events of each provider step
  calls,      \* the status of each tool invocation, "None" before its insert
  approval,   \* the approval kept with each tool invocation
  called,     \* does the conversation have the call's ToolCall entry?
  results,    \* how many ToolResult entries it has for the call
  \* the request
  streaming,  \* does the model stream?
  cancelled,  \* the cancellation token
  \* the run's task
  driver,     \* what the task is doing
  mode,       \* "Run", "Broken" after an error of its own, or "Sweep"
  outcome,    \* the status it means to give the run and its open calls
  openSteps,  \* provider steps it has listed and not yet ended
  openCalls,  \* tool invocations it has listed, with the approval it read
  \* the agent loop
  loop,       \* what the loop is doing, or how it ended
  current,    \* last_provider_step_id, 0 for None
  hook,       \* how far each tool call has come
  policy,     \* what the permission policy says of it
  job,        \* the database command of the loop and of each tool call
  \* bookkeeping of the model
  failures,   \* failed commands so far
  restarts,   \* crashes so far
  cut         \* was the loop dropped with a command out?

record == <<row, steps, usage, calls, approval, called, results>>
request == <<streaming, cancelled>>
task == <<driver, mode, outcome, openSteps, openCalls>>
agent == <<loop, current, hook, policy, job>>
faults == <<failures, restarts, cut>>
vars == <<record, request, task, agent, faults>>

Workers == Calls \cup {"agent"}
Steps == 1..MaxSteps

RunStatus == {"Running", "Completed", "Failed", "Canceled"}
StepStatus == {"None", "Running", "Completed", "Failed", "Canceled"}
Active == {"AwaitingApproval", "Running"}
Ended == {"Succeeded", "Failed", "Denied", "Canceled"}
Approvals == {"None", "Pending", "Approved", "Denied", "Canceled"}

\* the ways the loop ends by itself
LoopResults == {"Completed", "MaxSteps", "Error"}
LoopPhases ==
  LoopResults \cup {"Idle", "Turn", "Inserting", "Calling", "Completing", "Ending", "Tools"}
\* the phases of a tool call in which a command of its is out
Writing ==
  {"Inserting", "Appending", "AutoApproving", "Requesting", "Approving", "Denying",
   "Canceling", "Refusing", "Recording"}
HookPhases == Writing \cup {"Idle", "Start", "Waiting", "Executing", "Done", "Stopped"}
Policies == {"Run", "Auto", "Ask", "Refuse"}
DriverPhases ==
  {"Preparing", "Executing", "Closing", "Listing", "Settling", "SweepList", "Sweeping",
   "Finishing", "Over"}

TypeOK ==
  /\ row \in RunStatus
  /\ steps \in [Steps -> StepStatus]
  /\ usage \in [Steps -> Nat]
  /\ calls \in [Calls -> {"None"} \cup Active \cup Ended]
  /\ approval \in [Calls -> Approvals]
  /\ called \in [Calls -> BOOLEAN]
  /\ results \in [Calls -> Nat]
  /\ streaming \in BOOLEAN
  /\ cancelled \in BOOLEAN
  /\ driver \in DriverPhases
  /\ mode \in {"Run", "Broken", "Sweep"}
  /\ outcome \in RunStatus \ {"Running"}
  /\ openSteps \subseteq Steps
  /\ openCalls \in [Calls -> Approvals \cup {"Unlisted"}]
  /\ loop \in LoopPhases
  /\ current \in 0..MaxSteps
  /\ hook \in [Calls -> HookPhases]
  /\ policy \in [Calls -> Policies]
  /\ job \in [Workers -> {"None", "Out", "Done", "Failed", "Orphan"}]
  /\ failures \in Nat
  /\ restarts \in Nat
  /\ cut \in BOOLEAN

\* begin_run has inserted the run, and the task holds a PreparingAgentRun.
Init ==
  /\ row = "Running"
  /\ steps = [s \in Steps |-> "None"]
  /\ usage = [s \in Steps |-> 0]
  /\ calls = [c \in Calls |-> "None"]
  /\ approval = [c \in Calls |-> "None"]
  /\ called = [c \in Calls |-> FALSE]
  /\ results = [c \in Calls |-> 0]
  /\ streaming \in BOOLEAN
  /\ cancelled = FALSE
  /\ driver = "Preparing"
  /\ mode = "Run"
  /\ outcome = "Failed"
  /\ openSteps = {}
  /\ openCalls = [c \in Calls |-> "Unlisted"]
  /\ loop = "Idle"
  /\ current = 0
  /\ hook = [c \in Calls |-> "Idle"]
  /\ policy = [c \in Calls |-> "Run"]
  /\ job = [w \in Workers |-> "None"]
  /\ failures = 0
  /\ restarts = 0
  /\ cut = FALSE

-----------------------------------------------------------------------------
(* The transactions.                                                       *)

\* next_provider_step_seq numbers the steps from 1 without gaps.
IsNext(s) == steps[s] = "None" /\ \A r \in Steps : r < s => steps[r] # "None"
IsLast(s) == steps[s] # "None" /\ \A r \in Steps : s < r => steps[r] = "None"

StepFrame == UNCHANGED <<row, calls, approval, called, results>>
CallFrame == UNCHANGED <<row, steps, usage>>

InsertStep(s) ==
  /\ IsNext(s)
  /\ steps' = [steps EXCEPT ![s] = "Running"]
  /\ UNCHANGED usage
  /\ StepFrame

CanComplete_Unchecked(s) == TRUE

\* complete_provider_step_with_usage: only a running step is completed.
CanComplete(s) == steps[s] = "Running"

CompleteStep_UsageOutside(s) ==
  /\ steps' = [steps EXCEPT ![s] = IF @ = "Running" THEN "Completed" ELSE @]
  /\ usage' = [usage EXCEPT ![s] = @ + 1]
  /\ StepFrame

\* The step and its usage event, in one transaction.
CompleteStep(s) ==
  /\ CanComplete(s)
  /\ steps' = [steps EXCEPT ![s] = "Completed"]
  /\ usage' = [usage EXCEPT ![s] = @ + 1]
  /\ StepFrame

\* update_provider_step_status: a terminal step is left as it is.
EndStep(s, status) ==
  /\ steps' = [steps EXCEPT ![s] = IF @ = "Running" THEN status ELSE @]
  /\ UNCHANGED usage
  /\ StepFrame

NotEnded_Unchecked(c) == calls[c] # "None"

\* ensure_tool_invocation_not_terminal
NotEnded(c) == calls[c] \in Active

\* A new status and approval of an invocation and, with it, its result entry.
WriteCall(c, status, decision, newResults) ==
  /\ calls' = [calls EXCEPT ![c] = status]
  /\ approval' = [approval EXCEPT ![c] = decision]
  /\ results' = [results EXCEPT ![c] = @ + newResults]
  /\ UNCHANGED called
  /\ CallFrame

\* append_conversation_entries_and_update_tool_invocation_full
EndCall(c, status, decision) == NotEnded(c) /\ WriteCall(c, status, decision, 1)

AppendCall(c) ==
  /\ called' = [called EXCEPT ![c] = TRUE]
  /\ UNCHANGED <<calls, approval, results>>
  /\ CallFrame

\* What the command of the loop does, by the phase the loop is in.
LoopCommand ==
  \E s \in Steps :
    \/ loop = "Inserting" /\ InsertStep(s)
    \/ loop = "Completing" /\ IsLast(s) /\ CompleteStep(s)
    \/ loop = "Ending" /\ IsLast(s) /\ EndStep(s, "Failed")

\* What the command of a tool call does.  A call that asks is inserted as
\* AwaitingApproval, or as Running when a builtin's access rules made it ask.
CallCommand(c) ==
  \/ /\ hook[c] = "Inserting"
     /\ \E status \in IF policy[c] = "Ask" THEN Active ELSE {"Running"} :
          WriteCall(c, status, "None", 0)
  \/ hook[c] = "Appending" /\ AppendCall(c)
  \/ hook[c] = "AutoApproving" /\ NotEnded(c) /\ WriteCall(c, "Running", "Approved", 0)
  \/ hook[c] = "Requesting" /\ NotEnded(c) /\ WriteCall(c, "AwaitingApproval", "Pending", 0)
  \/ /\ hook[c] = "Approving"
     /\ approval[c] = "Pending"
     /\ NotEnded(c)
     /\ WriteCall(c, "Running", "Approved", 0)
  \/ hook[c] = "Denying" /\ EndCall(c, "Denied", "Denied")
  \/ hook[c] = "Canceling" /\ EndCall(c, "Canceled", "Canceled")
  \/ /\ hook[c] = "Refusing"
     /\ \E status \in {"Failed", "Denied"} : EndCall(c, status, approval[c])
  \/ /\ hook[c] = "Recording"
     /\ \E status \in {"Succeeded", "Failed", "Denied"} : EndCall(c, status, approval[c])

Command(w) == IF w = "agent" THEN LoopCommand ELSE CallCommand(w)

\* The transaction turns the command down: the row is not what it must be.
TurnedDown(w) ==
  IF w = "agent"
  THEN loop = "Completing" /\ \E s \in Steps : IsLast(s) /\ ~CanComplete(s)
  ELSE /\ hook[w] \notin {"Inserting", "Appending"}
       /\ \/ ~NotEnded(w)
          \/ hook[w] = "Approving" /\ approval[w] # "Pending"

\* The answer waits for the future to be polled; an orphan's goes nowhere.
Answer(w, result) ==
  /\ job' = [job EXCEPT ![w] = IF @ = "Out" THEN result ELSE "None"]
  /\ UNCHANGED <<request, task, loop, current, hook, policy, restarts, cut>>

CommandEnds(w) ==
  /\ job[w] \in {"Out", "Orphan"}
  /\ \/ /\ Command(w)
        /\ Answer(w, "Done")
        /\ UNCHANGED failures
     \/ /\ TurnedDown(w)
        /\ Answer(w, "Failed")
        /\ UNCHANGED <<record, failures>>
     \/ /\ failures < MaxFailures
        /\ failures' = failures + 1
        /\ Answer(w, "Failed")
        /\ UNCHANGED record

-----------------------------------------------------------------------------
(* The agent loop.  The task polls it, the token first: a step of the loop *)
(* happens while the task executes and the token is not set.               *)

Polled == driver = "Executing" /\ ~cancelled

LoopFrame == UNCHANGED <<record, request, task, faults>>

Send(w) == job' = [job EXCEPT ![w] = "Out"]
Take(w) == job' = [job EXCEPT ![w] = "None"]

\* Rig begins a model call, or ends the run when max_steps are used up.
BeginTurn ==
  /\ Polled
  /\ loop = "Turn"
  /\ IF \E s \in Steps : IsNext(s)
     THEN loop' = "Inserting" /\ Send("agent")
     ELSE loop' = "MaxSteps" /\ UNCHANGED job
  /\ UNCHANGED <<current, hook, policy>>
  /\ LoopFrame

\* insert_provider_step comes back: only now is the step the current one.
StepInserted ==
  /\ Polled
  /\ loop = "Inserting"
  /\ \/ /\ job["agent"] = "Done"
        /\ \E s \in Steps : IsLast(s) /\ current' = s
        /\ loop' = "Calling"
     \/ /\ job["agent"] = "Failed"
        /\ loop' = "Error"
        /\ UNCHANGED current
  /\ Take("agent")
  /\ UNCHANGED <<hook, policy>>
  /\ LoopFrame

\* The provider answers, asking for some tool calls or for none.  The last
\* step of a stream is completed by the task, every other by the loop.
ProviderAnswers(asked) ==
  /\ Polled
  /\ loop = "Calling"
  /\ \A c \in asked : hook[c] = "Idle"
  /\ hook' = [c \in Calls |-> IF c \in asked THEN "Start" ELSE hook[c]]
  /\ IF streaming /\ asked = {}
     THEN loop' = "Completed" /\ UNCHANGED job
     ELSE loop' = "Completing" /\ Send("agent")
  /\ UNCHANGED <<current, policy>>
  /\ LoopFrame

ProviderFails ==
  /\ Polled
  /\ loop = "Calling"
  /\ loop' = "Ending"
  /\ Send("agent")
  /\ UNCHANGED <<current, hook, policy>>
  /\ LoopFrame

\* complete_provider_step_with_usage, or fail_provider_step, comes back.
StepEnded ==
  /\ Polled
  /\ loop \in {"Completing", "Ending"}
  /\ job["agent"] \in {"Done", "Failed"}
  /\ current' = IF job["agent"] = "Done" THEN 0 ELSE current
  /\ loop' = IF loop = "Ending" \/ job["agent"] = "Failed" THEN "Error"
             ELSE IF \E c \in Calls : hook[c] = "Start" THEN "Tools"
             ELSE "Completed"
  /\ Take("agent")
  /\ UNCHANGED <<hook, policy>>
  /\ LoopFrame

\* A blocking run keeps the text of an answer in entries; that may fail.
AnswerFails ==
  /\ Polled
  /\ ~streaming
  /\ loop = "Completing"
  /\ job["agent"] = "Done"
  /\ failures < MaxFailures
  /\ failures' = failures + 1
  /\ loop' = "Error"
  /\ current' = 0
  /\ Take("agent")
  /\ UNCHANGED <<record, request, task, hook, policy, restarts, cut>>

-----------------------------------------------------------------------------
(* The tool calls of a turn, in any interleaving.  They are futures of the *)
(* loop: once it has returned, nobody polls them.                          *)

HookMoves(c, phase) ==
  /\ hook' = [hook EXCEPT ![c] = phase]
  /\ job' = [job EXCEPT ![c] = IF phase \in Writing THEN "Out" ELSE "None"]
  /\ UNCHANGED <<loop, current>>
  /\ LoopFrame

\* on_tool_call: a guard stops the run, or the call is inserted.
HookStarts(c) ==
  /\ Polled
  /\ loop = "Tools"
  /\ hook[c] = "Start"
  /\ \/ HookMoves(c, "Stopped") /\ UNCHANGED policy
     \/ \E p \in Policies : policy' = [policy EXCEPT ![c] = p] /\ HookMoves(c, "Inserting")

\* Where the hook goes on from a command that succeeded.
After(c) ==
  CASE hook[c] = "Inserting" -> "Appending"
    [] hook[c] = "Appending" ->
         CASE policy[c] = "Run" -> "Executing"
           [] policy[c] = "Auto" -> "AutoApproving"
           [] policy[c] = "Ask" -> "Requesting"
           [] OTHER -> "Refusing"
    [] hook[c] \in {"AutoApproving", "Approving"} -> "Executing"
    [] hook[c] = "Requesting" -> "Waiting"
    [] hook[c] = "Canceling" -> "Stopped"
    [] OTHER -> "Done"

HookResumes_FailureIgnored(c) ==
  /\ Polled
  /\ loop = "Tools"
  /\ hook[c] \in Writing
  /\ \/ job[c] \in {"Done", "Failed"} /\ HookMoves(c, After(c))
     \/ job[c] = "Done" /\ hook[c] = "Appending" /\ HookMoves(c, "Stopped")
  /\ UNCHANGED policy

\* A command comes back; one that failed stops the run, and so does a policy
\* that cannot be read when the call has been appended.
HookResumes(c) ==
  /\ Polled
  /\ loop = "Tools"
  /\ hook[c] \in Writing
  /\ \/ job[c] = "Done" /\ HookMoves(c, After(c))
     \/ job[c] = "Done" /\ hook[c] = "Appending" /\ HookMoves(c, "Stopped")
     \/ job[c] = "Failed" /\ HookMoves(c, "Stopped")
  /\ UNCHANGED policy

\* The user's decision reaches await_tool_approval.
UserDecides(c) ==
  /\ Polled
  /\ loop = "Tools"
  /\ hook[c] = "Waiting"
  /\ \E phase \in {"Approving", "Denying"} : HookMoves(c, phase)
  /\ UNCHANGED policy

\* The token is set between the task's look at it and the hook's.
WaitSeesToken(c) ==
  /\ driver = "Executing"
  /\ cancelled
  /\ loop = "Tools"
  /\ hook[c] = "Waiting"
  /\ HookMoves(c, "Canceling")
  /\ UNCHANGED policy

\* The tool returns; on_tool_result records what it gave.
ToolReturns(c) ==
  /\ Polled
  /\ loop = "Tools"
  /\ hook[c] = "Executing"
  /\ HookMoves(c, "Recording")
  /\ UNCHANGED policy

\* All calls are answered, or one of them stops the run.  Rig is taken to
\* give the others' commands time to come back before it returns the error.
ToolsEnd ==
  /\ Polled
  /\ loop = "Tools"
  /\ \A c \in Calls : job[c] = "None"
  /\ \/ /\ \E c \in Calls : hook[c] = "Stopped"
        /\ loop' = "Error"
     \/ /\ \A c \in Calls : hook[c] \in {"Idle", "Done"}
        /\ loop' = "Turn"
  /\ UNCHANGED <<current, hook, policy, job>>
  /\ LoopFrame

-----------------------------------------------------------------------------
(* The run's task.                                                         *)

\* A command of the task's fails; what then happens is the action's.
TaskCommandFails ==
  /\ failures < MaxFailures
  /\ failures' = failures + 1
  /\ UNCHANGED <<record, current, cut>>

\* The select drops the loop.  A command that is out runs to its end if its
\* thread has begun, and never runs if not.
DropLoop ==
  /\ job' \in [Workers -> {"None", "Orphan"}]
  /\ \A w \in Workers : job'[w] = "Orphan" => job[w] = "Out"
  /\ cut' = (cut \/ \E w \in Workers : job[w] # "None")

\* The task leaves its own path: from the run to the sweep of a runtime
\* error, from a sweep to the end.
Abandon ==
  /\ IF mode = "Run"
     THEN mode' = "Broken" /\ driver' = "SweepList"
     ELSE UNCHANGED mode /\ driver' = "Finishing"
  /\ outcome' = "Failed"
  /\ openSteps' = {}
  /\ openCalls' = [c \in Calls |-> "Unlisted"]

TaskFrame == UNCHANGED <<request, loop, hook, policy, job, restarts>>
TaskGoes(phase) ==
  driver' = phase /\ UNCHANGED <<mode, outcome, openSteps, openCalls>>

PreparationCanceled ==
  /\ driver = "Preparing"
  /\ cancelled
  /\ driver' = "Finishing"
  /\ outcome' = "Canceled"
  /\ UNCHANGED <<record, request, mode, openSteps, openCalls, agent, faults>>

\* Skills, history or provider cannot be had.
SetupFailed ==
  /\ driver = "Preparing"
  /\ driver' = "Finishing"
  /\ outcome' = "Failed"
  /\ UNCHANGED <<record, request, mode, openSteps, openCalls, agent, faults>>

BeginExecution ==
  /\ driver = "Preparing"
  /\ TaskGoes("Executing")
  /\ loop' = "Turn"
  /\ UNCHANGED <<record, request, current, hook, policy, job, faults>>

TokenWins_AtTurn ==
  /\ driver = "Executing"
  /\ cancelled
  /\ loop = "Turn"
  /\ DropLoop
  /\ TaskGoes("Closing")
  /\ UNCHANGED <<record, request, loop, current, hook, policy, failures, restarts>>

\* The biased arm of the select.
TokenWins ==
  /\ driver = "Executing"
  /\ cancelled
  /\ loop \notin LoopResults
  /\ DropLoop
  /\ TaskGoes("Closing")
  /\ UNCHANGED <<record, request, loop, current, hook, policy, failures, restarts>>

LoopEnds ==
  /\ driver = "Executing"
  /\ loop \in LoopResults
  /\ TaskGoes(IF streaming THEN "Closing" ELSE "Listing")
  /\ UNCHANGED <<record, request, agent, faults>>

\* The streamed text cannot be written, while it arrives or at its end.
TextFails ==
  /\ streaming
  /\ (driver = "Executing" /\ loop = "Calling") \/ driver = "Closing"
  /\ TaskCommandFails
  /\ Abandon
  /\ TaskFrame

\* complete, cancel or fail the current step, if there is one.  Failing to
\* complete it is an error of the run, failing to end it is ignored.
CloseStep ==
  /\ driver = "Closing"
  /\ IF loop = "Completed" /\ ~cancelled
     THEN \/ /\ current # 0
             /\ CompleteStep(current)
             /\ current' = 0
             /\ TaskGoes("Listing")
             /\ UNCHANGED <<failures, cut>>
          \/ (TaskCommandFails /\ Abandon)
     ELSE /\ \/ /\ current # 0
                /\ EndStep(current, IF cancelled THEN "Canceled" ELSE "Failed")
                /\ current' = 0
                /\ UNCHANGED <<failures, cut>>
             \/ current # 0 /\ TaskCommandFails
             \/ current = 0 /\ UNCHANGED <<record, current, failures, cut>>
          /\ TaskGoes("Listing")
  /\ TaskFrame

Verdict_RowKept ==
  IF mode # "Run" THEN outcome
  ELSE IF loop = "MaxSteps" \/ (loop = "Completed" /\ ~cancelled) THEN "Completed"
  ELSE IF cancelled THEN "Canceled" ELSE row

\* What the run comes to, by how its loop ended and by the token.
Verdict ==
  IF mode # "Run" THEN outcome
  ELSE IF loop = "MaxSteps" \/ (loop = "Completed" /\ ~cancelled) THEN "Completed"
  ELSE IF cancelled THEN "Canceled" ELSE "Failed"

Listed_Running(c) == calls[c] = "Running"

\* The finalizer settles an invocation that waits or runs.
Listed(c) == calls[c] \in Active

\* tool_invocations_for_run: the open invocations as they are now.
ListCalls ==
  /\ driver = "Listing"
  /\ \/ /\ outcome' = Verdict
        /\ IF Verdict = "Completed"
           THEN driver' = "Finishing" /\ UNCHANGED openCalls
           ELSE /\ driver' = "Settling"
                /\ openCalls' =
                     [c \in Calls |-> IF Listed(c) THEN approval[c] ELSE "Unlisted"]
        /\ UNCHANGED <<record, mode, openSteps, current, failures, cut>>
     \/ Verdict # "Completed" /\ TaskCommandFails /\ Abandon
  /\ TaskFrame

\* terminalized_pending_approval, of the invocation as it was listed
SettledApproval(c) ==
  CASE openCalls[c] = "None" -> approval[c]
    [] openCalls[c] = "Pending" -> "Canceled"
    [] OTHER -> openCalls[c]

\* finalize_active_tool_invocations stops at the first error.
SettleCall(c) ==
  /\ driver = "Settling"
  /\ openCalls[c] # "Unlisted"
  /\ \/ /\ EndCall(c, outcome, SettledApproval(c))
        /\ openCalls' = [openCalls EXCEPT ![c] = "Unlisted"]
        /\ UNCHANGED <<driver, mode, outcome, openSteps, current, failures, cut>>
     \/ ~NotEnded(c) /\ Abandon /\ UNCHANGED <<record, current, failures, cut>>
     \/ TaskCommandFails /\ Abandon
  /\ TaskFrame

\* A canceled run looks up its last answer before it ends, which may fail.
CallsSettled ==
  /\ driver = "Settling"
  /\ \A c \in Calls : openCalls[c] = "Unlisted"
  /\ \/ TaskGoes("Finishing") /\ UNCHANGED <<record, current, failures, cut>>
     \/ outcome = "Canceled" /\ TaskCommandFails /\ Abandon
  /\ TaskFrame

\* An error among the steps ends a sweep of cancel_run or of the recovery;
\* the sweep of a runtime error goes on to the tools.
StepsAbandoned ==
  /\ TaskCommandFails
  /\ IF mode = "Broken" THEN driver' = "Listing" ELSE driver' = "Finishing"
  /\ outcome' = "Failed"
  /\ openSteps' = {}
  /\ UNCHANGED <<mode, openCalls>>

\* finalize_active_provider_steps
ListSteps ==
  /\ driver = "SweepList"
  /\ \/ /\ openSteps' = {s \in Steps : steps[s] = "Running"}
        /\ driver' = "Sweeping"
        /\ UNCHANGED <<record, mode, outcome, openCalls, current, failures, cut>>
     \/ StepsAbandoned
  /\ TaskFrame

SweepStep(s) ==
  /\ driver = "Sweeping"
  /\ s \in openSteps
  /\ \/ /\ EndStep(s, outcome)
        /\ openSteps' = openSteps \ {s}
        /\ UNCHANGED <<driver, mode, outcome, openCalls, current, failures, cut>>
     \/ StepsAbandoned
  /\ TaskFrame

StepsSwept ==
  /\ driver = "Sweeping"
  /\ openSteps = {}
  /\ TaskGoes("Listing")
  /\ UNCHANGED <<record, request, agent, faults>>

\* finish_agent_run: a terminal run is left as it is.
FinishRun ==
  /\ driver = "Finishing"
  /\ \/ /\ row' = IF row = "Running" THEN outcome ELSE row
        /\ UNCHANGED <<steps, usage, calls, approval, called, results, current, failures, cut>>
     \/ TaskCommandFails
  /\ TaskGoes("Over")
  /\ TaskFrame

-----------------------------------------------------------------------------
(* Around the run.                                                         *)

\* The user stops the run, or the program ends it.
Cancel ==
  /\ ~cancelled
  /\ driver # "Over"
  /\ cancelled' = TRUE
  /\ UNCHANGED <<record, streaming, task, agent, faults>>

\* cancel_run, once the task of a stopped run has ended
StopCleanup ==
  /\ driver = "Over"
  /\ cancelled
  /\ mode # "Sweep"
  /\ row = "Running"
  /\ driver' = "SweepList"
  /\ mode' = "Sweep"
  /\ outcome' = "Canceled"
  /\ UNCHANGED <<record, request, openSteps, openCalls, agent, faults>>

\* The process dies, and recover_interrupted_runs of the next one sweeps the
\* run if its row still says it runs.
Restart ==
  /\ restarts < MaxRestarts
  /\ restarts' = restarts + 1
  /\ driver' = IF row = "Running" THEN "SweepList" ELSE "Over"
  /\ mode' = "Sweep"
  /\ outcome' = "Failed"
  /\ openSteps' = {}
  /\ openCalls' = [c \in Calls |-> "Unlisted"]
  /\ loop' = "Idle"
  /\ current' = 0
  /\ hook' = [c \in Calls |-> "Idle"]
  /\ job' = [w \in Workers |-> "None"]
  /\ cancelled' = FALSE
  /\ cut' = (cut /\ row # "Running")
  /\ UNCHANGED <<record, streaming, policy, failures>>

-----------------------------------------------------------------------------

LoopStep ==
  \/ BeginTurn \/ StepInserted \/ ProviderFails \/ StepEnded \/ AnswerFails \/ ToolsEnd
  \/ \E asked \in SUBSET Calls : ProviderAnswers(asked)
  \/ \E c \in Calls :
       HookStarts(c) \/ HookResumes(c) \/ UserDecides(c) \/ WaitSeesToken(c) \/ ToolReturns(c)

TaskStep ==
  \/ PreparationCanceled \/ SetupFailed \/ BeginExecution
  \/ TokenWins \/ LoopEnds \/ TextFails \/ CloseStep
  \/ ListCalls \/ CallsSettled \/ (\E c \in Calls : SettleCall(c))
  \/ ListSteps \/ StepsSwept \/ (\E s \in Steps : SweepStep(s))
  \/ FinishRun \/ StopCleanup

Next ==
  \/ LoopStep
  \/ TaskStep
  \/ \E w \in Workers : CommandEnds(w)
  \/ Cancel
  \/ Restart

Spec == Init /\ [][Next]_vars

\* The task is a future of the application's executor: what it can do, it
\* does.  Nothing is assumed of providers, tools and users, nor of the
\* commands of the loop.
FairSpec == Spec /\ WF_vars(TaskStep)

-----------------------------------------------------------------------------
(* Properties.                                                             *)

\* Of the loop's own record, the task's finalizer, orphaned commands and the
\* recovery, exactly one ends a tool call: a terminal invocation has one
\* result entry, an open one none.
OneResultPerCall ==
  \A c \in Calls : results[c] = IF calls[c] \in Ended THEN 1 ELSE 0

\* A provider step is charged once, and only if it completed: a completion
\* that comes after the cancellation or the recovery charges nothing.
UsageIffCompleted ==
  \A s \in Steps : usage[s] = IF steps[s] = "Completed" THEN 1 ELSE 0

\* A tool executes only while its record says so: it is open, not yet
\* settled by anybody, and approved if the policy asked.
ToolRunsOnlyApproved ==
  \A c \in Calls :
    driver = "Executing" /\ hook[c] = "Executing" =>
      /\ calls[c] = "Running"
      /\ policy[c] \in {"Ask", "Auto"} => approval[c] = "Approved"

\* However a run ends (its answer, max_steps, an error of provider, tool,
\* guard or setup, a stop, the recovery after a crash), no step and no tool
\* call of it stays open, as long as no command fails and the loop is not cut
\* down with a command out.
EndedRunLeavesNothingOpen ==
  row # "Running" /\ failures = 0 /\ ~cut =>
    /\ \A s \in Steps : steps[s] # "Running"
    /\ \A c \in Calls : calls[c] \notin Active

\* What has ended keeps its end, whoever writes later.
TerminalRowsStay ==
  [][ /\ row # "Running" => row' = row
      /\ \A s \in Steps : steps[s] \notin {"None", "Running"} => steps'[s] = steps[s]
      /\ \A c \in Calls : calls[c] \in Ended =>
           calls'[c] = calls[c] /\ approval'[c] = approval[c] ]_vars

\* A stopped run ends whatever the provider, the tool or the user it waits
\* for does: its row becomes terminal unless a command fails.
StopSettlesTheRow == cancelled ~> (row # "Running" \/ failures > 0)

\* A result in the conversation has its tool call: build_prompt_history calls
\* the contrary an invariant violation and fails every later run of the
\* conversation.
ResultsHaveTheirCall ==
  row # "Running" /\ (\A w \in Workers : job[w] = "None") =>
    \A c \in Calls : results[c] > 0 => called[c]

=============================================================================
