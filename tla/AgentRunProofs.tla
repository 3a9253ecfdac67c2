--------------------------- MODULE AgentRunProofs ---------------------------
(***************************************************************************)
(* Proofs about AgentRun, for any calls and bounds.                        *)
(*                                                                         *)
(* The inductive invariant is Inv: the types, the two counting properties, *)
(* and what is known of the record of a tool call from the phase its hook  *)
(* is in while the loop lives.  EndedInv adds what may be open, by where   *)
(* the loop and the task are, in a run of which no command fails.          *)
(***************************************************************************)
EXTENDS AgentRun, TLAPS

\* While the loop lives, nothing of it has been orphaned.
Living == driver \in {"Preparing", "Executing"}
NoOrphans == Living => \A w \in Workers : job[w] # "Orphan"

\* An insertion that is out has not happened.
InsertionsAreNew ==
  \A c \in Calls : hook[c] = "Inserting" /\ job[c] \in {"Out", "Orphan"} => calls[c] = "None"

\* Whoever ends steps and calls for a run means it to fail or to be canceled.
SweepsDoNotComplete ==
  driver \in {"SweepList", "Sweeping", "Settling"} => outcome # "Completed"

\* What a living loop knows of the record of its call.
Opened(c) ==
  /\ calls[c] \in Active
  /\ policy[c] # "Ask" => calls[c] = "Running"
Released(c) ==
  /\ calls[c] = "Running"
  /\ policy[c] \in {"Ask", "Auto"} => approval[c] = "Approved"
CallRecord(c) ==
  /\ hook[c] \in {"Idle", "Start"} => calls[c] = "None" /\ job[c] = "None"
  /\ hook[c] = "Inserting" /\ job[c] = "Done" => Opened(c)
  /\ hook[c] = "Appending" => Opened(c)
  /\ hook[c] = "AutoApproving" =>
       Opened(c) /\ policy[c] = "Auto" /\ (job[c] = "Done" => approval[c] = "Approved")
  /\ hook[c] \in {"Requesting", "Waiting"} => Opened(c) /\ policy[c] = "Ask"
  /\ hook[c] = "Approving" =>
       Opened(c) /\ policy[c] = "Ask" /\ (job[c] = "Done" => Released(c))
  /\ hook[c] = "Executing" => Released(c)
CallRecords == Living => \A c \in Calls : CallRecord(c)

Inv ==
  /\ TypeOK
  /\ OneResultPerCall
  /\ UsageIffCompleted
  /\ NoOrphans
  /\ InsertionsAreNew
  /\ SweepsDoNotComplete
  /\ CallRecords

\* The types of the record alone, which the transactions change.
RecordTypes ==
  /\ row \in RunStatus
  /\ steps \in [Steps -> StepStatus]
  /\ usage \in [Steps -> Nat]
  /\ calls \in [Calls -> {"None"} \cup Active \cup Ended]
  /\ approval \in [Calls -> Approvals]
  /\ called \in [Calls -> BOOLEAN]
  /\ results \in [Calls -> Nat]

-----------------------------------------------------------------------------
(* Types.                                                                  *)

\* The record is typed where everything is.
LEMMA TypesOfTheRecord == TypeOK => RecordTypes
  BY DEF TypeOK, RecordTypes

\* The transactions about a provider step keep the types,
LEMMA StepWritesAreTyped ==
  ASSUME RecordTypes, NEW s \in Steps, NEW status \in StepStatus,
         InsertStep(s) \/ CompleteStep(s) \/ EndStep(s, status)
  PROVE  RecordTypes'
  BY DEF RecordTypes, InsertStep, CompleteStep, EndStep, StepFrame, StepStatus

\* and so do those about a tool invocation,
LEMMA CallWritesAreTyped ==
  ASSUME RecordTypes, NEW c \in Calls, NEW status \in Active \cup Ended,
         NEW decision \in Approvals, NEW n \in Nat,
         WriteCall(c, status, decision, n)
  PROVE  RecordTypes'
  BY DEF RecordTypes, WriteCall, CallFrame

\* the ones that end it included.
LEMMA EndingsAreTyped ==
  ASSUME RecordTypes, NEW c \in Calls, NEW status \in Ended,
         NEW decision \in Approvals, EndCall(c, status, decision)
  PROVE  RecordTypes'
  BY CallWritesAreTyped DEF EndCall

\* Every command, of the loop or of a call, leaves a record of the right types.
LEMMA CommandsAreTyped ==
  ASSUME RecordTypes, NEW w \in Workers, Command(w)
  PROVE  RecordTypes'
<1>1. CASE w = "agent"
  <2>1. PICK s \in Steps : InsertStep(s) \/ CompleteStep(s) \/ EndStep(s, "Failed")
    BY <1>1 DEF Command, LoopCommand
  <2>2. QED BY <2>1, StepWritesAreTyped DEF StepStatus
<1>2. CASE w # "agent"
  <2>1. w \in Calls /\ CallCommand(w)
    BY <1>2 DEF Workers, Command
  <2>2. approval[w] \in Approvals
    BY <2>1 DEF RecordTypes
  <2>3. CASE AppendCall(w)
    BY <2>3, <2>1 DEF AppendCall, CallFrame, RecordTypes
  <2>4. CASE \E status \in Active, decision \in {"None", "Pending", "Approved"} :
               WriteCall(w, status, decision, 0)
    BY <2>4, <2>1, CallWritesAreTyped DEF Approvals
  <2>5. CASE \E status \in Ended, decision \in Approvals : EndCall(w, status, decision)
    BY <2>5, <2>1, EndingsAreTyped
  <2>6. QED
    BY <2>1, <2>2, <2>3, <2>4, <2>5 DEF CallCommand, Active, Ended, Approvals
<1>3. QED BY <1>1, <1>2

\* A hook goes on to a phase there is,
LEMMA PhasesAfter ==
  ASSUME NEW c \in Calls PROVE After(c) \in HookPhases
  BY DEF After, HookPhases, Writing

\* and a move to one keeps the types.
LEMMA HookMovesAreTyped ==
  ASSUME TypeOK, NEW c \in Calls, NEW phase \in HookPhases, HookMoves(c, phase),
         policy' \in [Calls -> Policies]
  PROVE  TypeOK'
  BY DEF HookMoves, LoopFrame, TypeOK, Workers, record, request, task, faults

\* Every step keeps the types; what a sweep ends gets a status of its kind.
LEMMA TypeStep ==
  ASSUME AgentRunAssumption, TypeOK, SweepsDoNotComplete, [Next]_vars
  PROVE  TypeOK'
<1>1. CASE BeginTurn
  BY <1>1 DEF BeginTurn, LoopFrame, Send, TypeOK, Workers, LoopPhases,
       LoopResults, record, request, task, agent, faults
<1>2. CASE StepInserted
  BY <1>2 DEF StepInserted, LoopFrame, Take, IsLast, TypeOK,
       AgentRunAssumption, Workers, LoopPhases, LoopResults, Steps, record,
       request, task, agent, faults
<1>3. CASE ProviderFails
  BY <1>3 DEF ProviderFails, LoopFrame, Send, TypeOK, Workers, LoopPhases,
       record, request, task, agent, faults
<1>4. CASE StepEnded
  BY <1>4 DEF StepEnded, LoopFrame, Take, TypeOK, AgentRunAssumption, Workers,
       LoopPhases, LoopResults, record, request, task, agent, faults
<1>5. CASE AnswerFails
  BY <1>5 DEF AnswerFails, Take, TypeOK, AgentRunAssumption, Workers,
       LoopPhases, LoopResults, record, request, task, agent, faults
<1>6. CASE ToolsEnd
  BY <1>6 DEF ToolsEnd, LoopFrame, TypeOK, LoopPhases, LoopResults, record,
       request, task, agent, faults
<1>7. ASSUME NEW asked \in SUBSET Calls, ProviderAnswers(asked) PROVE TypeOK'
  BY <1>7 DEF ProviderAnswers, LoopFrame, Send, TypeOK, Workers, LoopPhases,
       LoopResults, HookPhases, record, request, task, agent, faults
<1>8. ASSUME NEW c \in Calls, HookStarts(c) PROVE TypeOK'
  <2>1. policy' \in [Calls -> Policies]
    BY <1>8 DEF HookStarts, TypeOK
  <2>2. \E phase \in {"Stopped", "Inserting"} : HookMoves(c, phase)
    BY <1>8 DEF HookStarts
  <2>3. QED BY <2>1, <2>2, HookMovesAreTyped DEF HookPhases, Writing
<1>9. ASSUME NEW c \in Calls, HookResumes(c) PROVE TypeOK'
  <2>1. policy' \in [Calls -> Policies]
    BY <1>9 DEF HookResumes, TypeOK
  <2>2. HookMoves(c, After(c)) \/ HookMoves(c, "Stopped")
    BY <1>9 DEF HookResumes
  <2>3. QED BY <2>1, <2>2, HookMovesAreTyped, PhasesAfter DEF HookPhases
<1>10. ASSUME NEW c \in Calls, UserDecides(c) PROVE TypeOK'
  BY <1>10 DEF UserDecides, HookMoves, LoopFrame, TypeOK, Workers, HookPhases,
       Writing, record, request, task, agent, faults
<1>11. ASSUME NEW c \in Calls, WaitSeesToken(c) PROVE TypeOK'
  BY <1>11 DEF WaitSeesToken, HookMoves, LoopFrame, TypeOK, Workers,
       HookPhases, Writing, record, request, task, agent, faults
<1>12. ASSUME NEW c \in Calls, ToolReturns(c) PROVE TypeOK'
  BY <1>12 DEF ToolReturns, HookMoves, LoopFrame, TypeOK, Workers, HookPhases,
       Writing, record, request, task, agent, faults
<1>13. CASE PreparationCanceled
  BY <1>13 DEF PreparationCanceled, TypeOK, DriverPhases, RunStatus, record,
       request, task, agent, faults
<1>14. CASE SetupFailed
  BY <1>14 DEF SetupFailed, TypeOK, DriverPhases, RunStatus, record, request,
       task, agent, faults
<1>15. CASE BeginExecution
  BY <1>15 DEF BeginExecution, TaskGoes, TypeOK, DriverPhases, LoopPhases,
       record, request, task, agent, faults
<1>16. CASE TokenWins
  BY <1>16 DEF TokenWins, DropLoop, TaskGoes, TypeOK, DriverPhases, Workers,
       record, request, task, agent, faults
<1>17. CASE LoopEnds
  BY <1>17 DEF LoopEnds, TaskGoes, TypeOK, DriverPhases, record, request,
       task, agent, faults
<1>18. CASE TextFails
  BY <1>18 DEF TextFails, TaskCommandFails, Abandon, TaskFrame, TypeOK,
       DriverPhases, RunStatus, record, request, task, agent, faults
<1>19. CASE CloseStep
  <2>1. RecordTypes'
    <3>1. CASE UNCHANGED record
      BY <3>1, TypesOfTheRecord DEF record, RecordTypes
    <3>2. CASE current # 0 /\ \E status \in StepStatus :
                 CompleteStep(current) \/ EndStep(current, status)
      <4>1. current \in Steps
        BY <3>2, AgentRunAssumption DEF TypeOK, Steps
      <4>2. QED BY <3>2, <4>1, StepWritesAreTyped, TypesOfTheRecord
    <3>3. QED
      BY <1>19, <3>1, <3>2 DEF CloseStep, TaskCommandFails, StepStatus
  <2>2. QED
    BY <1>19, <2>1 DEF CloseStep, TaskCommandFails, Abandon, TaskFrame, TaskGoes,
         TypeOK, RecordTypes, DriverPhases, RunStatus, Approvals, request
<1>20. CASE ListCalls
  BY <1>20 DEF ListCalls, Verdict, Listed, TaskCommandFails, Abandon,
       TaskFrame, TypeOK, DriverPhases, RunStatus, Approvals, record, request,
       task, agent, faults
<1>21. CASE CallsSettled
  BY <1>21 DEF CallsSettled, TaskCommandFails, Abandon, TaskFrame, TaskGoes,
       TypeOK, DriverPhases, RunStatus, Approvals, record, request, task,
       agent, faults
<1>22. ASSUME NEW c \in Calls, SettleCall(c) PROVE TypeOK'
  <2>1. RecordTypes'
    <3>1. CASE UNCHANGED record
      BY <3>1, TypesOfTheRecord DEF record, RecordTypes
    <3>2. CASE openCalls[c] # "Unlisted" /\ EndCall(c, outcome, SettledApproval(c))
      <4>1. outcome \in Ended
        BY <1>22 DEF SettleCall, TypeOK, SweepsDoNotComplete, RunStatus, Ended
      <4>2. SettledApproval(c) \in Approvals
        BY <3>2 DEF SettledApproval, TypeOK, Approvals
      <4>3. QED BY <3>2, <4>1, <4>2, EndingsAreTyped, TypesOfTheRecord
    <3>3. QED BY <1>22, <3>1, <3>2 DEF SettleCall, TaskCommandFails
  <2>2. QED
    BY <1>22, <2>1 DEF SettleCall, EndCall, WriteCall, CallFrame, TaskCommandFails,
         Abandon, TaskFrame, TypeOK, RecordTypes, DriverPhases, RunStatus, request
<1>23. CASE ListSteps
  BY <1>23 DEF ListSteps, StepsAbandoned, TaskCommandFails, TaskFrame, TypeOK,
       DriverPhases, RunStatus, Steps, record, request, task, agent, faults
<1>24. CASE StepsSwept
  BY <1>24 DEF StepsSwept, TaskGoes, TypeOK, DriverPhases, record, request,
       task, agent, faults
<1>25. ASSUME NEW s \in Steps, SweepStep(s) PROVE TypeOK'
  <2>1. RecordTypes'
    <3>1. CASE UNCHANGED record
      BY <3>1, TypesOfTheRecord DEF record, RecordTypes
    <3>2. CASE EndStep(s, outcome)
      BY <3>2, StepWritesAreTyped, TypesOfTheRecord DEF TypeOK, RunStatus, StepStatus
    <3>3. QED BY <1>25, <3>1, <3>2 DEF SweepStep, StepsAbandoned, TaskCommandFails
  <2>2. QED
    BY <1>25, <2>1 DEF SweepStep, EndStep, StepFrame, StepsAbandoned, TaskCommandFails,
         TaskFrame, TypeOK, RecordTypes, DriverPhases, RunStatus, request
<1>26. CASE FinishRun
  BY <1>26 DEF FinishRun, TaskCommandFails, TaskFrame, TaskGoes, TypeOK,
       DriverPhases, RunStatus, record, request, task, agent, faults
<1>27. CASE StopCleanup
  BY <1>27 DEF StopCleanup, TypeOK, DriverPhases, RunStatus, record, request,
       task, agent, faults
<1>28. ASSUME NEW w \in Workers, CommandEnds(w) PROVE TypeOK'
  <2>1. RecordTypes'
    BY <1>28, CommandsAreTyped, TypesOfTheRecord DEF CommandEnds, record, RecordTypes
  <2>2. job' \in [Workers -> {"None", "Out", "Done", "Failed", "Orphan"}]
    BY <1>28 DEF CommandEnds, Answer, TypeOK
  <2>3. UNCHANGED <<request, task, loop, current, hook, policy, restarts, cut>>
        /\ failures' \in Nat
    BY <1>28 DEF CommandEnds, Answer, TypeOK
  <2>4. QED
    BY <2>1, <2>2, <2>3 DEF TypeOK, RecordTypes, request, task
<1>29. CASE Cancel
  BY <1>29 DEF Cancel, TypeOK, record, request, task, agent, faults
<1>30. CASE Restart
  <2>1. UNCHANGED <<record, streaming, policy, failures>> /\ restarts' \in Nat
    BY <1>30 DEF Restart, TypeOK
  <2>2. /\ driver' \in DriverPhases
        /\ mode' = "Sweep" /\ outcome' = "Failed"
        /\ openSteps' = {}
        /\ openCalls' \in [Calls -> Approvals \cup {"Unlisted"}]
    BY <1>30 DEF Restart, DriverPhases
  <2>3. /\ loop' = "Idle" /\ current' \in 0..MaxSteps
        /\ hook' \in [Calls -> HookPhases]
        /\ job' \in [Workers -> {"None", "Out", "Done", "Failed", "Orphan"}]
    BY <1>30, AgentRunAssumption DEF Restart, HookPhases
  <2>4. cancelled' = FALSE /\ cut' \in BOOLEAN
    BY <1>30, Zenon DEF Restart
  <2>5. QED
    BY <2>1, <2>2, <2>3, <2>4 DEF TypeOK, LoopPhases, RunStatus, record
<1>31. CASE UNCHANGED vars
  BY <1>31 DEF vars, record, request, task, agent, faults, TypeOK
<1>32. QED
  BY <1>1, <1>2, <1>3, <1>4, <1>5, <1>6, <1>7, <1>8, <1>9, <1>10, <1>11,
       <1>12, <1>13, <1>14, <1>15, <1>16, <1>17, <1>18, <1>19, <1>20, <1>21,
       <1>22, <1>23, <1>24, <1>25, <1>26, <1>27, <1>28, <1>29, <1>30, <1>31
       DEF Next, LoopStep, TaskStep

-----------------------------------------------------------------------------
(* What a step may write of the record.                                    *)

RecordWrite ==
  \/ UNCHANGED record
  \/ \E s \in Steps, status \in {"Failed", "Canceled"} :
       InsertStep(s) \/ CompleteStep(s) \/ EndStep(s, status)
  \/ \E c \in Calls, status \in Ended, decision \in Approvals : EndCall(c, status, decision)
  \/ \E c \in Calls, status \in Active, decision \in Approvals :
       calls[c] \notin Ended /\ WriteCall(c, status, decision, 0)
  \/ \E c \in Calls : AppendCall(c)
  \/ /\ row' = IF row = "Running" THEN outcome ELSE row
     /\ UNCHANGED <<steps, usage, calls, approval, called, results>>

\* The step form of TerminalRowsStay.
Kept ==
  /\ row # "Running" => row' = row
  /\ \A s \in Steps : steps[s] \notin {"None", "Running"} => steps'[s] = steps[s]
  /\ \A c \in Calls : calls[c] \in Ended =>
       calls'[c] = calls[c] /\ approval'[c] = approval[c]

\* What a command that is out writes: an insertion finds no row, the others an open one.
LEMMA CommandsWrite ==
  ASSUME TypeOK, InsertionsAreNew, NEW w \in Workers, job[w] \in {"Out", "Orphan"}, Command(w)
  PROVE  RecordWrite
<1>1. CASE w = "agent"
  BY <1>1 DEF Command, LoopCommand, RecordWrite
<1>2. CASE w # "agent"
  <2>1. w \in Calls /\ CallCommand(w)
    BY <1>2 DEF Workers, Command
  <2>2. approval[w] \in Approvals
    BY <2>1 DEF TypeOK
  <2>3. CASE hook[w] = "Inserting"
    <3>1. calls[w] \notin Ended
      BY <2>1, <2>3 DEF InsertionsAreNew, Ended
    <3>2. \E status \in Active : WriteCall(w, status, "None", 0)
      BY <2>1, <2>3 DEF CallCommand, Active
    <3>3. QED BY <2>1, <3>1, <3>2 DEF RecordWrite, Approvals
  <2>4. CASE AppendCall(w)
    BY <2>1, <2>4 DEF RecordWrite
  <2>5. CASE NotEnded(w) /\ \E status \in Active, decision \in Approvals : WriteCall(w, status, decision, 0)
    BY <2>1, <2>5 DEF RecordWrite, NotEnded, Active, Ended
  <2>6. CASE \E status \in Ended, decision \in Approvals : EndCall(w, status, decision)
    BY <2>1, <2>6 DEF RecordWrite
  <2>7. QED
    BY <2>1, <2>2, <2>3, <2>4, <2>5, <2>6 DEF CallCommand, Active, Ended, Approvals
<1>3. QED BY <1>1, <1>2

\* The actions that write, one by one; the others leave the record alone.
LEMMA StepsWrite ==
  ASSUME AgentRunAssumption, TypeOK, InsertionsAreNew, SweepsDoNotComplete, [Next]_vars
  PROVE  RecordWrite
<1>1. CASE CloseStep
  <2>1. current # 0 => current \in Steps
    BY AgentRunAssumption DEF TypeOK, Steps
  <2>2. QED BY <1>1, <2>1 DEF CloseStep, TaskCommandFails, RecordWrite, record
<1>2. ASSUME NEW c \in Calls, SettleCall(c) PROVE RecordWrite
  <2>1. outcome \in Ended
    BY <1>2 DEF SettleCall, TypeOK, SweepsDoNotComplete, RunStatus, Ended
  <2>2. openCalls[c] # "Unlisted" => SettledApproval(c) \in Approvals
    BY DEF SettledApproval, TypeOK, Approvals
  <2>3. QED BY <1>2, <2>1, <2>2 DEF SettleCall, TaskCommandFails, RecordWrite, record
<1>3. ASSUME NEW s \in Steps, SweepStep(s) PROVE RecordWrite
  <2>1. outcome \in {"Failed", "Canceled"}
    BY <1>3 DEF SweepStep, TypeOK, SweepsDoNotComplete, RunStatus
  <2>2. QED BY <1>3, <2>1 DEF SweepStep, StepsAbandoned, TaskCommandFails, RecordWrite, record
<1>4. CASE FinishRun
  BY <1>4 DEF FinishRun, TaskCommandFails, RecordWrite, record
<1>5. ASSUME NEW w \in Workers, CommandEnds(w) PROVE RecordWrite
  <2>1. job[w] \in {"Out", "Orphan"} /\ (Command(w) \/ UNCHANGED record)
    BY <1>5 DEF CommandEnds, record
  <2>2. CASE Command(w)
    BY <2>1, <2>2, CommandsWrite
  <2>3. QED BY <2>1, <2>2 DEF RecordWrite
<1>6. CASE UNCHANGED record
  BY <1>6 DEF RecordWrite
<1>7. CASE BeginTurn \/ StepInserted \/ ProviderFails \/ StepEnded \/ AnswerFails \/ ToolsEnd
  BY <1>6, <1>7 DEF BeginTurn, StepInserted, ProviderFails, StepEnded, AnswerFails,
       ToolsEnd, LoopFrame, record
<1>8. CASE \E asked \in SUBSET Calls : ProviderAnswers(asked)
  BY <1>6, <1>8 DEF ProviderAnswers, LoopFrame, record
<1>9. CASE \E c \in Calls :
             HookStarts(c) \/ HookResumes(c) \/ UserDecides(c) \/ WaitSeesToken(c) \/ ToolReturns(c)
  BY <1>6, <1>9 DEF HookStarts, HookResumes, UserDecides, WaitSeesToken, ToolReturns,
       HookMoves, LoopFrame, record
<1>10. CASE PreparationCanceled \/ SetupFailed \/ BeginExecution \/ TokenWins \/ LoopEnds
              \/ TextFails \/ ListCalls \/ CallsSettled \/ ListSteps \/ StepsSwept
              \/ StopCleanup \/ Cancel \/ Restart
  BY <1>6, <1>10 DEF PreparationCanceled, SetupFailed, BeginExecution, TokenWins, LoopEnds,
       TextFails, ListCalls, CallsSettled, ListSteps, StepsSwept, StopCleanup, Cancel,
       Restart, TaskCommandFails, StepsAbandoned, record
<1>11. CASE UNCHANGED vars
  BY <1>6, <1>11 DEF vars, record
<1>12. QED
  BY <1>1, <1>2, <1>3, <1>4, <1>5, <1>7, <1>8, <1>9, <1>10, <1>11
     DEF Next, LoopStep, TaskStep

\* The writes of a provider step keep the counts, and what has ended.
LEMMA StepWritesCount ==
  ASSUME RecordTypes, OneResultPerCall, UsageIffCompleted, NEW s \in Steps,
         NEW status \in {"Failed", "Canceled"},
         InsertStep(s) \/ CompleteStep(s) \/ EndStep(s, status)
  PROVE  OneResultPerCall' /\ UsageIffCompleted' /\ Kept
BY DEF RecordTypes, OneResultPerCall, UsageIffCompleted, Kept, InsertStep, IsNext,
     CompleteStep, CanComplete, EndStep, StepFrame

\* So do the writes that leave a call open,
LEMMA CallWritesCount ==
  ASSUME RecordTypes, OneResultPerCall, UsageIffCompleted, NEW c \in Calls,
         NEW status \in Active, NEW decision \in Approvals,
         calls[c] \notin Ended, WriteCall(c, status, decision, 0)
  PROVE  OneResultPerCall' /\ UsageIffCompleted' /\ Kept
BY DEF RecordTypes, OneResultPerCall, UsageIffCompleted, Kept, WriteCall, CallFrame,
     Active, Ended

\* and those that end one.
LEMMA EndingsCount ==
  ASSUME RecordTypes, OneResultPerCall, UsageIffCompleted, NEW c \in Calls,
         NEW status \in Ended, NEW decision \in Approvals, EndCall(c, status, decision)
  PROVE  OneResultPerCall' /\ UsageIffCompleted' /\ Kept
BY DEF RecordTypes, OneResultPerCall, UsageIffCompleted, Kept, EndCall, NotEnded,
     WriteCall, CallFrame, Active, Ended

\* Each write keeps the counts, and what has ended.
LEMMA WritesCount ==
  ASSUME RecordTypes, OneResultPerCall, UsageIffCompleted, RecordWrite
  PROVE  OneResultPerCall' /\ UsageIffCompleted' /\ Kept
<1>1. CASE UNCHANGED record
  BY <1>1 DEF record, OneResultPerCall, UsageIffCompleted, Kept
<1>2. CASE \E c \in Calls : AppendCall(c)
  BY <1>2 DEF AppendCall, CallFrame, OneResultPerCall, UsageIffCompleted, Kept
<1>3. CASE /\ row' = IF row = "Running" THEN outcome ELSE row
           /\ UNCHANGED <<steps, usage, calls, approval, called, results>>
  BY <1>3 DEF OneResultPerCall, UsageIffCompleted, Kept
<1>4. QED
  BY <1>1, <1>2, <1>3, StepWritesCount, CallWritesCount, EndingsCount DEF RecordWrite

-----------------------------------------------------------------------------
(* Sweeps.                                                                 *)

\* No step gives a sweep or a settlement the outcome Completed.
LEMMA SweepStepFails ==
  ASSUME SweepsDoNotComplete, [Next]_vars
  PROVE  SweepsDoNotComplete'
<1>1. CASE BeginTurn
  BY <1>1 DEF BeginTurn, LoopFrame, Send, SweepsDoNotComplete, record,
       request, task, agent, faults
<1>2. CASE StepInserted
  BY <1>2 DEF StepInserted, LoopFrame, Take, IsLast, SweepsDoNotComplete,
       record, request, task, agent, faults
<1>3. CASE ProviderFails
  BY <1>3 DEF ProviderFails, LoopFrame, Send, SweepsDoNotComplete, record,
       request, task, agent, faults
<1>4. CASE StepEnded
  BY <1>4 DEF StepEnded, LoopFrame, Take, SweepsDoNotComplete, record,
       request, task, agent, faults
<1>5. CASE AnswerFails
  BY <1>5 DEF AnswerFails, Take, SweepsDoNotComplete, record, request, task,
       agent, faults
<1>6. CASE ToolsEnd
  BY <1>6 DEF ToolsEnd, LoopFrame, SweepsDoNotComplete, record, request, task,
       agent, faults
<1>7. ASSUME NEW asked \in SUBSET Calls, ProviderAnswers(asked) PROVE SweepsDoNotComplete'
  BY <1>7 DEF ProviderAnswers, LoopFrame, Send, SweepsDoNotComplete, record,
       request, task, agent, faults
<1>8. ASSUME NEW c \in Calls, HookStarts(c) PROVE SweepsDoNotComplete'
  BY <1>8 DEF HookStarts, HookMoves, LoopFrame, SweepsDoNotComplete, record,
       request, task, agent, faults
<1>9. ASSUME NEW c \in Calls, HookResumes(c) PROVE SweepsDoNotComplete'
  BY <1>9 DEF HookResumes, HookMoves, LoopFrame, After, SweepsDoNotComplete,
       record, request, task, agent, faults
<1>10. ASSUME NEW c \in Calls, UserDecides(c) PROVE SweepsDoNotComplete'
  BY <1>10 DEF UserDecides, HookMoves, LoopFrame, SweepsDoNotComplete, record,
       request, task, agent, faults
<1>11. ASSUME NEW c \in Calls, WaitSeesToken(c) PROVE SweepsDoNotComplete'
  BY <1>11 DEF WaitSeesToken, HookMoves, LoopFrame, SweepsDoNotComplete,
       record, request, task, agent, faults
<1>12. ASSUME NEW c \in Calls, ToolReturns(c) PROVE SweepsDoNotComplete'
  BY <1>12 DEF ToolReturns, HookMoves, LoopFrame, SweepsDoNotComplete, record,
       request, task, agent, faults
<1>13. CASE PreparationCanceled
  BY <1>13 DEF PreparationCanceled, SweepsDoNotComplete, record, request,
       task, agent, faults
<1>14. CASE SetupFailed
  BY <1>14 DEF SetupFailed, SweepsDoNotComplete, record, request, task, agent,
       faults
<1>15. CASE BeginExecution
  BY <1>15 DEF BeginExecution, TaskGoes, SweepsDoNotComplete, record, request,
       task, agent, faults
<1>16. CASE TokenWins
  BY <1>16 DEF TokenWins, DropLoop, TaskGoes, SweepsDoNotComplete, record,
       request, task, agent, faults
<1>17. CASE LoopEnds
  BY <1>17 DEF LoopEnds, TaskGoes, SweepsDoNotComplete, record, request, task,
       agent, faults
<1>18. CASE TextFails
  BY <1>18 DEF TextFails, TaskCommandFails, Abandon, TaskFrame,
       SweepsDoNotComplete, record, request, task, agent, faults
<1>19. CASE CloseStep
  BY <1>19 DEF CloseStep, TaskCommandFails, Abandon, TaskFrame, TaskGoes,
       CompleteStep, EndStep, StepFrame, SweepsDoNotComplete, record, request,
       task, agent, faults
<1>20. CASE ListCalls
  BY <1>20 DEF ListCalls, Verdict, Listed, TaskCommandFails, Abandon,
       TaskFrame, SweepsDoNotComplete, record, request, task, agent, faults
<1>21. CASE CallsSettled
  BY <1>21 DEF CallsSettled, TaskCommandFails, Abandon, TaskFrame, TaskGoes,
       SweepsDoNotComplete, record, request, task, agent, faults
<1>22. ASSUME NEW c \in Calls, SettleCall(c) PROVE SweepsDoNotComplete'
  BY <1>22 DEF SettleCall, EndCall, WriteCall, CallFrame, SettledApproval,
       TaskCommandFails, Abandon, TaskFrame, SweepsDoNotComplete, record,
       request, task, agent, faults
<1>23. CASE ListSteps
  BY <1>23 DEF ListSteps, StepsAbandoned, TaskCommandFails, TaskFrame,
       SweepsDoNotComplete, record, request, task, agent, faults
<1>24. CASE StepsSwept
  BY <1>24 DEF StepsSwept, TaskGoes, SweepsDoNotComplete, record, request,
       task, agent, faults
<1>25. ASSUME NEW s \in Steps, SweepStep(s) PROVE SweepsDoNotComplete'
  BY <1>25 DEF SweepStep, EndStep, StepFrame, StepsAbandoned,
       TaskCommandFails, TaskFrame, SweepsDoNotComplete, record, request,
       task, agent, faults
<1>26. CASE FinishRun
  BY <1>26 DEF FinishRun, TaskCommandFails, TaskFrame, TaskGoes,
       SweepsDoNotComplete, record, request, task, agent, faults
<1>27. CASE StopCleanup
  BY <1>27 DEF StopCleanup, SweepsDoNotComplete, record, request, task, agent,
       faults
<1>28. ASSUME NEW w \in Workers, CommandEnds(w) PROVE SweepsDoNotComplete'
  BY <1>28 DEF CommandEnds, Answer, SweepsDoNotComplete, task
<1>29. CASE Cancel
  BY <1>29 DEF Cancel, SweepsDoNotComplete, record, request, task, agent,
       faults
<1>30. CASE Restart
  BY <1>30 DEF Restart, SweepsDoNotComplete, record, request, task, agent,
       faults
<1>31. CASE UNCHANGED vars
  BY <1>31 DEF vars, record, request, task, agent, faults, SweepsDoNotComplete
<1>32. QED
  BY <1>1, <1>2, <1>3, <1>4, <1>5, <1>6, <1>7, <1>8, <1>9, <1>10, <1>11,
       <1>12, <1>13, <1>14, <1>15, <1>16, <1>17, <1>18, <1>19, <1>20, <1>21,
       <1>22, <1>23, <1>24, <1>25, <1>26, <1>27, <1>28, <1>29, <1>30, <1>31
       DEF Next, LoopStep, TaskStep

-----------------------------------------------------------------------------
(* Hooks.                                                                  *)

HooksAgree == NoOrphans /\ InsertionsAreNew /\ CallRecords

\* Every step keeps what the phase of a hook says of the record.
LEMMA HookStep ==
  ASSUME TypeOK, HooksAgree, "agent" \notin Calls, [Next]_vars
  PROVE  HooksAgree'
<1>1. CASE BeginTurn
  BY <1>1 DEF BeginTurn, LoopFrame, Send, HooksAgree, NoOrphans,
       InsertionsAreNew, CallRecords, CallRecord, Living, Opened, Released,
       TypeOK, Workers, Active, Ended, Writing, record, request, task, agent,
       faults
<1>2. CASE StepInserted
  BY <1>2 DEF StepInserted, LoopFrame, Take, IsLast, HooksAgree, NoOrphans,
       InsertionsAreNew, CallRecords, CallRecord, Living, Opened, Released,
       TypeOK, Workers, Active, Ended, Writing, record, request, task, agent,
       faults
<1>3. CASE ProviderFails
  BY <1>3 DEF ProviderFails, LoopFrame, Send, HooksAgree, NoOrphans,
       InsertionsAreNew, CallRecords, CallRecord, Living, Opened, Released,
       TypeOK, Workers, Active, Ended, Writing, record, request, task, agent,
       faults
<1>4. CASE StepEnded
  BY <1>4 DEF StepEnded, LoopFrame, Take, HooksAgree, NoOrphans,
       InsertionsAreNew, CallRecords, CallRecord, Living, Opened, Released,
       TypeOK, Workers, Active, Ended, Writing, record, request, task, agent,
       faults
<1>5. CASE AnswerFails
  BY <1>5 DEF AnswerFails, Take, HooksAgree, NoOrphans, InsertionsAreNew,
       CallRecords, CallRecord, Living, Opened, Released, TypeOK, Workers,
       Active, Ended, Writing, record, request, task, agent, faults
<1>6. CASE ToolsEnd
  BY <1>6 DEF ToolsEnd, LoopFrame, HooksAgree, NoOrphans, InsertionsAreNew,
       CallRecords, CallRecord, Living, Opened, Released, TypeOK, Workers,
       Active, Ended, Writing, record, request, task, agent, faults
<1>7. ASSUME NEW asked \in SUBSET Calls, ProviderAnswers(asked) PROVE HooksAgree'
  BY <1>7 DEF ProviderAnswers, LoopFrame, Send, HooksAgree, NoOrphans,
       InsertionsAreNew, CallRecords, CallRecord, Living, Opened, Released,
       TypeOK, Workers, Active, Ended, Writing, record, request, task, agent,
       faults
<1>8. ASSUME NEW c \in Calls, HookStarts(c) PROVE HooksAgree'
  <2>1. Living /\ calls[c] = "None" /\ UNCHANGED <<driver, calls, approval>>
    BY <1>8 DEF HookStarts, Polled, HooksAgree, CallRecords, CallRecord, Living,
         HookMoves, LoopFrame, record, task
  <2>2. PICK phase \in {"Stopped", "Inserting"} : HookMoves(c, phase)
    BY <1>8 DEF HookStarts
  <2>3. /\ hook' = [hook EXCEPT ![c] = phase]
        /\ job' = [job EXCEPT ![c] = IF phase = "Inserting" THEN "Out" ELSE "None"]
        /\ \A d \in Calls : d # c => policy'[d] = policy[d]
    BY <1>8, <2>2 DEF HookMoves, HookStarts, Writing, TypeOK
  <2>4. NoOrphans' /\ InsertionsAreNew'
    BY <2>1, <2>3 DEF HooksAgree, NoOrphans, InsertionsAreNew, Living, TypeOK, Workers
  <2>5. ASSUME NEW d \in Calls PROVE CallRecord(d)'
    <3>1. CASE d = c
      BY <2>1, <2>3, <3>1 DEF CallRecord, TypeOK, Workers
    <3>2. CASE d # c
      BY <2>1, <2>3, <3>2 DEF HooksAgree, CallRecords, CallRecord, Opened, Released, TypeOK,
           Workers
    <3>3. QED BY <3>1, <3>2
  <2>6. QED BY <2>4, <2>5 DEF HooksAgree, CallRecords
<1>9. ASSUME NEW c \in Calls, HookResumes(c) PROVE HooksAgree'
  BY <1>9 DEF HookResumes, HookMoves, LoopFrame, After, HooksAgree, NoOrphans,
       InsertionsAreNew, CallRecords, CallRecord, Living, Opened, Released,
       TypeOK, Workers, Active, Ended, Writing, record, request, task, agent,
       faults
<1>10. ASSUME NEW c \in Calls, UserDecides(c) PROVE HooksAgree'
  BY <1>10 DEF UserDecides, HookMoves, LoopFrame, HooksAgree, NoOrphans,
       InsertionsAreNew, CallRecords, CallRecord, Living, Opened, Released,
       TypeOK, Workers, Active, Ended, Writing, record, request, task, agent,
       faults
<1>11. ASSUME NEW c \in Calls, WaitSeesToken(c) PROVE HooksAgree'
  BY <1>11 DEF WaitSeesToken, HookMoves, LoopFrame, HooksAgree, NoOrphans,
       InsertionsAreNew, CallRecords, CallRecord, Living, Opened, Released,
       TypeOK, Workers, Active, Ended, Writing, record, request, task, agent,
       faults
<1>12. ASSUME NEW c \in Calls, ToolReturns(c) PROVE HooksAgree'
  BY <1>12 DEF ToolReturns, HookMoves, LoopFrame, HooksAgree, NoOrphans,
       InsertionsAreNew, CallRecords, CallRecord, Living, Opened, Released,
       TypeOK, Workers, Active, Ended, Writing, record, request, task, agent,
       faults
<1>13. CASE PreparationCanceled
  BY <1>13 DEF PreparationCanceled, HooksAgree, NoOrphans, InsertionsAreNew,
       CallRecords, CallRecord, Living, Opened, Released, TypeOK, Workers,
       Active, Ended, Writing, record, request, task, agent, faults
<1>14. CASE SetupFailed
  BY <1>14 DEF SetupFailed, HooksAgree, NoOrphans, InsertionsAreNew,
       CallRecords, CallRecord, Living, Opened, Released, TypeOK, Workers,
       Active, Ended, Writing, record, request, task, agent, faults
<1>15. CASE BeginExecution
  BY <1>15 DEF BeginExecution, TaskGoes, HooksAgree, NoOrphans,
       InsertionsAreNew, CallRecords, CallRecord, Living, Opened, Released,
       TypeOK, Workers, Active, Ended, Writing, record, request, task, agent,
       faults
<1>16. CASE TokenWins
  BY <1>16 DEF TokenWins, DropLoop, TaskGoes, HooksAgree, NoOrphans,
       InsertionsAreNew, CallRecords, CallRecord, Living, Opened, Released,
       TypeOK, Workers, Active, Ended, Writing, record, request, task, agent,
       faults
<1>17. CASE LoopEnds
  BY <1>17 DEF LoopEnds, TaskGoes, HooksAgree, NoOrphans, InsertionsAreNew,
       CallRecords, CallRecord, Living, Opened, Released, TypeOK, Workers,
       Active, Ended, Writing, record, request, task, agent, faults
<1>18. CASE TextFails
  BY <1>18 DEF TextFails, TaskCommandFails, Abandon, TaskFrame, HooksAgree,
       NoOrphans, InsertionsAreNew, CallRecords, CallRecord, Living, Opened,
       Released, TypeOK, Workers, Active, Ended, Writing, record, request,
       task, agent, faults
<1>19. CASE CloseStep
  BY <1>19 DEF CloseStep, TaskCommandFails, Abandon, TaskFrame, TaskGoes,
       CompleteStep, EndStep, StepFrame, HooksAgree, NoOrphans,
       InsertionsAreNew, CallRecords, CallRecord, Living, Opened, Released,
       TypeOK, Workers, Active, Ended, Writing, record, request, task, agent,
       faults
<1>20. CASE ListCalls
  BY <1>20 DEF ListCalls, Verdict, Listed, TaskCommandFails, Abandon,
       TaskFrame, HooksAgree, NoOrphans, InsertionsAreNew, CallRecords,
       CallRecord, Living, Opened, Released, TypeOK, Workers, Active, Ended,
       Writing, record, request, task, agent, faults
<1>21. CASE CallsSettled
  BY <1>21 DEF CallsSettled, TaskCommandFails, Abandon, TaskFrame, TaskGoes,
       HooksAgree, NoOrphans, InsertionsAreNew, CallRecords, CallRecord,
       Living, Opened, Released, TypeOK, Workers, Active, Ended, Writing,
       record, request, task, agent, faults
<1>22. ASSUME NEW c \in Calls, SettleCall(c) PROVE HooksAgree'
  <2>1. ~Living' /\ UNCHANGED <<hook, job>>
    BY <1>22 DEF SettleCall, Abandon, TaskFrame, Living
  <2>2. \A d \in Calls : calls[d] = "None" => calls'[d] = "None"
    BY <1>22 DEF SettleCall, EndCall, NotEnded, WriteCall, TaskCommandFails, record,
         TypeOK, Active
  <2>3. QED
    BY <2>1, <2>2 DEF HooksAgree, NoOrphans, InsertionsAreNew, CallRecords
<1>23. CASE ListSteps
  BY <1>23 DEF ListSteps, StepsAbandoned, TaskCommandFails, TaskFrame,
       HooksAgree, NoOrphans, InsertionsAreNew, CallRecords, CallRecord,
       Living, Opened, Released, TypeOK, Workers, Active, Ended, Writing,
       record, request, task, agent, faults
<1>24. CASE StepsSwept
  BY <1>24 DEF StepsSwept, TaskGoes, HooksAgree, NoOrphans, InsertionsAreNew,
       CallRecords, CallRecord, Living, Opened, Released, TypeOK, Workers,
       Active, Ended, Writing, record, request, task, agent, faults
<1>25. ASSUME NEW s \in Steps, SweepStep(s) PROVE HooksAgree'
  BY <1>25 DEF SweepStep, EndStep, StepFrame, StepsAbandoned,
       TaskCommandFails, TaskFrame, HooksAgree, NoOrphans, InsertionsAreNew,
       CallRecords, CallRecord, Living, Opened, Released, TypeOK, Workers,
       Active, Ended, Writing, record, request, task, agent, faults
<1>26. CASE FinishRun
  BY <1>26 DEF FinishRun, TaskCommandFails, TaskFrame, TaskGoes, HooksAgree,
       NoOrphans, InsertionsAreNew, CallRecords, CallRecord, Living, Opened,
       Released, TypeOK, Workers, Active, Ended, Writing, record, request,
       task, agent, faults
<1>27. CASE StopCleanup
  BY <1>27 DEF StopCleanup, HooksAgree, NoOrphans, InsertionsAreNew,
       CallRecords, CallRecord, Living, Opened, Released, TypeOK, Workers,
       Active, Ended, Writing, record, request, task, agent, faults
<1>28. ASSUME NEW w \in Workers, CommandEnds(w) PROVE HooksAgree'
  BY <1>28 DEF CommandEnds, Answer, Command, LoopCommand, CallCommand,
       InsertStep, CompleteStep, EndStep, StepFrame, EndCall, WriteCall,
       AppendCall, CallFrame, HooksAgree, NoOrphans, InsertionsAreNew,
       CallRecords, CallRecord, Living, Opened, Released, TypeOK, Workers,
       Active, Ended, Writing, record, request, task, agent, faults
<1>29. CASE Cancel
  BY <1>29 DEF Cancel, HooksAgree, NoOrphans, InsertionsAreNew, CallRecords,
       CallRecord, Living, Opened, Released, TypeOK, Workers, Active, Ended,
       Writing, record, request, task, agent, faults
<1>30. CASE Restart
  BY <1>30 DEF Restart, HooksAgree, NoOrphans, InsertionsAreNew, CallRecords,
       CallRecord, Living, Opened, Released, TypeOK, Workers, Active, Ended,
       Writing, record, request, task, agent, faults
<1>31. CASE UNCHANGED vars
  BY <1>31 DEF vars, record, request, task, agent, faults, HooksAgree,
       NoOrphans, InsertionsAreNew, CallRecords, CallRecord, Living, Opened,
       Released, TypeOK, Workers, Active, Ended, Writing
<1>32. QED
  BY <1>1, <1>2, <1>3, <1>4, <1>5, <1>6, <1>7, <1>8, <1>9, <1>10, <1>11,
       <1>12, <1>13, <1>14, <1>15, <1>16, <1>17, <1>18, <1>19, <1>20, <1>21,
       <1>22, <1>23, <1>24, <1>25, <1>26, <1>27, <1>28, <1>29, <1>30, <1>31
       DEF Next, LoopStep, TaskStep

-----------------------------------------------------------------------------

\* The inductive invariant.
THEOREM InvHolds == Spec => []Inv
<1>1. Init => Inv
  <2> SUFFICES ASSUME Init PROVE Inv
    OBVIOUS
  <2>1. TypeOK
    <3>1. RecordTypes
      BY DEF Init, RecordTypes, RunStatus, StepStatus, Approvals
    <3>2. /\ driver \in DriverPhases /\ mode \in {"Run", "Broken", "Sweep"}
          /\ outcome \in RunStatus \ {"Running"} /\ openSteps \subseteq Steps
          /\ openCalls \in [Calls -> Approvals \cup {"Unlisted"}]
      BY DEF Init, DriverPhases, RunStatus
    <3>3. /\ loop \in LoopPhases /\ current \in 0..MaxSteps
          /\ hook \in [Calls -> HookPhases] /\ policy \in [Calls -> Policies]
          /\ job \in [Workers -> {"None", "Out", "Done", "Failed", "Orphan"}]
      BY AgentRunAssumption DEF AgentRunAssumption, Init, LoopPhases, HookPhases, Policies
    <3>4. streaming \in BOOLEAN /\ cancelled \in BOOLEAN /\ cut \in BOOLEAN
      BY Zenon DEF Init
    <3>5. failures \in Nat /\ restarts \in Nat
      BY DEF Init
    <3>6. QED
      BY <3>1, <3>2, <3>3, <3>4, <3>5 DEF RecordTypes, TypeOK
  <2>2. OneResultPerCall /\ UsageIffCompleted
    BY DEF Init, OneResultPerCall, UsageIffCompleted, Ended
  <2>3. NoOrphans /\ InsertionsAreNew /\ SweepsDoNotComplete
    BY DEF Init, NoOrphans, InsertionsAreNew, SweepsDoNotComplete
  <2>4. CallRecords
    BY DEF Init, CallRecords, CallRecord, Workers
  <2>5. QED
    BY <2>1, <2>2, <2>3, <2>4 DEF Inv
<1>2. Inv /\ [Next]_vars => Inv'
  <2> SUFFICES ASSUME Inv, [Next]_vars PROVE Inv'
    OBVIOUS
  <2>1. TypeOK'
    BY TypeStep, AgentRunAssumption DEF Inv
  <2>2. OneResultPerCall' /\ UsageIffCompleted'
    BY StepsWrite, WritesCount, TypesOfTheRecord, AgentRunAssumption DEF Inv
  <2>3. SweepsDoNotComplete'
    BY SweepStepFails DEF Inv
  <2>4. HooksAgree'
    BY HookStep, AgentRunAssumption DEF Inv, HooksAgree, AgentRunAssumption
  <2>5. QED
    BY <2>1, <2>2, <2>3, <2>4 DEF Inv, HooksAgree
<1>3. QED
  BY <1>1, <1>2, PTL DEF Spec

\* Every variable of a run keeps its type.
THEOREM TypeCorrect == Spec => []TypeOK
<1>1. Inv => TypeOK
  BY DEF Inv
<1>2. QED BY <1>1, InvHolds, PTL

\* A terminal tool invocation has one result entry and an open one none, whoever
\* ended it: the loop, the finalizer, an orphaned command or the recovery.
THEOREM CallsGetOneResult == Spec => []OneResultPerCall
<1>1. Inv => OneResultPerCall
  BY DEF Inv
<1>2. QED BY <1>1, InvHolds, PTL

\* A provider step is charged once, and only if it completed.
THEOREM UsageIsExact == Spec => []UsageIffCompleted
<1>1. Inv => UsageIffCompleted
  BY DEF Inv
<1>2. QED BY <1>1, InvHolds, PTL

\* A tool runs only while its record is open, and approved if the policy asked.
THEOREM ToolsRunApproved == Spec => []ToolRunsOnlyApproved
<1>1. Inv => ToolRunsOnlyApproved
  BY DEF Inv, ToolRunsOnlyApproved, CallRecords, CallRecord, Released, Living
<1>2. QED BY <1>1, InvHolds, PTL

\* The row of a run, its steps and its tool invocations keep their terminal
\* states, whichever writer comes later.
THEOREM EndsAreFinal == Spec => TerminalRowsStay
<1>1. Inv /\ [Next]_vars => [Kept]_vars
  BY StepsWrite, WritesCount, TypesOfTheRecord, AgentRunAssumption DEF Inv
<1>2. QED
  BY <1>1, InvHolds, PTL DEF Spec, TerminalRowsStay, Kept

-----------------------------------------------------------------------------
(* What is open.                                                           *)

\* No command failed, and the loop was not cut down with one out.
Clean == failures = 0 /\ ~cut

Open(s) == steps[s] = "Running"
NoStepOpen == \A s \in Steps : ~Open(s)
NoCallOpen == \A c \in Calls : calls[c] \notin Active
NothingOut == \A w \in Workers : job[w] = "None"

\* The steps of a run are numbered without gaps.
StepsContiguous ==
  \A r, s \in Steps : r < s /\ steps[s] # "None" => steps[r] # "None"

\* The row ends last, and nobody but the run itself completes it.
RowEndsLast == row # "Running" => driver = "Over"
OthersDoNotComplete == mode # "Run" => outcome # "Completed"
SweepIsNoRun == driver \in {"SweepList", "Sweeping"} => mode # "Run"

\* Before the loop begins there is nothing.
Untouched ==
  driver = "Preparing" =>
    /\ mode = "Run" /\ loop = "Idle" /\ NoStepOpen /\ NothingOut
    /\ \A c \in Calls : hook[c] = "Idle"

\* While the loop lives, commands are out as its phase says, and what a hook
\* has ended is ended.
LoopShape ==
  driver = "Executing" =>
    /\ mode = "Run" /\ loop # "Idle"
    /\ loop \in {"Inserting", "Completing", "Ending"} <=> job["agent"] # "None"
    /\ loop # "Tools" => \A c \in Calls : job[c] = "None"
    /\ loop \notin {"Tools", "Error"} => \A c \in Calls : hook[c] \in {"Idle", "Start", "Done"}
    /\ \A c \in Calls :
         \/ hook[c] = "Done"
         \/ hook[c] \in {"Denying", "Refusing", "Recording"} /\ job[c] = "Done"
         => calls[c] \in Ended

Shape == RowEndsLast /\ OthersDoNotComplete /\ SweepIsNoRun /\ Untouched /\ LoopShape

\* Of a clean run: nothing is out once the loop is gone;
Silent == driver # "Executing" => NothingOut

\* the step that may be open is the last one, and then the current one;
StepsKnown ==
  /\ driver = "Executing" =>
       /\ loop \in {"Turn", "Tools", "MaxSteps", "Error"} => NoStepOpen
       /\ loop = "Inserting" =>
            \/ job["agent"] = "Done" /\ \A s \in Steps : Open(s) => IsLast(s)
            \/ job["agent"] = "Out" /\ NoStepOpen
       /\ loop = "Calling" => \A s \in Steps : Open(s) => s = current /\ IsLast(s)
       /\ loop \in {"Completing", "Ending"} =>
            IF job["agent"] = "Out" THEN \A s \in Steps : Open(s) => IsLast(s)
            ELSE NoStepOpen
       /\ loop = "Completed" => \A s \in Steps : Open(s) => streaming /\ s = current
  /\ driver = "Closing" => \A s \in Steps : Open(s) => s = current
  /\ driver = "Sweeping" => \A s \in Steps : Open(s) => s \in openSteps
  /\ driver \in {"Listing", "Settling", "Finishing"} => NoStepOpen

\* and a tool call may be open only where the finalizer will come to it.
CallsKnown ==
  /\ driver \in {"Closing", "Listing"} /\ mode = "Run" /\ loop \in {"MaxSteps", "Completed"} =>
       NoCallOpen
  /\ driver = "Settling" =>
       \A c \in Calls : calls[c] \in Active <=> openCalls[c] # "Unlisted"
  /\ driver = "Finishing" => NoCallOpen

CleanKnown == Clean => Silent /\ StepsKnown /\ CallsKnown

EndedInv == StepsContiguous /\ Shape /\ CleanKnown /\ EndedRunLeavesNothingOpen


\* Every write numbers the steps without gaps.
LEMMA ContiguousStep ==
  ASSUME RecordTypes, StepsContiguous, RecordWrite
  PROVE  StepsContiguous'
<1>1. ASSUME NEW s \in Steps, InsertStep(s) PROVE StepsContiguous'
  <2>1. steps' = [steps EXCEPT ![s] = "Running"] /\ \A r \in Steps : r < s => steps[r] # "None"
    BY <1>1 DEF InsertStep, IsNext
  <2>2. QED
    BY <2>1 DEF RecordTypes, StepsContiguous, Steps
<1>2. ASSUME NEW s \in Steps, NEW status \in {"Failed", "Canceled"},
             CompleteStep(s) \/ EndStep(s, status)
      PROVE  StepsContiguous'
  <2>1. \A r \in Steps : steps'[r] = "None" <=> steps[r] = "None"
    BY <1>2 DEF RecordTypes, CompleteStep, CanComplete, EndStep
  <2>2. QED
    BY <2>1 DEF StepsContiguous
<1>3. CASE UNCHANGED steps
  BY <1>3 DEF StepsContiguous
<1>4. QED
  BY <1>1, <1>2, <1>3 DEF RecordWrite, record, EndCall, WriteCall, AppendCall, CallFrame

\* Every step keeps the shape of the run.
LEMMA ShapeStep ==
  ASSUME TypeOK, NoOrphans, Shape, Kept, "agent" \notin Calls, [Next]_vars
  PROVE  Shape'
<1>1. CASE BeginTurn
  BY <1>1 DEF BeginTurn, LoopFrame, Send, Shape, RowEndsLast,
       OthersDoNotComplete, SweepIsNoRun, Untouched, LoopShape, NoStepOpen,
       NothingOut, Open, Polled, TypeOK, Workers, Writing, LoopResults,
       record, request, task, agent, faults
<1>2. CASE StepInserted
  BY <1>2 DEF StepInserted, LoopFrame, Take, IsLast, Shape, RowEndsLast,
       OthersDoNotComplete, SweepIsNoRun, Untouched, LoopShape, NoStepOpen,
       NothingOut, Open, Polled, TypeOK, Workers, Writing, LoopResults,
       record, request, task, agent, faults
<1>3. CASE ProviderFails
  BY <1>3 DEF ProviderFails, LoopFrame, Send, Shape, RowEndsLast,
       OthersDoNotComplete, SweepIsNoRun, Untouched, LoopShape, NoStepOpen,
       NothingOut, Open, Polled, TypeOK, Workers, Writing, LoopResults,
       record, request, task, agent, faults
<1>4. CASE StepEnded
  BY <1>4 DEF StepEnded, LoopFrame, Take, Shape, RowEndsLast,
       OthersDoNotComplete, SweepIsNoRun, Untouched, LoopShape, NoStepOpen,
       NothingOut, Open, Polled, TypeOK, Workers, Writing, LoopResults,
       record, request, task, agent, faults
<1>5. CASE AnswerFails
  BY <1>5 DEF AnswerFails, Take, Shape, RowEndsLast, OthersDoNotComplete,
       SweepIsNoRun, Untouched, LoopShape, NoStepOpen, NothingOut, Open,
       Polled, TypeOK, Workers, Writing, LoopResults, record, request, task,
       agent, faults
<1>6. CASE ToolsEnd
  BY <1>6 DEF ToolsEnd, LoopFrame, Shape, RowEndsLast, OthersDoNotComplete,
       SweepIsNoRun, Untouched, LoopShape, NoStepOpen, NothingOut, Open,
       Polled, TypeOK, Workers, Writing, LoopResults, record, request, task,
       agent, faults
<1>7. ASSUME NEW asked \in SUBSET Calls, ProviderAnswers(asked) PROVE Shape'
  BY <1>7 DEF ProviderAnswers, LoopFrame, Send, Shape, RowEndsLast,
       OthersDoNotComplete, SweepIsNoRun, Untouched, LoopShape, NoStepOpen,
       NothingOut, Open, Polled, TypeOK, Workers, Writing, LoopResults,
       record, request, task, agent, faults
<1>8. ASSUME NEW c \in Calls, HookStarts(c) PROVE Shape'
  BY <1>8 DEF HookStarts, HookMoves, LoopFrame, Shape, RowEndsLast,
       OthersDoNotComplete, SweepIsNoRun, Untouched, LoopShape, NoStepOpen,
       NothingOut, Open, Polled, TypeOK, Workers, Writing, LoopResults,
       record, request, task, agent, faults
<1>9. ASSUME NEW c \in Calls, HookResumes(c) PROVE Shape'
  BY <1>9 DEF HookResumes, HookMoves, LoopFrame, After, Shape, RowEndsLast,
       OthersDoNotComplete, SweepIsNoRun, Untouched, LoopShape, NoStepOpen,
       NothingOut, Open, Polled, TypeOK, Workers, Writing, LoopResults,
       record, request, task, agent, faults
<1>10. ASSUME NEW c \in Calls, UserDecides(c) PROVE Shape'
  BY <1>10 DEF UserDecides, HookMoves, LoopFrame, Shape, RowEndsLast,
       OthersDoNotComplete, SweepIsNoRun, Untouched, LoopShape, NoStepOpen,
       NothingOut, Open, Polled, TypeOK, Workers, Writing, LoopResults,
       record, request, task, agent, faults
<1>11. ASSUME NEW c \in Calls, WaitSeesToken(c) PROVE Shape'
  BY <1>11 DEF WaitSeesToken, HookMoves, LoopFrame, Shape, RowEndsLast,
       OthersDoNotComplete, SweepIsNoRun, Untouched, LoopShape, NoStepOpen,
       NothingOut, Open, Polled, TypeOK, Workers, Writing, LoopResults,
       record, request, task, agent, faults
<1>12. ASSUME NEW c \in Calls, ToolReturns(c) PROVE Shape'
  BY <1>12 DEF ToolReturns, HookMoves, LoopFrame, Shape, RowEndsLast,
       OthersDoNotComplete, SweepIsNoRun, Untouched, LoopShape, NoStepOpen,
       NothingOut, Open, Polled, TypeOK, Workers, Writing, LoopResults,
       record, request, task, agent, faults
<1>13. CASE PreparationCanceled
  BY <1>13 DEF PreparationCanceled, Shape, RowEndsLast, OthersDoNotComplete,
       SweepIsNoRun, Untouched, LoopShape, NoStepOpen, NothingOut, Open,
       Polled, TypeOK, Workers, Writing, LoopResults, record, request, task,
       agent, faults
<1>14. CASE SetupFailed
  BY <1>14 DEF SetupFailed, Shape, RowEndsLast, OthersDoNotComplete,
       SweepIsNoRun, Untouched, LoopShape, NoStepOpen, NothingOut, Open,
       Polled, TypeOK, Workers, Writing, LoopResults, record, request, task,
       agent, faults
<1>15. CASE BeginExecution
  BY <1>15 DEF BeginExecution, TaskGoes, Shape, RowEndsLast,
       OthersDoNotComplete, SweepIsNoRun, Untouched, LoopShape, NoStepOpen,
       NothingOut, Open, Polled, TypeOK, Workers, Writing, LoopResults,
       record, request, task, agent, faults
<1>16. CASE TokenWins
  BY <1>16 DEF TokenWins, DropLoop, TaskGoes, Shape, RowEndsLast,
       OthersDoNotComplete, SweepIsNoRun, Untouched, LoopShape, NoStepOpen,
       NothingOut, Open, Polled, TypeOK, Workers, Writing, LoopResults,
       record, request, task, agent, faults
<1>17. CASE LoopEnds
  BY <1>17 DEF LoopEnds, TaskGoes, Shape, RowEndsLast, OthersDoNotComplete,
       SweepIsNoRun, Untouched, LoopShape, NoStepOpen, NothingOut, Open,
       Polled, TypeOK, Workers, Writing, LoopResults, record, request, task,
       agent, faults
<1>18. CASE TextFails
  BY <1>18 DEF TextFails, TaskCommandFails, Abandon, TaskFrame, Shape,
       RowEndsLast, OthersDoNotComplete, SweepIsNoRun, Untouched, LoopShape,
       NoStepOpen, NothingOut, Open, Polled, TypeOK, Workers, Writing,
       LoopResults, record, request, task, agent, faults
<1>19. CASE CloseStep
  BY <1>19 DEF CloseStep, TaskCommandFails, Abandon, TaskFrame, TaskGoes,
       CompleteStep, EndStep, StepFrame, Shape, RowEndsLast,
       OthersDoNotComplete, SweepIsNoRun, Untouched, LoopShape, NoStepOpen,
       NothingOut, Open, Polled, TypeOK, Workers, Writing, LoopResults,
       record, request, task, agent, faults
<1>20. CASE ListCalls
  <2>1. ~(driver' \in {"Preparing", "Executing"}) /\ row' = row /\ driver = "Listing"
    BY <1>20 DEF ListCalls, TaskCommandFails, Abandon, record
  <2>2. mode # "Run" => Verdict = outcome
    BY DEF Verdict
  <2>3. OthersDoNotComplete'
    BY <1>20, <2>2 DEF ListCalls, Shape, OthersDoNotComplete, TaskCommandFails, Abandon
  <2>4. SweepIsNoRun'
    BY <1>20 DEF ListCalls, SweepIsNoRun, TaskCommandFails, Abandon
  <2>5. QED
    BY <2>1, <2>3, <2>4 DEF Shape, RowEndsLast, Untouched, LoopShape
<1>21. CASE CallsSettled
  BY <1>21 DEF CallsSettled, TaskCommandFails, Abandon, TaskFrame, TaskGoes,
       Shape, RowEndsLast, OthersDoNotComplete, SweepIsNoRun, Untouched,
       LoopShape, NoStepOpen, NothingOut, Open, Polled, TypeOK, Workers,
       Writing, LoopResults, record, request, task, agent, faults
<1>22. ASSUME NEW c \in Calls, SettleCall(c) PROVE Shape'
  BY <1>22 DEF SettleCall, EndCall, WriteCall, CallFrame, SettledApproval,
       TaskCommandFails, Abandon, TaskFrame, Shape, RowEndsLast,
       OthersDoNotComplete, SweepIsNoRun, Untouched, LoopShape, NoStepOpen,
       NothingOut, Open, Polled, TypeOK, Workers, Writing, LoopResults,
       record, request, task, agent, faults
<1>23. CASE ListSteps
  BY <1>23 DEF ListSteps, StepsAbandoned, TaskCommandFails, TaskFrame, Shape,
       RowEndsLast, OthersDoNotComplete, SweepIsNoRun, Untouched, LoopShape,
       NoStepOpen, NothingOut, Open, Polled, TypeOK, Workers, Writing,
       LoopResults, record, request, task, agent, faults
<1>24. CASE StepsSwept
  BY <1>24 DEF StepsSwept, TaskGoes, Shape, RowEndsLast, OthersDoNotComplete,
       SweepIsNoRun, Untouched, LoopShape, NoStepOpen, NothingOut, Open,
       Polled, TypeOK, Workers, Writing, LoopResults, record, request, task,
       agent, faults
<1>25. ASSUME NEW s \in Steps, SweepStep(s) PROVE Shape'
  BY <1>25 DEF SweepStep, EndStep, StepFrame, StepsAbandoned,
       TaskCommandFails, TaskFrame, Shape, RowEndsLast, OthersDoNotComplete,
       SweepIsNoRun, Untouched, LoopShape, NoStepOpen, NothingOut, Open,
       Polled, TypeOK, Workers, Writing, LoopResults, record, request, task,
       agent, faults
<1>26. CASE FinishRun
  BY <1>26 DEF FinishRun, TaskCommandFails, TaskFrame, TaskGoes, Shape,
       RowEndsLast, OthersDoNotComplete, SweepIsNoRun, Untouched, LoopShape,
       NoStepOpen, NothingOut, Open, Polled, TypeOK, Workers, Writing,
       LoopResults, record, request, task, agent, faults
<1>27. CASE StopCleanup
  BY <1>27 DEF StopCleanup, Shape, RowEndsLast, OthersDoNotComplete,
       SweepIsNoRun, Untouched, LoopShape, NoStepOpen, NothingOut, Open,
       Polled, TypeOK, Workers, Writing, LoopResults, record, request, task,
       agent, faults
<1>28. ASSUME NEW w \in Workers, CommandEnds(w) PROVE Shape'
  <2>1. /\ UNCHANGED <<driver, mode, outcome, loop, hook>>
        /\ job[w] \in {"Out", "Orphan"}
        /\ job' = [job EXCEPT ![w] = job'[w]]
        /\ job[w] = "Out" => job'[w] \in {"Done", "Failed"}
        /\ job'[w] = "Done" => Command(w)
    BY <1>28 DEF CommandEnds, Answer, TypeOK, task
  <2>2. row' = row
    BY <1>28 DEF CommandEnds, Command, LoopCommand, CallCommand, InsertStep, CompleteStep,
         EndStep, StepFrame, EndCall, WriteCall, AppendCall, CallFrame, record
  <2>3. Untouched'
    BY <2>1 DEF Shape, Untouched, NothingOut
  <2>4. ASSUME driver = "Executing", NEW c \in Calls,
               \/ hook[c] = "Done"
               \/ hook[c] \in {"Denying", "Refusing", "Recording"} /\ job'[c] = "Done"
        PROVE  calls'[c] \in Ended
    <3>1. CASE hook[c] = "Done" \/ job[c] = "Done"
      BY <2>4, <3>1 DEF Shape, LoopShape, Kept
    <3>2. CASE c = w /\ job'[w] = "Done" /\ hook[w] \in {"Denying", "Refusing", "Recording"}
      <4>1. CallCommand(w)
        BY <2>1, <3>2 DEF Command
      <4>2. PICK status \in Ended : calls' = [calls EXCEPT ![w] = status]
        BY <3>2, <4>1 DEF CallCommand, EndCall, WriteCall, Ended
      <4>3. QED
        BY <3>2, <4>2 DEF TypeOK
    <3>3. QED
      BY <2>1, <2>4, <3>1, <3>2 DEF TypeOK, Workers
  <2>5. LoopShape'
    <3>1. ASSUME driver = "Executing"
          PROVE  /\ job'["agent"] = "None" <=> job["agent"] = "None"
                 /\ \A c \in Calls : job[c] = "None" => job'[c] = "None"
      <4>1. \A v \in Workers \ {w} : job'[v] = job[v]
        BY <2>1 DEF TypeOK
      <4>2. job'[w] # "None" \/ job[w] = "Orphan"
        BY <2>1
      <4>3. job[w] # "Orphan"
        BY <3>1 DEF NoOrphans, Living
      <4>4. QED
        BY <2>1, <4>1, <4>2, <4>3 DEF Workers
    <3>2. QED
      BY <2>1, <2>4, <3>1 DEF Shape, LoopShape
  <2>6. QED
    BY <2>1, <2>2, <2>3, <2>5 DEF Shape, RowEndsLast, OthersDoNotComplete, SweepIsNoRun
<1>29. CASE Cancel
  BY <1>29 DEF Cancel, Shape, RowEndsLast, OthersDoNotComplete, SweepIsNoRun,
       Untouched, LoopShape, NoStepOpen, NothingOut, Open, Polled, TypeOK,
       Workers, Writing, LoopResults, record, request, task, agent, faults
<1>30. CASE Restart
  BY <1>30 DEF Restart, Shape, RowEndsLast, OthersDoNotComplete, SweepIsNoRun,
       Untouched, LoopShape, NoStepOpen, NothingOut, Open, Polled, TypeOK,
       Workers, Writing, LoopResults, record, request, task, agent, faults
<1>31. CASE UNCHANGED vars
  BY <1>31 DEF vars, record, request, task, agent, faults, Shape, RowEndsLast,
       OthersDoNotComplete, SweepIsNoRun, Untouched, LoopShape, NoStepOpen,
       NothingOut, Open, Polled, TypeOK, Workers, Writing, LoopResults
<1>32. QED
  BY <1>1, <1>2, <1>3, <1>4, <1>5, <1>6, <1>7, <1>8, <1>9, <1>10, <1>11,
       <1>12, <1>13, <1>14, <1>15, <1>16, <1>17, <1>18, <1>19, <1>20, <1>21,
       <1>22, <1>23, <1>24, <1>25, <1>26, <1>27, <1>28, <1>29, <1>30, <1>31
       DEF Next, LoopStep, TaskStep
\* There is one last step.
LEMMA OneLastStep ==
  ASSUME AgentRunAssumption, NEW r \in Steps, NEW s \in Steps, IsLast(r), IsLast(s)
  PROVE  r = s
  BY DEF AgentRunAssumption, IsLast, Steps

\* A step that is inserted becomes the last.
LEMMA InsertedIsLast ==
  ASSUME AgentRunAssumption, TypeOK, StepsContiguous, NEW s \in Steps, InsertStep(s)
  PROVE  IsLast(s)'
  <1>1. /\ steps' = [steps EXCEPT ![s] = "Running"] /\ steps[s] = "None"
    BY DEF InsertStep, IsNext
  <1>2. \A r \in Steps : s < r => steps[r] = "None"
    BY <1>1 DEF StepsContiguous
  <1>3. QED
    BY <1>1, <1>2 DEF IsLast, TypeOK, Steps, AgentRunAssumption

\* A clean run stays silent once its loop is gone.
LEMMA SilentStep ==
  ASSUME TypeOK, NoOrphans, CallRecords, StepsContiguous, Shape, Kept, Clean, Silent, StepsKnown, CallsKnown, Clean', "agent" \notin Calls, [Next]_vars
  PROVE  Silent'
<1>1. CASE BeginTurn
  BY <1>1 DEF BeginTurn, LoopFrame, Send, Silent, Clean, Shape, RowEndsLast,
       SweepIsNoRun, Untouched, LoopShape, NoStepOpen, NoCallOpen, NothingOut,
       Open, Polled, TypeOK, Workers, LoopResults, Writing, record, request,
       task, agent, faults
<1>2. CASE StepInserted
  BY <1>2 DEF StepInserted, LoopFrame, Take, IsLast, Silent, Clean, Shape,
       RowEndsLast, SweepIsNoRun, Untouched, LoopShape, NoStepOpen,
       NoCallOpen, NothingOut, Open, Polled, TypeOK, Workers, LoopResults,
       Writing, record, request, task, agent, faults
<1>3. CASE ProviderFails
  BY <1>3 DEF ProviderFails, LoopFrame, Send, Silent, Clean, Shape,
       RowEndsLast, SweepIsNoRun, Untouched, LoopShape, NoStepOpen,
       NoCallOpen, NothingOut, Open, Polled, TypeOK, Workers, LoopResults,
       Writing, record, request, task, agent, faults
<1>4. CASE StepEnded
  BY <1>4 DEF StepEnded, LoopFrame, Take, Silent, Clean, Shape, RowEndsLast,
       SweepIsNoRun, Untouched, LoopShape, NoStepOpen, NoCallOpen, NothingOut,
       Open, Polled, TypeOK, Workers, LoopResults, Writing, record, request,
       task, agent, faults
<1>5. CASE AnswerFails
  BY <1>5 DEF AnswerFails, Take, Silent, Clean, Shape, RowEndsLast,
       SweepIsNoRun, Untouched, LoopShape, NoStepOpen, NoCallOpen, NothingOut,
       Open, Polled, TypeOK, Workers, LoopResults, Writing, record, request,
       task, agent, faults
<1>6. CASE ToolsEnd
  BY <1>6 DEF ToolsEnd, LoopFrame, Silent, Clean, Shape, RowEndsLast,
       SweepIsNoRun, Untouched, LoopShape, NoStepOpen, NoCallOpen, NothingOut,
       Open, Polled, TypeOK, Workers, LoopResults, Writing, record, request,
       task, agent, faults
<1>7. ASSUME NEW asked \in SUBSET Calls, ProviderAnswers(asked) PROVE Silent'
  BY <1>7 DEF ProviderAnswers, LoopFrame, Send, Silent, Clean, Shape,
       RowEndsLast, SweepIsNoRun, Untouched, LoopShape, NoStepOpen,
       NoCallOpen, NothingOut, Open, Polled, TypeOK, Workers, LoopResults,
       Writing, record, request, task, agent, faults
<1>8. ASSUME NEW c \in Calls, HookStarts(c) PROVE Silent'
  BY <1>8 DEF HookStarts, HookMoves, LoopFrame, Silent, Clean, Shape,
       RowEndsLast, SweepIsNoRun, Untouched, LoopShape, NoStepOpen,
       NoCallOpen, NothingOut, Open, Polled, TypeOK, Workers, LoopResults,
       Writing, record, request, task, agent, faults
<1>9. ASSUME NEW c \in Calls, HookResumes(c) PROVE Silent'
  BY <1>9 DEF HookResumes, HookMoves, LoopFrame, After, Silent, Clean, Shape,
       RowEndsLast, SweepIsNoRun, Untouched, LoopShape, NoStepOpen,
       NoCallOpen, NothingOut, Open, Polled, TypeOK, Workers, LoopResults,
       Writing, record, request, task, agent, faults
<1>10. ASSUME NEW c \in Calls, UserDecides(c) PROVE Silent'
  BY <1>10 DEF UserDecides, HookMoves, LoopFrame, Silent, Clean, Shape,
       RowEndsLast, SweepIsNoRun, Untouched, LoopShape, NoStepOpen,
       NoCallOpen, NothingOut, Open, Polled, TypeOK, Workers, LoopResults,
       Writing, record, request, task, agent, faults
<1>11. ASSUME NEW c \in Calls, WaitSeesToken(c) PROVE Silent'
  BY <1>11 DEF WaitSeesToken, HookMoves, LoopFrame, Silent, Clean, Shape,
       RowEndsLast, SweepIsNoRun, Untouched, LoopShape, NoStepOpen,
       NoCallOpen, NothingOut, Open, Polled, TypeOK, Workers, LoopResults,
       Writing, record, request, task, agent, faults
<1>12. ASSUME NEW c \in Calls, ToolReturns(c) PROVE Silent'
  BY <1>12 DEF ToolReturns, HookMoves, LoopFrame, Silent, Clean, Shape,
       RowEndsLast, SweepIsNoRun, Untouched, LoopShape, NoStepOpen,
       NoCallOpen, NothingOut, Open, Polled, TypeOK, Workers, LoopResults,
       Writing, record, request, task, agent, faults
<1>13. CASE PreparationCanceled
  BY <1>13 DEF PreparationCanceled, Silent, Clean, Shape, RowEndsLast,
       SweepIsNoRun, Untouched, LoopShape, NoStepOpen, NoCallOpen, NothingOut,
       Open, Polled, TypeOK, Workers, LoopResults, Writing, record, request,
       task, agent, faults
<1>14. CASE SetupFailed
  BY <1>14 DEF SetupFailed, Silent, Clean, Shape, RowEndsLast, SweepIsNoRun,
       Untouched, LoopShape, NoStepOpen, NoCallOpen, NothingOut, Open, Polled,
       TypeOK, Workers, LoopResults, Writing, record, request, task, agent,
       faults
<1>15. CASE BeginExecution
  BY <1>15 DEF BeginExecution, TaskGoes, Silent, Clean, Shape, RowEndsLast,
       SweepIsNoRun, Untouched, LoopShape, NoStepOpen, NoCallOpen, NothingOut,
       Open, Polled, TypeOK, Workers, LoopResults, Writing, record, request,
       task, agent, faults
<1>16. CASE TokenWins
  BY <1>16 DEF TokenWins, DropLoop, TaskGoes, Silent, Clean, Shape,
       RowEndsLast, SweepIsNoRun, Untouched, LoopShape, NoStepOpen,
       NoCallOpen, NothingOut, Open, Polled, TypeOK, Workers, LoopResults,
       Writing, record, request, task, agent, faults
<1>17. CASE LoopEnds
  BY <1>17 DEF LoopEnds, TaskGoes, Silent, Clean, Shape, RowEndsLast,
       SweepIsNoRun, Untouched, LoopShape, NoStepOpen, NoCallOpen, NothingOut,
       Open, Polled, TypeOK, Workers, LoopResults, Writing, record, request,
       task, agent, faults
<1>18. CASE TextFails
  BY <1>18 DEF TextFails, TaskCommandFails, Abandon, TaskFrame, Silent, Clean,
       Shape, RowEndsLast, SweepIsNoRun, Untouched, LoopShape, NoStepOpen,
       NoCallOpen, NothingOut, Open, Polled, TypeOK, Workers, LoopResults,
       Writing, record, request, task, agent, faults
<1>19. CASE CloseStep
  BY <1>19 DEF CloseStep, TaskCommandFails, Abandon, TaskFrame, TaskGoes,
       CompleteStep, EndStep, StepFrame, Silent, Clean, Shape, RowEndsLast,
       SweepIsNoRun, Untouched, LoopShape, NoStepOpen, NoCallOpen, NothingOut,
       Open, Polled, TypeOK, Workers, LoopResults, Writing, record, request,
       task, agent, faults
<1>20. CASE ListCalls
  BY <1>20 DEF ListCalls, Verdict, Listed, TaskCommandFails, Abandon,
       TaskFrame, Silent, Clean, Shape, RowEndsLast, SweepIsNoRun, Untouched,
       LoopShape, NoStepOpen, NoCallOpen, NothingOut, Open, Polled, TypeOK,
       Workers, LoopResults, Writing, record, request, task, agent, faults
<1>21. CASE CallsSettled
  BY <1>21 DEF CallsSettled, TaskCommandFails, Abandon, TaskFrame, TaskGoes,
       Silent, Clean, Shape, RowEndsLast, SweepIsNoRun, Untouched, LoopShape,
       NoStepOpen, NoCallOpen, NothingOut, Open, Polled, TypeOK, Workers,
       LoopResults, Writing, record, request, task, agent, faults
<1>22. ASSUME NEW c \in Calls, SettleCall(c) PROVE Silent'
  BY <1>22 DEF SettleCall, EndCall, WriteCall, CallFrame, SettledApproval,
       TaskCommandFails, Abandon, TaskFrame, Silent, Clean, Shape,
       RowEndsLast, SweepIsNoRun, Untouched, LoopShape, NoStepOpen,
       NoCallOpen, NothingOut, Open, Polled, TypeOK, Workers, LoopResults,
       Writing, record, request, task, agent, faults
<1>23. CASE ListSteps
  BY <1>23 DEF ListSteps, StepsAbandoned, TaskCommandFails, TaskFrame, Silent,
       Clean, Shape, RowEndsLast, SweepIsNoRun, Untouched, LoopShape,
       NoStepOpen, NoCallOpen, NothingOut, Open, Polled, TypeOK, Workers,
       LoopResults, Writing, record, request, task, agent, faults
<1>24. CASE StepsSwept
  BY <1>24 DEF StepsSwept, TaskGoes, Silent, Clean, Shape, RowEndsLast,
       SweepIsNoRun, Untouched, LoopShape, NoStepOpen, NoCallOpen, NothingOut,
       Open, Polled, TypeOK, Workers, LoopResults, Writing, record, request,
       task, agent, faults
<1>25. ASSUME NEW s \in Steps, SweepStep(s) PROVE Silent'
  BY <1>25 DEF SweepStep, EndStep, StepFrame, StepsAbandoned,
       TaskCommandFails, TaskFrame, Silent, Clean, Shape, RowEndsLast,
       SweepIsNoRun, Untouched, LoopShape, NoStepOpen, NoCallOpen, NothingOut,
       Open, Polled, TypeOK, Workers, LoopResults, Writing, record, request,
       task, agent, faults
<1>26. CASE FinishRun
  BY <1>26 DEF FinishRun, TaskCommandFails, TaskFrame, TaskGoes, Silent,
       Clean, Shape, RowEndsLast, SweepIsNoRun, Untouched, LoopShape,
       NoStepOpen, NoCallOpen, NothingOut, Open, Polled, TypeOK, Workers,
       LoopResults, Writing, record, request, task, agent, faults
<1>27. CASE StopCleanup
  BY <1>27 DEF StopCleanup, Silent, Clean, Shape, RowEndsLast, SweepIsNoRun,
       Untouched, LoopShape, NoStepOpen, NoCallOpen, NothingOut, Open, Polled,
       TypeOK, Workers, LoopResults, Writing, record, request, task, agent,
       faults
<1>28. ASSUME NEW w \in Workers, CommandEnds(w) PROVE Silent'
  BY <1>28 DEF CommandEnds, Answer, Command, LoopCommand, CallCommand,
       InsertStep, CompleteStep, EndStep, StepFrame, EndCall, WriteCall,
       AppendCall, CallFrame, Silent, Clean, Shape, RowEndsLast, SweepIsNoRun,
       Untouched, LoopShape, NoStepOpen, NoCallOpen, NothingOut, Open, Polled,
       TypeOK, Workers, LoopResults, Writing, record, request, task, agent,
       faults
<1>29. CASE Cancel
  BY <1>29 DEF Cancel, Silent, Clean, Shape, RowEndsLast, SweepIsNoRun,
       Untouched, LoopShape, NoStepOpen, NoCallOpen, NothingOut, Open, Polled,
       TypeOK, Workers, LoopResults, Writing, record, request, task, agent,
       faults
<1>30. CASE Restart
  BY <1>30 DEF Restart, Silent, Clean, Shape, RowEndsLast, SweepIsNoRun,
       Untouched, LoopShape, NoStepOpen, NoCallOpen, NothingOut, Open, Polled,
       TypeOK, Workers, LoopResults, Writing, record, request, task, agent,
       faults
<1>31. CASE UNCHANGED vars
  BY <1>31 DEF vars, record, request, task, agent, faults, Silent, Clean,
       Shape, RowEndsLast, SweepIsNoRun, Untouched, LoopShape, NoStepOpen,
       NoCallOpen, NothingOut, Open, Polled, TypeOK, Workers, LoopResults,
       Writing
<1>32. QED
  BY <1>1, <1>2, <1>3, <1>4, <1>5, <1>6, <1>7, <1>8, <1>9, <1>10, <1>11,
       <1>12, <1>13, <1>14, <1>15, <1>16, <1>17, <1>18, <1>19, <1>20, <1>21,
       <1>22, <1>23, <1>24, <1>25, <1>26, <1>27, <1>28, <1>29, <1>30, <1>31
       DEF Next, LoopStep, TaskStep
\* The step that may be open stays known.
LEMMA OpenStepStep ==
  ASSUME AgentRunAssumption, TypeOK, NoOrphans, CallRecords, StepsContiguous, Shape, Kept, Clean, Silent, StepsKnown, CallsKnown, Clean', "agent" \notin Calls, [Next]_vars
  PROVE  StepsKnown'
<1>1. CASE BeginTurn
  BY <1>1 DEF BeginTurn, LoopFrame, Send, Silent, StepsKnown, IsLast, Clean,
       Shape, RowEndsLast, SweepIsNoRun, Untouched, LoopShape, NoStepOpen,
       NoCallOpen, NothingOut, Open, Polled, TypeOK, Workers, LoopResults,
       Writing, record, request, task, agent, faults
<1>2. CASE StepInserted
  <2>1. /\ loop = "Inserting" /\ driver = "Executing" /\ job["agent"] = "Done"
        /\ UNCHANGED <<driver, steps>> /\ loop' = "Calling"
        /\ \E s \in Steps : IsLast(s) /\ current' = s
    BY <1>2 DEF StepInserted, Polled, StepsKnown, LoopFrame, record, task
  <2>2. \A s \in Steps : Open(s) => IsLast(s)
    BY <2>1 DEF StepsKnown, NoStepOpen
  <2>3. \A s \in Steps : Open(s) => s = current' /\ IsLast(s)
    BY <2>1, <2>2, OneLastStep
  <2>4. QED
    BY <2>1, <2>3 DEF StepsKnown, Open, IsLast
<1>3. CASE ProviderFails
  BY <1>3 DEF ProviderFails, LoopFrame, Send, Silent, StepsKnown, IsLast,
       Clean, Shape, RowEndsLast, SweepIsNoRun, Untouched, LoopShape,
       NoStepOpen, NoCallOpen, NothingOut, Open, Polled, TypeOK, Workers,
       LoopResults, Writing, record, request, task, agent, faults
<1>4. CASE StepEnded
  BY <1>4 DEF StepEnded, LoopFrame, Take, Silent, StepsKnown, IsLast, Clean,
       Shape, RowEndsLast, SweepIsNoRun, Untouched, LoopShape, NoStepOpen,
       NoCallOpen, NothingOut, Open, Polled, TypeOK, Workers, LoopResults,
       Writing, record, request, task, agent, faults
<1>5. CASE AnswerFails
  BY <1>5 DEF AnswerFails, Take, Silent, StepsKnown, IsLast, Clean, Shape,
       RowEndsLast, SweepIsNoRun, Untouched, LoopShape, NoStepOpen,
       NoCallOpen, NothingOut, Open, Polled, TypeOK, Workers, LoopResults,
       Writing, record, request, task, agent, faults
<1>6. CASE ToolsEnd
  BY <1>6 DEF ToolsEnd, LoopFrame, Silent, StepsKnown, IsLast, Clean, Shape,
       RowEndsLast, SweepIsNoRun, Untouched, LoopShape, NoStepOpen,
       NoCallOpen, NothingOut, Open, Polled, TypeOK, Workers, LoopResults,
       Writing, record, request, task, agent, faults
<1>7. ASSUME NEW asked \in SUBSET Calls, ProviderAnswers(asked) PROVE
     StepsKnown'
  BY <1>7 DEF ProviderAnswers, LoopFrame, Send, Silent, StepsKnown, IsLast,
       Clean, Shape, RowEndsLast, SweepIsNoRun, Untouched, LoopShape,
       NoStepOpen, NoCallOpen, NothingOut, Open, Polled, TypeOK, Workers,
       LoopResults, Writing, record, request, task, agent, faults
<1>8. ASSUME NEW c \in Calls, HookStarts(c) PROVE StepsKnown'
  BY <1>8 DEF HookStarts, HookMoves, LoopFrame, Silent, StepsKnown, IsLast,
       Clean, Shape, RowEndsLast, SweepIsNoRun, Untouched, LoopShape,
       NoStepOpen, NoCallOpen, NothingOut, Open, Polled, TypeOK, Workers,
       LoopResults, Writing, record, request, task, agent, faults
<1>9. ASSUME NEW c \in Calls, HookResumes(c) PROVE StepsKnown'
  BY <1>9 DEF HookResumes, HookMoves, LoopFrame, After, Silent, StepsKnown,
       IsLast, Clean, Shape, RowEndsLast, SweepIsNoRun, Untouched, LoopShape,
       NoStepOpen, NoCallOpen, NothingOut, Open, Polled, TypeOK, Workers,
       LoopResults, Writing, record, request, task, agent, faults
<1>10. ASSUME NEW c \in Calls, UserDecides(c) PROVE StepsKnown'
  BY <1>10 DEF UserDecides, HookMoves, LoopFrame, Silent, StepsKnown, IsLast,
       Clean, Shape, RowEndsLast, SweepIsNoRun, Untouched, LoopShape,
       NoStepOpen, NoCallOpen, NothingOut, Open, Polled, TypeOK, Workers,
       LoopResults, Writing, record, request, task, agent, faults
<1>11. ASSUME NEW c \in Calls, WaitSeesToken(c) PROVE StepsKnown'
  BY <1>11 DEF WaitSeesToken, HookMoves, LoopFrame, Silent, StepsKnown,
       IsLast, Clean, Shape, RowEndsLast, SweepIsNoRun, Untouched, LoopShape,
       NoStepOpen, NoCallOpen, NothingOut, Open, Polled, TypeOK, Workers,
       LoopResults, Writing, record, request, task, agent, faults
<1>12. ASSUME NEW c \in Calls, ToolReturns(c) PROVE StepsKnown'
  BY <1>12 DEF ToolReturns, HookMoves, LoopFrame, Silent, StepsKnown, IsLast,
       Clean, Shape, RowEndsLast, SweepIsNoRun, Untouched, LoopShape,
       NoStepOpen, NoCallOpen, NothingOut, Open, Polled, TypeOK, Workers,
       LoopResults, Writing, record, request, task, agent, faults
<1>13. CASE PreparationCanceled
  BY <1>13 DEF PreparationCanceled, Silent, StepsKnown, IsLast, Clean, Shape,
       RowEndsLast, SweepIsNoRun, Untouched, LoopShape, NoStepOpen,
       NoCallOpen, NothingOut, Open, Polled, TypeOK, Workers, LoopResults,
       Writing, record, request, task, agent, faults
<1>14. CASE SetupFailed
  BY <1>14 DEF SetupFailed, Silent, StepsKnown, IsLast, Clean, Shape,
       RowEndsLast, SweepIsNoRun, Untouched, LoopShape, NoStepOpen,
       NoCallOpen, NothingOut, Open, Polled, TypeOK, Workers, LoopResults,
       Writing, record, request, task, agent, faults
<1>15. CASE BeginExecution
  BY <1>15 DEF BeginExecution, TaskGoes, Silent, StepsKnown, IsLast, Clean,
       Shape, RowEndsLast, SweepIsNoRun, Untouched, LoopShape, NoStepOpen,
       NoCallOpen, NothingOut, Open, Polled, TypeOK, Workers, LoopResults,
       Writing, record, request, task, agent, faults
<1>16. CASE TokenWins
  <2>1. /\ driver = "Executing" /\ driver' = "Closing" /\ UNCHANGED <<steps, current>>
        /\ loop \notin LoopResults
    BY <1>16 DEF TokenWins, TaskGoes, record
  <2>2. job["agent"] = "None"
    BY <1>16 DEF TokenWins, DropLoop, Clean, Workers
  <2>3. loop \in {"Turn", "Calling", "Tools"}
    BY <2>1, <2>2 DEF Shape, LoopShape, TypeOK, LoopPhases, LoopResults
  <2>4. \A s \in Steps : Open(s) => s = current
    BY <2>1, <2>3 DEF StepsKnown, NoStepOpen
  <2>5. QED
    BY <2>1, <2>4 DEF StepsKnown, Open
<1>17. CASE LoopEnds
  BY <1>17 DEF LoopEnds, TaskGoes, Silent, StepsKnown, IsLast, Clean, Shape,
       RowEndsLast, SweepIsNoRun, Untouched, LoopShape, NoStepOpen,
       NoCallOpen, NothingOut, Open, Polled, TypeOK, Workers, LoopResults,
       Writing, record, request, task, agent, faults
<1>18. CASE TextFails
  BY <1>18 DEF TextFails, TaskCommandFails, Abandon, TaskFrame, Silent,
       StepsKnown, IsLast, Clean, Shape, RowEndsLast, SweepIsNoRun, Untouched,
       LoopShape, NoStepOpen, NoCallOpen, NothingOut, Open, Polled, TypeOK,
       Workers, LoopResults, Writing, record, request, task, agent, faults
<1>19. CASE CloseStep
  <2>1. driver = "Closing" /\ driver' = "Listing"
    BY <1>19 DEF CloseStep, TaskGoes, TaskCommandFails, Clean, TypeOK
  <2>2. \A s \in Steps : Open(s) => s = current
    BY <2>1 DEF StepsKnown
  <2>3. \/ CompleteStep(current)
        \/ current = 0 /\ UNCHANGED steps
        \/ \E status \in {"Canceled", "Failed"} : EndStep(current, status)
    <3>1. ~TaskCommandFails
      BY DEF TaskCommandFails, Clean
    <3>2. CASE loop = "Completed" /\ ~cancelled
      BY <1>19, <3>1, <3>2 DEF CloseStep
    <3>3. CASE ~(loop = "Completed" /\ ~cancelled)
      BY <1>19, <3>1, <3>3 DEF CloseStep, record
    <3>4. QED
      BY <3>2, <3>3
  <2>4. NoStepOpen'
    BY <2>2, <2>3 DEF CompleteStep, EndStep, NoStepOpen, Open, TypeOK, Steps
  <2>5. QED
    BY <2>1, <2>4 DEF StepsKnown
<1>20. CASE ListCalls
  BY <1>20 DEF ListCalls, Verdict, Listed, TaskCommandFails, Abandon,
       TaskFrame, Silent, StepsKnown, IsLast, Clean, Shape, RowEndsLast,
       SweepIsNoRun, Untouched, LoopShape, NoStepOpen, NoCallOpen, NothingOut,
       Open, Polled, TypeOK, Workers, LoopResults, Writing, record, request,
       task, agent, faults
<1>21. CASE CallsSettled
  BY <1>21 DEF CallsSettled, TaskCommandFails, Abandon, TaskFrame, TaskGoes,
       Silent, StepsKnown, IsLast, Clean, Shape, RowEndsLast, SweepIsNoRun,
       Untouched, LoopShape, NoStepOpen, NoCallOpen, NothingOut, Open, Polled,
       TypeOK, Workers, LoopResults, Writing, record, request, task, agent,
       faults
<1>22. ASSUME NEW c \in Calls, SettleCall(c) PROVE StepsKnown'
  BY <1>22 DEF SettleCall, EndCall, WriteCall, CallFrame, SettledApproval,
       TaskCommandFails, Abandon, TaskFrame, Silent, StepsKnown, IsLast,
       Clean, Shape, RowEndsLast, SweepIsNoRun, Untouched, LoopShape,
       NoStepOpen, NoCallOpen, NothingOut, Open, Polled, TypeOK, Workers,
       LoopResults, Writing, record, request, task, agent, faults
<1>23. CASE ListSteps
  BY <1>23 DEF ListSteps, StepsAbandoned, TaskCommandFails, TaskFrame, Silent,
       StepsKnown, IsLast, Clean, Shape, RowEndsLast, SweepIsNoRun, Untouched,
       LoopShape, NoStepOpen, NoCallOpen, NothingOut, Open, Polled, TypeOK,
       Workers, LoopResults, Writing, record, request, task, agent, faults
<1>24. CASE StepsSwept
  BY <1>24 DEF StepsSwept, TaskGoes, Silent, StepsKnown, IsLast, Clean, Shape,
       RowEndsLast, SweepIsNoRun, Untouched, LoopShape, NoStepOpen,
       NoCallOpen, NothingOut, Open, Polled, TypeOK, Workers, LoopResults,
       Writing, record, request, task, agent, faults
<1>25. ASSUME NEW s \in Steps, SweepStep(s) PROVE StepsKnown'
  BY <1>25 DEF SweepStep, EndStep, StepFrame, StepsAbandoned,
       TaskCommandFails, TaskFrame, Silent, StepsKnown, IsLast, Clean, Shape,
       RowEndsLast, SweepIsNoRun, Untouched, LoopShape, NoStepOpen,
       NoCallOpen, NothingOut, Open, Polled, TypeOK, Workers, LoopResults,
       Writing, record, request, task, agent, faults
<1>26. CASE FinishRun
  BY <1>26 DEF FinishRun, TaskCommandFails, TaskFrame, TaskGoes, Silent,
       StepsKnown, IsLast, Clean, Shape, RowEndsLast, SweepIsNoRun, Untouched,
       LoopShape, NoStepOpen, NoCallOpen, NothingOut, Open, Polled, TypeOK,
       Workers, LoopResults, Writing, record, request, task, agent, faults
<1>27. CASE StopCleanup
  BY <1>27 DEF StopCleanup, Silent, StepsKnown, IsLast, Clean, Shape,
       RowEndsLast, SweepIsNoRun, Untouched, LoopShape, NoStepOpen,
       NoCallOpen, NothingOut, Open, Polled, TypeOK, Workers, LoopResults,
       Writing, record, request, task, agent, faults
<1>28. ASSUME NEW w \in Workers, CommandEnds(w) PROVE StepsKnown'
  <2>1. UNCHANGED <<driver, loop, current, openSteps, streaming>>
    BY <1>28 DEF CommandEnds, Answer, task, request
  <2>2. driver = "Executing" /\ job[w] = "Out"
    BY <1>28 DEF CommandEnds, Silent, NothingOut, NoOrphans, Living
  <2>3. CASE w # "agent"
    <3>1. UNCHANGED steps /\ job'["agent"] = job["agent"]
      BY <1>28, <2>3 DEF CommandEnds, Answer, Command, CallCommand, EndCall, WriteCall,
           AppendCall, CallFrame, record, TypeOK, Workers
    <3>2. QED
      BY <2>1, <3>1 DEF StepsKnown, NoStepOpen, Open, IsLast
  <2>4. CASE w = "agent"
    <3>1. \/ Command("agent") /\ job'["agent"] = "Done"
          \/ TurnedDown("agent") /\ job'["agent"] = "Failed" /\ UNCHANGED steps
      BY <1>28, <2>2, <2>4 DEF CommandEnds, Answer, Clean, TypeOK, Workers, record
    <3>2. CASE loop = "Inserting"
      <4>1. PICK s \in Steps : InsertStep(s) /\ job'["agent"] = "Done"
        BY <3>1, <3>2 DEF Command, LoopCommand, TurnedDown
      <4>2. NoStepOpen
        BY <2>2, <2>4, <3>2 DEF StepsKnown
      <4>3. \A r \in Steps : Open(r)' => IsLast(r)'
        BY <4>1, <4>2, InsertedIsLast DEF InsertStep, NoStepOpen, Open, TypeOK
      <4>4. QED
        BY <2>1, <2>2, <3>2, <4>1, <4>3 DEF StepsKnown
    <3>3. CASE loop \in {"Completing", "Ending"}
      <4>1. \A s \in Steps : Open(s) => IsLast(s)
        BY <2>2, <2>4, <3>3 DEF StepsKnown
      <4>2. PICK s \in Steps :
              /\ IsLast(s)
              /\ \/ CompleteStep(s) \/ EndStep(s, "Failed")
                 \/ ~CanComplete(s) /\ UNCHANGED steps
        BY <3>1, <3>3 DEF Command, LoopCommand, TurnedDown
      <4>3. \A r \in Steps : Open(r) => r = s
        BY <4>1, <4>2, OneLastStep
      <4>4. NoStepOpen'
        BY <4>2, <4>3 DEF CompleteStep, EndStep, CanComplete, NoStepOpen, Open, TypeOK
      <4>5. QED
        BY <2>1, <2>2, <3>1, <3>3, <4>4 DEF StepsKnown
    <3>4. QED
      BY <2>2, <2>4, <3>2, <3>3 DEF Shape, LoopShape
  <2>5. QED
    BY <2>3, <2>4
<1>29. CASE Cancel
  BY <1>29 DEF Cancel, Silent, StepsKnown, IsLast, Clean, Shape, RowEndsLast,
       SweepIsNoRun, Untouched, LoopShape, NoStepOpen, NoCallOpen, NothingOut,
       Open, Polled, TypeOK, Workers, LoopResults, Writing, record, request,
       task, agent, faults
<1>30. CASE Restart
  BY <1>30 DEF Restart, Silent, StepsKnown, IsLast, Clean, Shape, RowEndsLast,
       SweepIsNoRun, Untouched, LoopShape, NoStepOpen, NoCallOpen, NothingOut,
       Open, Polled, TypeOK, Workers, LoopResults, Writing, record, request,
       task, agent, faults
<1>31. CASE UNCHANGED vars
  BY <1>31 DEF vars, record, request, task, agent, faults, Silent, StepsKnown,
       IsLast, Clean, Shape, RowEndsLast, SweepIsNoRun, Untouched, LoopShape,
       NoStepOpen, NoCallOpen, NothingOut, Open, Polled, TypeOK, Workers,
       LoopResults, Writing
<1>32. QED
  BY <1>1, <1>2, <1>3, <1>4, <1>5, <1>6, <1>7, <1>8, <1>9, <1>10, <1>11,
       <1>12, <1>13, <1>14, <1>15, <1>16, <1>17, <1>18, <1>19, <1>20, <1>21,
       <1>22, <1>23, <1>24, <1>25, <1>26, <1>27, <1>28, <1>29, <1>30, <1>31
       DEF Next, LoopStep, TaskStep
\* The tool calls that may be open stay known.
LEMMA OpenCallStep ==
  ASSUME TypeOK, NoOrphans, CallRecords, StepsContiguous, Shape, Kept, Clean, Silent, StepsKnown, CallsKnown, Clean', "agent" \notin Calls, [Next]_vars
  PROVE  CallsKnown'
<1>1. CASE BeginTurn
  BY <1>1 DEF BeginTurn, LoopFrame, Send, Silent, CallsKnown, CallRecords,
       CallRecord, Living, Active, Ended, Clean, Shape, RowEndsLast,
       SweepIsNoRun, Untouched, LoopShape, NoStepOpen, NoCallOpen, NothingOut,
       Open, Polled, TypeOK, Workers, LoopResults, Writing, record, request,
       task, agent, faults
<1>2. CASE StepInserted
  BY <1>2 DEF StepInserted, LoopFrame, Take, IsLast, Silent, CallsKnown,
       CallRecords, CallRecord, Living, Active, Ended, Clean, Shape,
       RowEndsLast, SweepIsNoRun, Untouched, LoopShape, NoStepOpen,
       NoCallOpen, NothingOut, Open, Polled, TypeOK, Workers, LoopResults,
       Writing, record, request, task, agent, faults
<1>3. CASE ProviderFails
  BY <1>3 DEF ProviderFails, LoopFrame, Send, Silent, CallsKnown, CallRecords,
       CallRecord, Living, Active, Ended, Clean, Shape, RowEndsLast,
       SweepIsNoRun, Untouched, LoopShape, NoStepOpen, NoCallOpen, NothingOut,
       Open, Polled, TypeOK, Workers, LoopResults, Writing, record, request,
       task, agent, faults
<1>4. CASE StepEnded
  BY <1>4 DEF StepEnded, LoopFrame, Take, Silent, CallsKnown, CallRecords,
       CallRecord, Living, Active, Ended, Clean, Shape, RowEndsLast,
       SweepIsNoRun, Untouched, LoopShape, NoStepOpen, NoCallOpen, NothingOut,
       Open, Polled, TypeOK, Workers, LoopResults, Writing, record, request,
       task, agent, faults
<1>5. CASE AnswerFails
  BY <1>5 DEF AnswerFails, Take, Silent, CallsKnown, CallRecords, CallRecord,
       Living, Active, Ended, Clean, Shape, RowEndsLast, SweepIsNoRun,
       Untouched, LoopShape, NoStepOpen, NoCallOpen, NothingOut, Open, Polled,
       TypeOK, Workers, LoopResults, Writing, record, request, task, agent,
       faults
<1>6. CASE ToolsEnd
  BY <1>6 DEF ToolsEnd, LoopFrame, Silent, CallsKnown, CallRecords,
       CallRecord, Living, Active, Ended, Clean, Shape, RowEndsLast,
       SweepIsNoRun, Untouched, LoopShape, NoStepOpen, NoCallOpen, NothingOut,
       Open, Polled, TypeOK, Workers, LoopResults, Writing, record, request,
       task, agent, faults
<1>7. ASSUME NEW asked \in SUBSET Calls, ProviderAnswers(asked) PROVE
     CallsKnown'
  BY <1>7 DEF ProviderAnswers, LoopFrame, Send, Silent, CallsKnown,
       CallRecords, CallRecord, Living, Active, Ended, Clean, Shape,
       RowEndsLast, SweepIsNoRun, Untouched, LoopShape, NoStepOpen,
       NoCallOpen, NothingOut, Open, Polled, TypeOK, Workers, LoopResults,
       Writing, record, request, task, agent, faults
<1>8. ASSUME NEW c \in Calls, HookStarts(c) PROVE CallsKnown'
  BY <1>8 DEF HookStarts, HookMoves, LoopFrame, Silent, CallsKnown,
       CallRecords, CallRecord, Living, Active, Ended, Clean, Shape,
       RowEndsLast, SweepIsNoRun, Untouched, LoopShape, NoStepOpen,
       NoCallOpen, NothingOut, Open, Polled, TypeOK, Workers, LoopResults,
       Writing, record, request, task, agent, faults
<1>9. ASSUME NEW c \in Calls, HookResumes(c) PROVE CallsKnown'
  BY <1>9 DEF HookResumes, HookMoves, LoopFrame, After, Silent, CallsKnown,
       CallRecords, CallRecord, Living, Active, Ended, Clean, Shape,
       RowEndsLast, SweepIsNoRun, Untouched, LoopShape, NoStepOpen,
       NoCallOpen, NothingOut, Open, Polled, TypeOK, Workers, LoopResults,
       Writing, record, request, task, agent, faults
<1>10. ASSUME NEW c \in Calls, UserDecides(c) PROVE CallsKnown'
  BY <1>10 DEF UserDecides, HookMoves, LoopFrame, Silent, CallsKnown,
       CallRecords, CallRecord, Living, Active, Ended, Clean, Shape,
       RowEndsLast, SweepIsNoRun, Untouched, LoopShape, NoStepOpen,
       NoCallOpen, NothingOut, Open, Polled, TypeOK, Workers, LoopResults,
       Writing, record, request, task, agent, faults
<1>11. ASSUME NEW c \in Calls, WaitSeesToken(c) PROVE CallsKnown'
  BY <1>11 DEF WaitSeesToken, HookMoves, LoopFrame, Silent, CallsKnown,
       CallRecords, CallRecord, Living, Active, Ended, Clean, Shape,
       RowEndsLast, SweepIsNoRun, Untouched, LoopShape, NoStepOpen,
       NoCallOpen, NothingOut, Open, Polled, TypeOK, Workers, LoopResults,
       Writing, record, request, task, agent, faults
<1>12. ASSUME NEW c \in Calls, ToolReturns(c) PROVE CallsKnown'
  BY <1>12 DEF ToolReturns, HookMoves, LoopFrame, Silent, CallsKnown,
       CallRecords, CallRecord, Living, Active, Ended, Clean, Shape,
       RowEndsLast, SweepIsNoRun, Untouched, LoopShape, NoStepOpen,
       NoCallOpen, NothingOut, Open, Polled, TypeOK, Workers, LoopResults,
       Writing, record, request, task, agent, faults
<1>13. CASE PreparationCanceled
  BY <1>13 DEF PreparationCanceled, Silent, CallsKnown, CallRecords,
       CallRecord, Living, Active, Ended, Clean, Shape, RowEndsLast,
       SweepIsNoRun, Untouched, LoopShape, NoStepOpen, NoCallOpen, NothingOut,
       Open, Polled, TypeOK, Workers, LoopResults, Writing, record, request,
       task, agent, faults
<1>14. CASE SetupFailed
  BY <1>14 DEF SetupFailed, Silent, CallsKnown, CallRecords, CallRecord,
       Living, Active, Ended, Clean, Shape, RowEndsLast, SweepIsNoRun,
       Untouched, LoopShape, NoStepOpen, NoCallOpen, NothingOut, Open, Polled,
       TypeOK, Workers, LoopResults, Writing, record, request, task, agent,
       faults
<1>15. CASE BeginExecution
  BY <1>15 DEF BeginExecution, TaskGoes, Silent, CallsKnown, CallRecords,
       CallRecord, Living, Active, Ended, Clean, Shape, RowEndsLast,
       SweepIsNoRun, Untouched, LoopShape, NoStepOpen, NoCallOpen, NothingOut,
       Open, Polled, TypeOK, Workers, LoopResults, Writing, record, request,
       task, agent, faults
<1>16. CASE TokenWins
  BY <1>16 DEF TokenWins, DropLoop, TaskGoes, Silent, CallsKnown, CallRecords,
       CallRecord, Living, Active, Ended, Clean, Shape, RowEndsLast,
       SweepIsNoRun, Untouched, LoopShape, NoStepOpen, NoCallOpen, NothingOut,
       Open, Polled, TypeOK, Workers, LoopResults, Writing, record, request,
       task, agent, faults
<1>17. CASE LoopEnds
  BY <1>17 DEF LoopEnds, TaskGoes, Silent, CallsKnown, CallRecords,
       CallRecord, Living, Active, Ended, Clean, Shape, RowEndsLast,
       SweepIsNoRun, Untouched, LoopShape, NoStepOpen, NoCallOpen, NothingOut,
       Open, Polled, TypeOK, Workers, LoopResults, Writing, record, request,
       task, agent, faults
<1>18. CASE TextFails
  BY <1>18 DEF TextFails, TaskCommandFails, Abandon, TaskFrame, Silent,
       CallsKnown, CallRecords, CallRecord, Living, Active, Ended, Clean,
       Shape, RowEndsLast, SweepIsNoRun, Untouched, LoopShape, NoStepOpen,
       NoCallOpen, NothingOut, Open, Polled, TypeOK, Workers, LoopResults,
       Writing, record, request, task, agent, faults
<1>19. CASE CloseStep
  BY <1>19 DEF CloseStep, TaskCommandFails, Abandon, TaskFrame, TaskGoes,
       CompleteStep, EndStep, StepFrame, Silent, CallsKnown, CallRecords,
       CallRecord, Living, Active, Ended, Clean, Shape, RowEndsLast,
       SweepIsNoRun, Untouched, LoopShape, NoStepOpen, NoCallOpen, NothingOut,
       Open, Polled, TypeOK, Workers, LoopResults, Writing, record, request,
       task, agent, faults
<1>20. CASE ListCalls
  <2>1. /\ driver = "Listing" /\ UNCHANGED calls /\ mode' = mode
        /\ \/ Verdict = "Completed" /\ driver' = "Finishing"
           \/ /\ driver' = "Settling"
              /\ openCalls' = [c \in Calls |-> IF Listed(c) THEN approval[c] ELSE "Unlisted"]
    BY <1>20 DEF ListCalls, TaskCommandFails, Clean, TypeOK, record
  <2>2. Verdict = "Completed" => NoCallOpen
    BY <2>1 DEF Verdict, CallsKnown, Shape, OthersDoNotComplete
  <2>3. \A c \in Calls : approval[c] # "Unlisted"
    BY DEF TypeOK, Approvals
  <2>4. QED
    BY <2>1, <2>2, <2>3 DEF CallsKnown, NoCallOpen, Listed
<1>21. CASE CallsSettled
  BY <1>21 DEF CallsSettled, TaskCommandFails, Abandon, TaskFrame, TaskGoes,
       Silent, CallsKnown, CallRecords, CallRecord, Living, Active, Ended,
       Clean, Shape, RowEndsLast, SweepIsNoRun, Untouched, LoopShape,
       NoStepOpen, NoCallOpen, NothingOut, Open, Polled, TypeOK, Workers,
       LoopResults, Writing, record, request, task, agent, faults
<1>22. ASSUME NEW c \in Calls, SettleCall(c) PROVE CallsKnown'
  <2>1. driver = "Settling" /\ openCalls[c] # "Unlisted" /\ NotEnded(c)
    BY <1>22 DEF SettleCall, CallsKnown, NotEnded
  <2>2. /\ EndCall(c, outcome, SettledApproval(c)) /\ UNCHANGED driver
        /\ openCalls' = [openCalls EXCEPT ![c] = "Unlisted"]
    BY <1>22, <2>1 DEF SettleCall, TaskCommandFails, Clean, TypeOK
  <2>3. outcome \notin Active
    BY DEF TypeOK, RunStatus, Active
  <2>4. \A d \in Calls : calls'[d] \in Active <=> openCalls'[d] # "Unlisted"
    BY <2>1, <2>2, <2>3 DEF CallsKnown, EndCall, WriteCall, TypeOK
  <2>5. QED
    BY <2>1, <2>2, <2>4 DEF CallsKnown
<1>23. CASE ListSteps
  BY <1>23 DEF ListSteps, StepsAbandoned, TaskCommandFails, TaskFrame, Silent,
       CallsKnown, CallRecords, CallRecord, Living, Active, Ended, Clean,
       Shape, RowEndsLast, SweepIsNoRun, Untouched, LoopShape, NoStepOpen,
       NoCallOpen, NothingOut, Open, Polled, TypeOK, Workers, LoopResults,
       Writing, record, request, task, agent, faults
<1>24. CASE StepsSwept
  BY <1>24 DEF StepsSwept, TaskGoes, Silent, CallsKnown, CallRecords,
       CallRecord, Living, Active, Ended, Clean, Shape, RowEndsLast,
       SweepIsNoRun, Untouched, LoopShape, NoStepOpen, NoCallOpen, NothingOut,
       Open, Polled, TypeOK, Workers, LoopResults, Writing, record, request,
       task, agent, faults
<1>25. ASSUME NEW s \in Steps, SweepStep(s) PROVE CallsKnown'
  BY <1>25 DEF SweepStep, EndStep, StepFrame, StepsAbandoned,
       TaskCommandFails, TaskFrame, Silent, CallsKnown, CallRecords,
       CallRecord, Living, Active, Ended, Clean, Shape, RowEndsLast,
       SweepIsNoRun, Untouched, LoopShape, NoStepOpen, NoCallOpen, NothingOut,
       Open, Polled, TypeOK, Workers, LoopResults, Writing, record, request,
       task, agent, faults
<1>26. CASE FinishRun
  BY <1>26 DEF FinishRun, TaskCommandFails, TaskFrame, TaskGoes, Silent,
       CallsKnown, CallRecords, CallRecord, Living, Active, Ended, Clean,
       Shape, RowEndsLast, SweepIsNoRun, Untouched, LoopShape, NoStepOpen,
       NoCallOpen, NothingOut, Open, Polled, TypeOK, Workers, LoopResults,
       Writing, record, request, task, agent, faults
<1>27. CASE StopCleanup
  BY <1>27 DEF StopCleanup, Silent, CallsKnown, CallRecords, CallRecord,
       Living, Active, Ended, Clean, Shape, RowEndsLast, SweepIsNoRun,
       Untouched, LoopShape, NoStepOpen, NoCallOpen, NothingOut, Open, Polled,
       TypeOK, Workers, LoopResults, Writing, record, request, task, agent,
       faults
<1>28. ASSUME NEW w \in Workers, CommandEnds(w) PROVE CallsKnown'
  BY <1>28 DEF CommandEnds, Answer, Command, LoopCommand, CallCommand,
       InsertStep, CompleteStep, EndStep, StepFrame, EndCall, WriteCall,
       AppendCall, CallFrame, Silent, CallsKnown, CallRecords, CallRecord,
       Living, Active, Ended, Clean, Shape, RowEndsLast, SweepIsNoRun,
       Untouched, LoopShape, NoStepOpen, NoCallOpen, NothingOut, Open, Polled,
       TypeOK, Workers, LoopResults, Writing, record, request, task, agent,
       faults
<1>29. CASE Cancel
  BY <1>29 DEF Cancel, Silent, CallsKnown, CallRecords, CallRecord, Living,
       Active, Ended, Clean, Shape, RowEndsLast, SweepIsNoRun, Untouched,
       LoopShape, NoStepOpen, NoCallOpen, NothingOut, Open, Polled, TypeOK,
       Workers, LoopResults, Writing, record, request, task, agent, faults
<1>30. CASE Restart
  BY <1>30 DEF Restart, Silent, CallsKnown, CallRecords, CallRecord, Living,
       Active, Ended, Clean, Shape, RowEndsLast, SweepIsNoRun, Untouched,
       LoopShape, NoStepOpen, NoCallOpen, NothingOut, Open, Polled, TypeOK,
       Workers, LoopResults, Writing, record, request, task, agent, faults
<1>31. CASE UNCHANGED vars
  BY <1>31 DEF vars, record, request, task, agent, faults, Silent, CallsKnown,
       CallRecords, CallRecord, Living, Active, Ended, Clean, Shape,
       RowEndsLast, SweepIsNoRun, Untouched, LoopShape, NoStepOpen,
       NoCallOpen, NothingOut, Open, Polled, TypeOK, Workers, LoopResults,
       Writing
<1>32. QED
  BY <1>1, <1>2, <1>3, <1>4, <1>5, <1>6, <1>7, <1>8, <1>9, <1>10, <1>11,
       <1>12, <1>13, <1>14, <1>15, <1>16, <1>17, <1>18, <1>19, <1>20, <1>21,
       <1>22, <1>23, <1>24, <1>25, <1>26, <1>27, <1>28, <1>29, <1>30, <1>31
       DEF Next, LoopStep, TaskStep
-----------------------------------------------------------------------------

\* Only the restart of a process makes a run clean that was not.
LEMMA CleanBefore ==
  ASSUME TypeOK, [Next]_vars, Clean', ~Restart
  PROVE  Clean
<1>1. CASE LoopStep
  BY <1>1 DEF LoopStep, BeginTurn, StepInserted, ProviderFails, StepEnded, AnswerFails,
       ToolsEnd, ProviderAnswers, HookStarts, HookResumes, UserDecides, WaitSeesToken,
       ToolReturns, HookMoves, LoopFrame, faults, Clean, TypeOK
<1>2. CASE TaskStep
  <2>1. failures' \in {failures, failures + 1}
    BY <1>2 DEF TaskStep, PreparationCanceled, SetupFailed, BeginExecution, TokenWins,
         LoopEnds, TextFails, CloseStep, ListCalls, CallsSettled, SettleCall, ListSteps,
         StepsSwept, SweepStep, StepsAbandoned, FinishRun, StopCleanup, TaskCommandFails,
         faults
  <2>2. cut => cut'
    BY <1>2 DEF TaskStep, PreparationCanceled, SetupFailed, BeginExecution, TokenWins,
         DropLoop, LoopEnds, TextFails, CloseStep, ListCalls, CallsSettled, SettleCall,
         ListSteps, StepsSwept, SweepStep, StepsAbandoned, FinishRun, StopCleanup,
         TaskCommandFails, faults
  <2>3. QED
    BY <2>1, <2>2 DEF Clean, TypeOK
<1>3. ASSUME NEW w \in Workers, CommandEnds(w) PROVE Clean
  BY <1>3 DEF CommandEnds, Answer, Clean, TypeOK
<1>4. CASE Cancel
  BY <1>4 DEF Cancel, faults, Clean
<1>5. CASE UNCHANGED vars
  BY <1>5 DEF vars, faults, Clean
<1>6. QED
  BY <1>1, <1>2, <1>3, <1>4, <1>5 DEF Next

\* What is known of a clean run stays known; after a restart there is no loop.
LEMMA CleanStep ==
  ASSUME AgentRunAssumption, Inv, StepsContiguous, Shape, Kept, CleanKnown, [Next]_vars
  PROVE  CleanKnown'
<1>1. CASE Restart
  <2>1. driver' \in {"SweepList", "Over"} /\ \A w \in Workers : job'[w] = "None"
    BY <1>1 DEF Restart
  <2>2. QED
    BY <2>1 DEF CleanKnown, Silent, NothingOut, StepsKnown, CallsKnown
<1>2. CASE ~Restart
  <2> SUFFICES ASSUME Clean'
               PROVE  Silent' /\ StepsKnown' /\ CallsKnown'
    BY DEF CleanKnown
  <2>1. Clean /\ Silent /\ StepsKnown /\ CallsKnown
    BY <1>2, CleanBefore DEF CleanKnown, Inv
  <2>2. "agent" \notin Calls
    BY DEF AgentRunAssumption
  <2>3. QED
    BY <2>1, <2>2, SilentStep, OpenStepStep, OpenCallStep DEF Inv
<1>3. QED
  BY <1>1, <1>2

\* Nobody writes the row but the task that finishes the run,
LEMMA OnlyFinishRunEndsTheRow ==
  ASSUME [Next]_vars, row' # row
  PROVE  FinishRun
<1>1. CASE LoopStep
  BY <1>1 DEF LoopStep, BeginTurn, StepInserted, ProviderFails, StepEnded, AnswerFails,
       ToolsEnd, ProviderAnswers, HookStarts, HookResumes, UserDecides, WaitSeesToken,
       ToolReturns, HookMoves, LoopFrame, record
<1>2. CASE TaskStep
  BY <1>2 DEF TaskStep, PreparationCanceled, SetupFailed, BeginExecution, TokenWins,
       LoopEnds, TextFails, CloseStep, CompleteStep, EndStep, StepFrame, ListCalls,
       CallsSettled, SettleCall, EndCall, WriteCall, CallFrame, ListSteps, StepsSwept,
       SweepStep, StepsAbandoned, StopCleanup, TaskCommandFails, record
<1>3. ASSUME NEW w \in Workers, CommandEnds(w) PROVE FALSE
  BY <1>3 DEF CommandEnds, Command, LoopCommand, CallCommand, InsertStep, CompleteStep,
       EndStep, StepFrame, EndCall, WriteCall, AppendCall, CallFrame, record
<1>4. QED
  BY <1>1, <1>2, <1>3 DEF Next, Cancel, Restart, vars, record

\* and when the run is over nobody writes at all.
LEMMA OverIsSilent ==
  ASSUME [Next]_vars, driver = "Over", NothingOut
  PROVE  UNCHANGED record
<1>1. ~LoopStep
  BY DEF LoopStep, BeginTurn, StepInserted, ProviderFails, StepEnded, AnswerFails,
       ToolsEnd, ProviderAnswers, HookStarts, HookResumes, UserDecides, WaitSeesToken,
       ToolReturns, Polled
<1>2. TaskStep => StopCleanup
  BY DEF TaskStep, PreparationCanceled, SetupFailed, BeginExecution, TokenWins,
       LoopEnds, TextFails, CloseStep, ListCalls, CallsSettled, SettleCall, ListSteps,
       StepsSwept, SweepStep, FinishRun
<1>3. \A w \in Workers : ~CommandEnds(w)
  BY DEF CommandEnds, NothingOut
<1>4. QED
  BY <1>1, <1>2, <1>3 DEF Next, StopCleanup, Cancel, Restart, vars

\* The row of a run ends in one step, FinishRun, and nothing of a clean run is
\* open then; later nobody writes any more.
LEMMA EndedStep ==
  ASSUME AgentRunAssumption, Inv, Shape, CleanKnown, EndedRunLeavesNothingOpen, Kept,
         RecordWrite, [Next]_vars
  PROVE  EndedRunLeavesNothingOpen'
<1> SUFFICES ASSUME row' # "Running", Clean'
             PROVE  NoStepOpen' /\ NoCallOpen'
  BY DEF EndedRunLeavesNothingOpen, Clean, NoStepOpen, NoCallOpen, Open
<1>1. CASE Restart
  <2>1. UNCHANGED record /\ Clean
    BY <1>1 DEF Restart, Clean, record
  <2>2. QED
    BY <2>1 DEF record, EndedRunLeavesNothingOpen, Clean, NoStepOpen, NoCallOpen, Open
<1>2. CASE ~Restart /\ row = "Running"
  <2>1. Clean
    BY <1>2, CleanBefore DEF Inv
  <2>2. driver = "Finishing" /\ UNCHANGED <<steps, calls>>
    BY <1>2, OnlyFinishRunEndsTheRow DEF FinishRun, TaskCommandFails, record
  <2>3. QED
    BY <2>1, <2>2 DEF CleanKnown, StepsKnown, CallsKnown, NoStepOpen, NoCallOpen, Open
<1>3. CASE ~Restart /\ row # "Running"
  <2>1. Clean /\ NoStepOpen /\ NoCallOpen
    BY <1>3, CleanBefore DEF Inv, EndedRunLeavesNothingOpen, Clean, NoStepOpen, NoCallOpen, Open
  <2>2. driver = "Over" /\ NothingOut
    BY <1>3, <2>1 DEF Shape, RowEndsLast, CleanKnown, Silent
  <2>3. UNCHANGED record
    BY <2>2, OverIsSilent
  <2>4. QED
    BY <2>1, <2>3 DEF record, NoStepOpen, NoCallOpen, Open
<1>4. QED
  BY <1>1, <1>2, <1>3

\* However a run ends, no step and no tool call of it stays open, as long as no
\* command fails and the loop is not cut down with a command out.
THEOREM NothingStaysOpen == Spec => []EndedRunLeavesNothingOpen
<1>1. Init => EndedInv
  BY DEF Init, EndedInv, StepsContiguous, Shape, RowEndsLast, OthersDoNotComplete,
       SweepIsNoRun, Untouched, LoopShape, CleanKnown, Silent, StepsKnown, CallsKnown,
       EndedRunLeavesNothingOpen, NoStepOpen, NothingOut, Open
<1>2. Inv /\ EndedInv /\ [Next]_vars => EndedInv'
  <2> SUFFICES ASSUME Inv, EndedInv, [Next]_vars PROVE EndedInv'
    OBVIOUS
  <2>1. RecordWrite /\ Kept
    BY StepsWrite, WritesCount, TypesOfTheRecord, AgentRunAssumption DEF Inv
  <2>2. StepsContiguous'
    BY <2>1, ContiguousStep, TypesOfTheRecord DEF Inv, EndedInv
  <2>3. Shape'
    BY <2>1, ShapeStep, AgentRunAssumption DEF Inv, EndedInv, AgentRunAssumption
  <2>4. CleanKnown'
    BY <2>1, CleanStep, AgentRunAssumption DEF EndedInv
  <2>5. EndedRunLeavesNothingOpen'
    BY <2>1, EndedStep, AgentRunAssumption DEF EndedInv
  <2>6. QED
    BY <2>2, <2>3, <2>4, <2>5 DEF EndedInv
<1>3. EndedInv => EndedRunLeavesNothingOpen
  BY DEF EndedInv
<1>4. QED
  BY <1>1, <1>2, <1>3, InvHolds, PTL DEF Spec

=============================================================================
