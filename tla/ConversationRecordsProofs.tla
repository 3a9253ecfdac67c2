--------------------- MODULE ConversationRecordsProofs ---------------------
(***************************************************************************)
(* Proofs about what ConversationRuntime records and tells of its attempts *)
(* for every set of conversations and all bounds: approval requests and    *)
(* their answers, errors and retained models, the rows of the runs, their  *)
(* publications, and the events of a ticket.  Each part is an invariant of *)
(* its own on top of the one of ConversationRuntimeProofs, which says what *)
(* entry and which tasks a live attempt has.                               *)
(***************************************************************************)
EXTENDS ConversationRuntimeProofs, SequenceTheorems

USE BoundsAreNaturals, KeyModulusIsPositive
    DEF Attempts, NoAttempt, storeVars, runVars, stopVars, recoveryVars, shutdownVars,
        historyVars, SetEntry, Entry, Step, Vacate, Conv, RunStatus, Vacant, Entries,
        Tickets, TaskSteps, CleanupSteps, RunSteps, RunFrame, CleanupFrame,
        RecoveryFrame, FinishRow

-----------------------------------------------------------------------------
(* Requests and answers *)

\* While its run is not cancelled, a request is waited for and has no answer
\* yet, and an answer is about to be taken.
AnswersAreAwaited ==
  \A a \in Attempts :
    (pending[a] \/ decision[a] # "None") /\ ~cancelled[a] =>
      task[a] = "Awaiting" /\ (pending[a] => decision[a] = "None")

\* Only a stop, whose cleanup the attempt then has, and a shutdown cancel.
CancelledIsStopped ==
  \A a \in Attempts : cancelled[a] => shuttingDown \/ cleanup[a] # "None"

\* Every step keeps requests and answers together.
LEMMA StepKeepsAnswers ==
  ASSUME Inv, AnswersAreAwaited, CancelledIsStopped, [Next]_vars
  PROVE  AnswersAreAwaited' /\ CancelledIsStopped'
<1> USE DEF AnswersAreAwaited, CancelledIsStopped, Inv, TypeOK, AttemptTypeOK,
         TalkTypeOK, CleanupTypeOK
<1>1. CASE \E a \in Attempts :
           RejectSubmission(a) \/ RefuseLaunch(a) \/ LaunchRun(a)
  BY <1>1 DEF RejectSubmission, RefuseLaunch, LaunchRun
<1>2. CASE \E a \in Attempts : CheckToken(a) \/ BeginFails(a)
  BY <1>2 DEF CheckToken, BeginFails
<1>3. CASE \E a \in Attempts : InsertRow(a) \/ Progress(a)
  BY <1>3 DEF InsertRow, Progress
<1>4. CASE \E a \in Attempts : RequestApproval(a)
  BY <1>4 DEF RequestApproval
<1>5. CASE \E a \in Attempts : Answered(a)
  BY <1>5 DEF Answered
<1>6. CASE \E a \in Attempts, s \in {"Completed", "Failed", "Canceled"} :
           Finalize(a, s)
  BY <1>6 DEF Finalize
<1>7. CASE \E a \in Attempts : FinalizeFails(a) \/ SendDrain(a)
  BY <1>7 DEF FinalizeFails, SendDrain
<1>8. CASE \E a \in Attempts : Drained(a) \/ Listen(a)
  <2>1. CASE \E a \in Attempts : Drained(a)
    BY <2>1 DEF Drained
  <2>2. CASE \E a \in Attempts : Listen(a)
    <3>1. UNCHANGED <<task, pending, decision, cancelled, shuttingDown, cleanup>>
      BY <2>2 DEF Listen
    <3> QED BY <3>1
  <2> QED BY <1>8, <2>1, <2>2
<1>9. CASE \E a \in Attempts : FinishRun(a)
  BY <1>9 DEF FinishRun, Release, DropListener
<1>10. CASE \E c \in Conversations : Submit(c)
  <2> PICK c \in Conversations : Submit(c) BY <1>10
  <2>1. issued + 1 \in Attempts /\ task[issued + 1] = "None"
    BY DEF Submit, Shape, Born
  <2>2. task' = [task EXCEPT ![issued + 1] = "Writing"]
    BY DEF Submit
  <2>3. UNCHANGED <<pending, decision, cancelled, shuttingDown, cleanup>>
    BY DEF Submit
  <2> QED BY <2>1, <2>2, <2>3
<1>11. CASE \E c \in Conversations : TakeLastError(c)
  BY <1>11 DEF TakeLastError
<1>12. CASE \E c \in Conversations, answer \in {"Approved", "Denied"} :
           Decide(c, answer)
  BY <1>12 DEF Decide, ResolveFor, Decidable
<1>13. CASE \E c \in Conversations, persistence \in BOOLEAN :
           StopRun(c, persistence)
  BY <1>13 DEF StopRun, CancelAttempts
<1>14. CASE \E a \in Attempts : CleanupLists(a) \/ CleanupFails(a)
  BY <1>14 DEF CleanupLists, CleanupFails
<1>15. CASE \E a \in Attempts : FinishStop(a)
  <2> PICK a \in Attempts : FinishStop(a) BY <1>15
  <2>1. /\ UNCHANGED <<task, decision, cancelled, shuttingDown>>
        /\ pending' = pending \/ pending' = [pending EXCEPT ![a] = FALSE]
        /\ cleanup' = [cleanup EXCEPT ![a] = "Done"]
    BY DEF FinishStop, Release
  <2> QED BY <2>1
<1>16. CASE \E a \in Attempts, b \in Attempts, s \in {"Canceled", "Failed"} :
           CleanupCancels(a, b, s)
  BY <1>16 DEF CleanupCancels
<1>17. CASE ShutdownAll
  <2> DEFINE submitting == {activeRuns[c].attempt :
                c \in {d \in Conversations : RunStatus(d) \in {"Submitting"}}}
  <2>1. \A b \in submitting : task[b] = "Writing"
    BY DEF Shape, EntriesHoldTheirTasks, EntryHoldsItsTasks
  <2>2. \A b \in Attempts : task'[b] = task[b] \/ task[b] = "Writing"
    BY <1>17, <2>1 DEF ShutdownAll
  <2>3. /\ shuttingDown'
        /\ \A b \in Attempts :
             /\ cancelled[b] => cancelled'[b]
             /\ ~cancelled'[b] => pending'[b] = pending[b] /\ decision'[b] = decision[b]
    BY <1>17 DEF ShutdownAll, CancelAttempts
  <2> QED BY <2>2, <2>3
<1>18. CASE ShutdownDone \/ RecoveryLists \/ RetryRecovery
  BY <1>18 DEF ShutdownDone, RecoveryLists, RetryRecovery
<1>19. CASE \E a \in Attempts : RecoveryFails(a)
  BY <1>19 DEF RecoveryFails
<1>20. CASE \E r \in RecoveryResults : CompleteRecovery(r)
  BY <1>20 DEF CompleteRecovery
<1>21. CASE Restart
  BY <1>21 DEF Restart, FreshStore
<1>22. CASE UNCHANGED vars
  BY <1>22 DEF vars
<1> QED BY <1>1, <1>2, <1>3, <1>4, <1>5, <1>6, <1>7, <1>8, <1>9, <1>10, <1>11,
           <1>12, <1>13, <1>14, <1>15, <1>16, <1>17, <1>18, <1>19, <1>20, <1>21,
           <1>22
       DEF Next, Submitted, Begins, Settles, Ends, Cleans, Recovers, Approve, Deny

-----------------------------------------------------------------------------
(* Errors and retained models *)

\* Errors and retained models go with the entries: IdleBookkeeping is inductive.
LEMMA StepKeepsBookkeeping ==
  ASSUME Inv, IdleBookkeeping, [Next]_vars
  PROVE  IdleBookkeeping'
<1> USE DEF Inv, TypeOK, StoreTypeOK, IdleBookkeeping
<1>1. CASE \E c \in Conversations : Submit(c)
  BY <1>1 DEF Submit
<1>2. CASE \E a \in Attempts : RejectSubmission(a) \/ RefuseLaunch(a)
  BY <1>2, MatchesByPhase DEF RejectSubmission, Live, RefuseLaunch
<1>3. CASE \E a \in Attempts : LaunchRun(a)
  BY <1>3, MatchesByPhase DEF LaunchRun, Live
<1>4. CASE \E a \in Attempts :
           CheckToken(a) \/ BeginFails(a) \/ InsertRow(a) \/ Progress(a)
  BY <1>4 DEF CheckToken, BeginFails, InsertRow, Progress
<1>5. CASE \E a \in Attempts : RequestApproval(a) \/ Answered(a)
  BY <1>5 DEF RequestApproval, Answered
<1>6. CASE \E a \in Attempts, s \in {"Completed", "Failed", "Canceled"} :
           Finalize(a, s)
  BY <1>6 DEF Finalize
<1>7. CASE \E a \in Attempts : FinalizeFails(a) \/ SendDrain(a) \/ Drained(a)
  BY <1>7 DEF FinalizeFails, SendDrain, Drained
<1>8. CASE \E a \in Attempts : FinishRun(a)
  BY <1>8, MatchesByPhase DEF FinishRun, Release, Live
<1>9. CASE \E a \in Attempts : Listen(a)
  BY <1>9 DEF Listen, Matches
<1>10. CASE \E c \in Conversations, answer \in {"Approved", "Denied"} :
           Decide(c, answer)
  BY <1>10 DEF Decide, Decidable
<1>11. CASE \E c \in Conversations : TakeLastError(c)
  BY <1>11 DEF TakeLastError
<1>12. CASE \E c \in Conversations, persistence \in BOOLEAN :
           StopRun(c, persistence)
  BY <1>12 DEF StopRun, CancelAttempts
<1>13. CASE \E a \in Attempts : CleanupLists(a) \/ CleanupFails(a)
  BY <1>13 DEF CleanupLists, CleanupFails
<1>14. CASE \E a \in Attempts, b \in Attempts, s \in {"Canceled", "Failed"} :
           CleanupCancels(a, b, s)
  BY <1>14 DEF CleanupCancels
<1>15. CASE \E a \in Attempts : FinishStop(a)
  BY <1>15, MatchesByPhase DEF FinishStop, Release, Live
<1>16. CASE ShutdownAll
  BY <1>16 DEF ShutdownAll
<1>17. CASE ShutdownDone \/ RecoveryLists \/ RetryRecovery
  BY <1>17 DEF ShutdownDone, RecoveryLists, RetryRecovery
<1>18. CASE \E a \in Attempts : RecoveryFails(a)
  BY <1>18 DEF RecoveryFails
<1>19. CASE \E r \in RecoveryResults : CompleteRecovery(r)
  BY <1>19 DEF CompleteRecovery
<1>20. CASE Restart
  BY <1>20 DEF Restart, FreshStore
<1>21. CASE UNCHANGED vars
  BY <1>21 DEF vars
<1> QED BY <1>1, <1>2, <1>3, <1>4, <1>5, <1>6, <1>7, <1>8, <1>9, <1>10, <1>11,
           <1>12, <1>13, <1>14, <1>15, <1>16, <1>17, <1>18, <1>19, <1>20, <1>21
       DEF Next, Submitted, Begins, Settles, Ends, Cleans, Recovers, Approve, Deny

-----------------------------------------------------------------------------
(* Rows *)

\* At most one attempt of a conversation is live, and none during recovery.
LEMMA LiveFacts ==
  ASSUME Inv
  PROVE  OneLiveAttempt /\ RecoveryLeavesLiveRunsAlone
<1>1. OneLiveAttempt
  <2>1. CASE shuttingDown
    BY <2>1 DEF Inv, Shape, LiveAttemptIsRegistered, AwaitedDistinct, OneLiveAttempt
  <2>2. CASE ~shuttingDown
    BY <2>2 DEF Inv, Shape, LiveAttemptIsRegistered, OneLiveAttempt
  <2> QED BY <2>1, <2>2
<1>2. RecoveryLeavesLiveRunsAlone
  BY RecoveryShapes DEF Inv, Shape, TypeOK, StoreTypeOK, Modes, RecoveryReady,
     RecoveryLeavesLiveRunsAlone
<1> QED BY <1>1, <1>2

\* Only a recovery that succeeds makes the runtime ready.
LEMMA ReadyComesFromSuccess ==
  ASSUME NEW op \in RecoveryOperations
  PROVE  /\ Cancel(op).phase = "Ready" => op.phase = "Ready"
         /\ \A r \in RecoveryResults :
              IsRunning(op) /\ Complete(op, r).phase = "Ready" => r.ok
         /\ Load(Idle, "RecoveryTask").phase # "Ready"
  BY DEF RecoveryOperations, RecoveryResults, Ok, Err, Complete, Retry, Load, Cancel,
         IsRunning, Fetching, Idle, Ready, Unavailable, Degraded, Operation, None

\* The database has rows of submitted attempts only.
UnusedHasNoRow == \A a \in Attempts : a > issued => row[a] = "None"

\* The sweep of the recovery holds every row that is still Running: none can
\* be added meanwhile.
RecoverySweepsAll ==
  recoveryTask = "Sweeping" => \A a \in Attempts : row[a] = "Running" => a \in recoverySweep

\* The same of the sweep of a stop and the rows of its conversation.
CleanupSweepsAll ==
  \A a, b \in Attempts :
    cleanup[a] = "Cancelling" /\ Conv(b) = Conv(a) /\ row[b] = "Running" => b \in sweep[a]

RowsAreAccountedFor ==
  UnusedHasNoRow /\ RunningRowHasARun /\ RecoverySweepsAll /\ CleanupSweepsAll

\* A step that changes no row and no sweep, and ends no run with a row.
LEMMA TaskStepKeepsRows ==
  ASSUME RowsAreAccountedFor, UNCHANGED <<row, issued, ticket, cleanup, sweep, unsettled>>,
         recoveryTask' = "Sweeping" => recoveryTask = "Sweeping" /\ UNCHANGED recoverySweep,
         RecoveryReady' => RecoveryReady,
         \A a \in Attempts : task[a] \in {"Executing", "Awaiting"} =>
                              task'[a] \in {"Executing", "Awaiting"}
  PROVE  RowsAreAccountedFor'
<1> USE DEF RowsAreAccountedFor
<1>1. UnusedHasNoRow'
  BY DEF UnusedHasNoRow
<1>2. RunningRowHasARun'
  BY DEF RunningRowHasARun
<1>3. RecoverySweepsAll'
  BY DEF RecoverySweepsAll
<1>4. CleanupSweepsAll'
  BY DEF CleanupSweepsAll
<1> QED BY <1>1, <1>2, <1>3, <1>4

\* Every step keeps the account of the rows.
LEMMA StepKeepsRows ==
  ASSUME Inv, RowsAreAccountedFor, [Next]_vars
  PROVE  RowsAreAccountedFor'
<1> USE DEF Inv, TypeOK, StoreTypeOK, AttemptTypeOK, CleanupTypeOK, RecordTypeOK,
         RowsAreAccountedFor, UnusedHasNoRow, RunningRowHasARun, RecoverySweepsAll,
         CleanupSweepsAll, RecoveryReady
<1>1. CASE \E c \in Conversations : Submit(c)
  BY <1>1 DEF Submit, Shape, Born
<1>2. CASE \E a \in Attempts :
           RejectSubmission(a) \/ RefuseLaunch(a) \/ LaunchRun(a)
  <2> PICK a \in Attempts : RejectSubmission(a) \/ RefuseLaunch(a) \/ LaunchRun(a) BY <1>2
  <2>1. \A b \in Attempts : task[b] \in {"Executing", "Awaiting"} =>
                             task'[b] \in {"Executing", "Awaiting"}
    BY DEF RejectSubmission, RefuseLaunch, LaunchRun
  <2>2. UNCHANGED <<row, issued, ticket, cleanup, sweep, unsettled, recoveryTask,
                    recoverySweep, recovery>>
    BY DEF RejectSubmission, RefuseLaunch, LaunchRun
  <2> HIDE DEF RowsAreAccountedFor
  <2> QED BY <2>1, <2>2, TaskStepKeepsRows
<1>3. CASE \E a \in Attempts : CheckToken(a) \/ BeginFails(a)
  <2> PICK a \in Attempts : CheckToken(a) \/ BeginFails(a) BY <1>3
  <2>1. \A b \in Attempts : task[b] \in {"Executing", "Awaiting"} =>
                             task'[b] \in {"Executing", "Awaiting"}
    BY DEF CheckToken, BeginFails
  <2>2. UNCHANGED <<row, issued, ticket, cleanup, sweep, unsettled, recoveryTask,
                    recoverySweep, recovery>>
    BY DEF CheckToken, BeginFails
  <2> HIDE DEF RowsAreAccountedFor
  <2> QED BY <2>1, <2>2, TaskStepKeepsRows
<1>4. CASE \E a \in Attempts : InsertRow(a)
  <2> PICK a \in Attempts : InsertRow(a) BY <1>4
  <2>1. /\ task[a] = "Inserting" /\ Live(a) /\ a <= issued
        /\ task' = [task EXCEPT ![a] = "Executing"]
        /\ row' = [row EXCEPT ![a] = "Running"]
        /\ UNCHANGED <<issued, ticket, cleanup, sweep, unsettled, recoveryTask,
                       recoverySweep, recovery>>
    BY DEF InsertRow, Live, Shape, Born
  <2>2. UnusedHasNoRow'
    BY <2>1
  <2>3. RunningRowHasARun'
    BY <2>1
  <2>4. RecoverySweepsAll'
    BY <2>1, LiveFacts DEF RecoveryLeavesLiveRunsAlone
  <2>5. CleanupSweepsAll'
    <3>1. \A b \in Attempts : cleanup[b] = "Cancelling" => Conv(b) # Conv(a)
      BY <2>1, LiveFacts DEF OneLiveAttempt, Live, Shape, StepsInOrder
    <3> QED BY <2>1, <3>1
  <2> QED BY <2>2, <2>3, <2>4, <2>5
<1>5. CASE \E a \in Attempts : Progress(a) \/ RequestApproval(a) \/ Answered(a)
  <2> PICK a \in Attempts : Progress(a) \/ RequestApproval(a) \/ Answered(a) BY <1>5
  <2>1. \A b \in Attempts : task[b] \in {"Executing", "Awaiting"} =>
                             task'[b] \in {"Executing", "Awaiting"}
    BY DEF Progress, RequestApproval, Answered
  <2>2. UNCHANGED <<row, issued, ticket, cleanup, sweep, unsettled, recoveryTask,
                    recoverySweep, recovery>>
    BY DEF Progress, RequestApproval, Answered
  <2> HIDE DEF RowsAreAccountedFor
  <2> QED BY <2>1, <2>2, TaskStepKeepsRows
<1>6. CASE \E a \in Attempts, s \in {"Completed", "Failed", "Canceled"} :
           Finalize(a, s)
  BY <1>6 DEF Finalize
<1>7. CASE \E a \in Attempts : FinalizeFails(a)
  BY <1>7 DEF FinalizeFails
<1>8. CASE \E a \in Attempts : SendDrain(a) \/ Drained(a)
  <2> PICK a \in Attempts : SendDrain(a) \/ Drained(a) BY <1>8
  <2>1. \A b \in Attempts : task[b] \in {"Executing", "Awaiting"} =>
                             task'[b] \in {"Executing", "Awaiting"}
    BY DEF SendDrain, Drained
  <2>2. UNCHANGED <<row, issued, ticket, cleanup, sweep, unsettled, recoveryTask,
                    recoverySweep, recovery>>
    BY DEF SendDrain, Drained
  <2> HIDE DEF RowsAreAccountedFor
  <2> QED BY <2>1, <2>2, TaskStepKeepsRows
<1>9. CASE \E a \in Attempts : FinishRun(a)
  BY <1>9 DEF FinishRun
<1>10. CASE \E a \in Attempts : Listen(a)
  BY <1>10 DEF Listen
<1>11. CASE \E c \in Conversations, answer \in {"Approved", "Denied"} :
           Decide(c, answer)
  BY <1>11 DEF Decide
<1>12. CASE \E c \in Conversations : TakeLastError(c)
  BY <1>12 DEF TakeLastError
<1>13. CASE \E c \in Conversations, persistence \in BOOLEAN :
           StopRun(c, persistence)
  BY <1>13 DEF StopRun
<1>14. CASE \E a \in Attempts : CleanupLists(a)
  BY <1>14 DEF CleanupLists, Shape, Born
<1>15. CASE \E a \in Attempts : CleanupFails(a)
  BY <1>15 DEF CleanupFails
<1>16. CASE \E a \in Attempts, b \in Attempts, s \in {"Canceled", "Failed"} :
           CleanupCancels(a, b, s)
  BY <1>16 DEF CleanupCancels
<1>17. CASE \E a \in Attempts : FinishStop(a)
  BY <1>17 DEF FinishStop
<1>18. CASE ShutdownAll
  <2> DEFINE submitting == {activeRuns[c].attempt :
                c \in {d \in Conversations : RunStatus(d) \in {"Submitting"}}}
  <2>1. \A b \in submitting : task[b] = "Writing"
    BY DEF Shape, EntriesHoldTheirTasks, EntryHoldsItsTasks
  <2>2. \A b \in Attempts : task'[b] = task[b] \/ task[b] = "Writing"
    BY <1>18, <2>1 DEF ShutdownAll
  <2>3. recoveryTask' # "Sweeping"
    BY <1>18 DEF ShutdownAll, Shape, Modes
  <2>4. RecoveryReady' => RecoveryReady
    BY <1>18, ReadyComesFromSuccess DEF ShutdownAll
  <2>5. UNCHANGED <<row, issued, ticket, cleanup, sweep, unsettled>>
    BY <1>18 DEF ShutdownAll
  <2> HIDE DEF RowsAreAccountedFor, RecoveryReady
  <2> QED BY <2>2, <2>3, <2>4, <2>5, TaskStepKeepsRows
<1>19. CASE RecoveryLists
  BY <1>19 DEF RecoveryLists
<1>20. CASE ShutdownDone \/ RetryRecovery
  BY <1>20, RecoveryShapes DEF ShutdownDone, RetryRecovery
<1>21. CASE \E a \in Attempts : RecoveryFails(a)
  BY <1>21 DEF RecoveryFails
<1>22. CASE \E r \in RecoveryResults : CompleteRecovery(r)
  BY <1>22, ReadyComesFromSuccess DEF CompleteRecovery
<1>23. CASE Restart
  BY <1>23, ReadyComesFromSuccess DEF Restart, FreshStore
<1>24. CASE UNCHANGED vars
  BY <1>24 DEF vars
<1> QED BY <1>1, <1>2, <1>3, <1>4, <1>5, <1>6, <1>7, <1>8, <1>9, <1>10, <1>11,
           <1>12, <1>13, <1>14, <1>15, <1>16, <1>17, <1>18, <1>19, <1>20, <1>21,
           <1>22, <1>23, <1>24
       DEF Next, Submitted, Begins, Settles, Ends, Cleans, Recovers, Approve, Deny

-----------------------------------------------------------------------------
(* Publications *)

\* Facts about a channel's contents: a drain or data is in it, and no data
\* comes after a drain.
HasDrain(s) == \E i \in DOMAIN s : s[i] = "Drain"
HasData(s)  == \E i \in DOMAIN s : IsData(s[i])
InOrder(s)  == \A i \in DOMAIN s : IsData(s[i]) => \A j \in 1..(i - 1) : s[j] # "Drain"

\* The steps of a run that may still publish.
Speaking == {"Launching", "Inserting", "Executing", "Awaiting", "Ending"}

\* A run that may publish is listened to, the drain is its last publication,
\* and what is in the channel when the listener ends is no data.
Talks(a) ==
  /\ task[a] \in Speaking => listener[a] = "Listening"
  /\ listener[a] = "Listening" => task[a] \in Speaking \cup {"Draining"}
  /\ InOrder(channel[a])
  /\ HasDrain(channel[a]) => task[a] \in {"Draining", "Finishing", "Over"}
  /\ HasData(channel[a]) => listener[a] = "Listening"
  /\ lost[a] => shuttingDown

PublicationsArrive == \A a \in Attempts : Talks(a)

\* What is in a channel after a send: data does not come after a drain if it
\* did not before.
LEMMA Appended ==
  ASSUME NEW s \in Seq(Messages), NEW t \in Seq(Messages), InOrder(s), InOrder(t),
         HasData(t) => ~HasDrain(s)
  PROVE  /\ InOrder(s \o t)
         /\ HasDrain(s \o t) <=> HasDrain(s) \/ HasDrain(t)
         /\ HasData(s \o t) <=> HasData(s) \/ HasData(t)
<1>1. /\ DOMAIN s = 1..Len(s) /\ DOMAIN t = 1..Len(t) /\ DOMAIN (s \o t) = 1..(Len(s) + Len(t))
      /\ Len(s) \in Nat /\ Len(t) \in Nat
      /\ \A i \in 1..Len(s) : (s \o t)[i] = s[i]
      /\ \A i \in 1..Len(t) : (s \o t)[Len(s) + i] = t[i]
  OBVIOUS
<1>2. \A i \in DOMAIN (s \o t) :
        (i \in DOMAIN s) \/ (i - Len(s) \in DOMAIN t /\ (s \o t)[i] = t[i - Len(s)])
  BY <1>1
<1>3. \A i \in DOMAIN s : i \in DOMAIN (s \o t) /\ (s \o t)[i] = s[i]
  BY <1>1
<1>4. \A i \in DOMAIN t : Len(s) + i \in DOMAIN (s \o t) /\ (s \o t)[Len(s) + i] = t[i]
  BY <1>1
<1>5. HasDrain(s \o t) <=> HasDrain(s) \/ HasDrain(t)
  <2>1. HasDrain(s \o t) => HasDrain(s) \/ HasDrain(t)
    BY <1>2, <1>3 DEF HasDrain
  <2>2. HasDrain(s) \/ HasDrain(t) => HasDrain(s \o t)
    BY <1>3, <1>4 DEF HasDrain
  <2> QED BY <2>1, <2>2
<1>6. HasData(s \o t) <=> HasData(s) \/ HasData(t)
  <2>1. HasData(s \o t) => HasData(s) \/ HasData(t)
    BY <1>2, <1>3 DEF HasData
  <2>2. HasData(s) \/ HasData(t) => HasData(s \o t)
    BY <1>3, <1>4 DEF HasData
  <2> QED BY <2>1, <2>2
<1>7. InOrder(s \o t)
  <2> SUFFICES ASSUME NEW i \in DOMAIN (s \o t), IsData((s \o t)[i]), NEW j \in 1..(i - 1)
               PROVE  (s \o t)[j] # "Drain"
    BY DEF InOrder
  <2>1. CASE i \in DOMAIN s
    BY <1>1, <2>1 DEF InOrder
  <2>2. CASE i \notin DOMAIN s /\ j \in DOMAIN s
    BY <1>1, <1>2, <2>2 DEF HasData, HasDrain
  <2>3. CASE i \notin DOMAIN s /\ j \notin DOMAIN s
    <3>1. i - Len(s) \in DOMAIN t /\ (s \o t)[i] = t[i - Len(s)]
      BY <1>2, <2>3
    <3>2. j - Len(s) \in 1..(i - Len(s) - 1) /\ j \in DOMAIN (s \o t)
      BY <1>1, <2>3
    <3>3. (s \o t)[j] = t[j - Len(s)]
      BY <1>2, <2>3, <3>2
    <3> QED BY <3>1, <3>2, <3>3 DEF InOrder
  <2> QED BY <2>1, <2>2, <2>3
<1> QED BY <1>5, <1>6, <1>7

\* What is in a channel after a receive.
LEMMA Received ==
  ASSUME NEW s \in Seq(Messages), s # <<>>, InOrder(s)
  PROVE  /\ InOrder(Tail(s))
         /\ HasDrain(Tail(s)) => HasDrain(s)
         /\ HasData(Tail(s)) => HasData(s)
         /\ Head(s) = "Drain" => HasDrain(s) /\ ~HasData(Tail(s))
         /\ IsData(Head(s)) => HasData(s)
<1>1. /\ DOMAIN s = 1..Len(s) /\ DOMAIN Tail(s) = 1..(Len(s) - 1) /\ Len(s) \in Nat \ {0}
      /\ \A i \in 1..(Len(s) - 1) : Tail(s)[i] = s[i + 1]
      /\ Head(s) = s[1]
  OBVIOUS
<1>2. \A i \in DOMAIN Tail(s) : i + 1 \in DOMAIN s /\ Tail(s)[i] = s[i + 1]
  BY <1>1
<1>3. InOrder(Tail(s))
  <2> SUFFICES ASSUME NEW i \in DOMAIN Tail(s), IsData(Tail(s)[i]), NEW j \in 1..(i - 1)
               PROVE  Tail(s)[j] # "Drain"
    BY DEF InOrder
  <2>1. i + 1 \in DOMAIN s /\ IsData(s[i + 1]) /\ j + 1 \in 1..((i + 1) - 1) /\ j \in DOMAIN Tail(s)
    BY <1>1, <1>2
  <2> QED BY <1>2, <2>1 DEF InOrder
<1>4. HasDrain(Tail(s)) => HasDrain(s)
  BY <1>2 DEF HasDrain
<1>5. HasData(Tail(s)) => HasData(s)
  BY <1>2 DEF HasData
<1>6. Head(s) = "Drain" => HasDrain(s) /\ ~HasData(Tail(s))
  <2> SUFFICES ASSUME s[1] = "Drain" PROVE HasDrain(s) /\ ~HasData(Tail(s))
    BY <1>1
  <2>1. HasDrain(s)
    BY <1>1 DEF HasDrain
  <2>2. ASSUME NEW i \in DOMAIN Tail(s), IsData(Tail(s)[i]) PROVE FALSE
    <3>1. i + 1 \in DOMAIN s /\ IsData(s[i + 1]) /\ 1 \in 1..((i + 1) - 1)
      BY <1>1, <1>2, <2>2
    <3> QED BY <3>1 DEF InOrder
  <2> QED BY <2>1, <2>2 DEF HasData
<1>7. IsData(Head(s)) => HasData(s)
  BY <1>1 DEF HasData
<1> QED BY <1>3, <1>4, <1>5, <1>6, <1>7

\* What the steps publish.
LEMMA WhatIsPublished ==
  /\ InOrder(<<>>) /\ ~HasDrain(<<>>) /\ ~HasData(<<>>)
  /\ InOrder(<<"Started", "Timeline">>) /\ ~HasDrain(<<"Started", "Timeline">>)
  /\ InOrder(<<"Timeline">>) /\ ~HasDrain(<<"Timeline">>)
  /\ InOrder(<<"Commit">>) /\ ~HasDrain(<<"Commit">>)
  /\ InOrder(<<"Approval">>) /\ ~HasDrain(<<"Approval">>) /\ ~HasData(<<"Approval">>)
  /\ InOrder(<<"Drain">>) /\ ~HasData(<<"Drain">>)
  BY DEF InOrder, HasDrain, HasData, IsData

\* A send keeps the order in the channel of a run that has not sent its drain.
LEMMA PublishKeepsOrder ==
  ASSUME Inv, NEW a \in Attempts, Talks(a), NEW what \in Seq(Messages), Publish(a, what),
         InOrder(what), HasData(what) => task[a] \in Speaking
  PROVE  /\ InOrder(channel'[a])
         /\ HasDrain(channel'[a]) => HasDrain(channel[a]) \/ HasDrain(what)
         /\ HasData(channel'[a]) => listener[a] = "Listening"
         /\ \A b \in Attempts \ {a} : channel'[b] = channel[b]
<1>1. channel[a] \in Seq(Messages) /\ channel \in [Attempts -> Seq(Messages)]
  BY DEF Inv, TypeOK, TalkTypeOK
<1>2. HasData(what) => ~HasDrain(channel[a])
  BY DEF Talks, Speaking
<1>3. CASE listener[a] # "Listening"
  BY <1>3 DEF Publish, Talks
<1>4. CASE listener[a] = "Listening"
  <2>1. channel'[a] = channel[a] \o what /\ \A b \in Attempts \ {a} : channel'[b] = channel[b]
    BY <1>1, <1>4 DEF Publish
  <2>2. InOrder(channel[a])
    BY DEF Talks
  <2>3. InOrder(channel[a] \o what)
        /\ (HasDrain(channel[a] \o what) => HasDrain(channel[a]) \/ HasDrain(what))
    BY <1>1, <1>2, <2>2, Appended
  <2> QED BY <1>4, <2>1, <2>3
<1> QED BY <1>3, <1>4

\* The removal of a request disturbs no order.
LEMMA ApprovalKeepsOrder ==
  ASSUME NEW s \in Seq(Messages), InOrder(s), NEW t, t = s \/ t = s \o <<"Approval">>
  PROVE  InOrder(t) /\ (HasDrain(t) => HasDrain(s)) /\ (HasData(t) => HasData(s))
<1>1. <<"Approval">> \in Seq(Messages) /\ InOrder(<<"Approval">>)
      /\ ~HasDrain(<<"Approval">>) /\ ~HasData(<<"Approval">>)
  BY Posts, WhatIsPublished
<1>2. InOrder(s \o <<"Approval">>)
      /\ (HasDrain(s \o <<"Approval">>) => HasDrain(s))
      /\ (HasData(s \o <<"Approval">>) => HasData(s))
  BY <1>1, Appended
<1> QED BY <1>2

\* The attempts that a step does not touch go on as they did.
LEMMA OneAttemptTalks ==
  ASSUME PublicationsArrive, NEW a \in Attempts, Talks(a)', shuttingDown => shuttingDown',
         \A b \in Attempts \ {a} : /\ task'[b] = task[b] /\ listener'[b] = listener[b]
                                   /\ channel'[b] = channel[b] /\ lost'[b] = lost[b]
  PROVE  PublicationsArrive'
  BY DEF PublicationsArrive, Talks

\* A step that leaves the channels alone.
LEMMA QuietKeepsPublications ==
  ASSUME PublicationsArrive, UNCHANGED <<task, listener, channel, lost, shuttingDown>>
  PROVE  PublicationsArrive'
  BY DEF PublicationsArrive, Talks

\* Every step keeps the talk between runs and listeners.
LEMMA StepKeepsPublications ==
  ASSUME Inv, PublicationsArrive, [Next]_vars
  PROVE  PublicationsArrive'
<1> USE DEF Inv, TypeOK, AttemptTypeOK, TalkTypeOK, RecordTypeOK
<1>1. CASE \E c \in Conversations : Submit(c)
  <2> PICK c \in Conversations : Submit(c) BY <1>1
  <2>0. issued + 1 \in Attempts
    BY DEF Submit
  <2> PICK a \in Attempts : a = issued + 1
    BY <2>0
  <2>1. task[a] = "None" /\ listener[a] = "None"
    BY DEF Submit, Shape, Born
  <2>2. task' = [task EXCEPT ![a] = "Writing"] /\ UNCHANGED <<channel, listener, lost, shuttingDown>>
    BY DEF Submit
  <2>3. Talks(a)'
    BY <2>1, <2>2 DEF PublicationsArrive, Talks, Speaking
  <2> QED BY <2>1, <2>2, <2>3, OneAttemptTalks
<1>2. CASE \E a \in Attempts : RejectSubmission(a) \/ RefuseLaunch(a)
  <2> PICK a \in Attempts : RejectSubmission(a) \/ RefuseLaunch(a) BY <1>2
  <2>1. Talks(a)
    BY DEF PublicationsArrive
  <2>2. Talks(a)'
    BY <2>1 DEF Talks, RejectSubmission, RefuseLaunch, Speaking
  <2>3. /\ UNCHANGED shuttingDown
        /\ \A b \in Attempts \ {a} : /\ task'[b] = task[b] /\ listener'[b] = listener[b]
                                  /\ channel'[b] = channel[b] /\ lost'[b] = lost[b]
    BY DEF RejectSubmission, RefuseLaunch, Speaking
  <2> QED BY <2>2, <2>3, OneAttemptTalks
<1>3. CASE \E a \in Attempts : LaunchRun(a)
  <2> PICK a \in Attempts : LaunchRun(a) BY <1>3
  <2>1. Talks(a)
    BY DEF PublicationsArrive
  <2>2. /\ \/ task' = [task EXCEPT ![a] = "Launching"] /\ listener' = [listener EXCEPT ![a] = "Listening"]
           \/ task' = [task EXCEPT ![a] = "Over"] /\ UNCHANGED listener
        /\ task[a] = "Writing"
        /\ UNCHANGED <<channel, lost, shuttingDown>>
    BY DEF LaunchRun
  <2>3. Talks(a)'
    BY <2>1, <2>2 DEF Talks, Speaking
  <2> QED BY <2>2, <2>3, OneAttemptTalks
<1>4. CASE \E a \in Attempts : CheckToken(a) \/ BeginFails(a)
  <2> PICK a \in Attempts : CheckToken(a) \/ BeginFails(a) BY <1>4
  <2>1. Talks(a)
    BY DEF PublicationsArrive
  <2>2. Talks(a)'
    BY <2>1 DEF Talks, CheckToken, BeginFails, Speaking
  <2>3. /\ UNCHANGED shuttingDown
        /\ \A b \in Attempts \ {a} : /\ task'[b] = task[b] /\ listener'[b] = listener[b]
                                  /\ channel'[b] = channel[b] /\ lost'[b] = lost[b]
    BY DEF CheckToken, BeginFails, Speaking
  <2> QED BY <2>2, <2>3, OneAttemptTalks
<1>5. CASE \E a \in Attempts : InsertRow(a)
  <2> PICK a \in Attempts : InsertRow(a) BY <1>5
  <2>1. /\ task[a] = "Inserting" /\ task' = [task EXCEPT ![a] = "Executing"]
        /\ Publish(a, <<"Started", "Timeline">>)
        /\ UNCHANGED <<listener, lost, shuttingDown>>
    BY DEF InsertRow
  <2>2. Talks(a)
    BY DEF PublicationsArrive
  <2>3. /\ InOrder(channel'[a])
        /\ HasDrain(channel'[a]) => HasDrain(channel[a]) \/ HasDrain(<<"Started", "Timeline">>)
        /\ HasData(channel'[a]) => listener[a] = "Listening"
        /\ \A b \in Attempts \ {a} : channel'[b] = channel[b]
    BY <2>1, <2>2, Posts, WhatIsPublished, PublishKeepsOrder DEF Speaking
  <2>4. Talks(a)'
    BY <2>1, <2>2, <2>3, WhatIsPublished DEF Talks, Speaking
  <2> QED BY <2>1, <2>3, <2>4, OneAttemptTalks
<1>6. CASE \E a \in Attempts : Progress(a)
  <2> PICK a \in Attempts : Progress(a) BY <1>6
  <2>1. /\ task[a] = "Executing" /\ UNCHANGED task
        /\ Publish(a, <<"Timeline">>)
        /\ UNCHANGED <<listener, lost, shuttingDown>>
    BY DEF Progress
  <2>2. Talks(a)
    BY DEF PublicationsArrive
  <2>3. /\ InOrder(channel'[a])
        /\ HasDrain(channel'[a]) => HasDrain(channel[a]) \/ HasDrain(<<"Timeline">>)
        /\ HasData(channel'[a]) => listener[a] = "Listening"
        /\ \A b \in Attempts \ {a} : channel'[b] = channel[b]
    BY <2>1, <2>2, Posts, WhatIsPublished, PublishKeepsOrder DEF Speaking
  <2>4. Talks(a)'
    BY <2>1, <2>2, <2>3, WhatIsPublished DEF Talks, Speaking
  <2> QED BY <2>1, <2>3, <2>4, OneAttemptTalks
<1>7. CASE \E a \in Attempts : RequestApproval(a)
  <2> PICK a \in Attempts : RequestApproval(a) BY <1>7
  <2>1. /\ task[a] = "Executing" /\ task' = [task EXCEPT ![a] = "Awaiting"]
        /\ Publish(a, <<"Approval">>)
        /\ UNCHANGED <<listener, lost, shuttingDown>>
    BY DEF RequestApproval
  <2>2. Talks(a)
    BY DEF PublicationsArrive
  <2>3. /\ InOrder(channel'[a])
        /\ HasDrain(channel'[a]) => HasDrain(channel[a]) \/ HasDrain(<<"Approval">>)
        /\ HasData(channel'[a]) => listener[a] = "Listening"
        /\ \A b \in Attempts \ {a} : channel'[b] = channel[b]
    BY <2>1, <2>2, Posts, WhatIsPublished, PublishKeepsOrder DEF Speaking
  <2>4. Talks(a)'
    BY <2>1, <2>2, <2>3, WhatIsPublished DEF Talks, Speaking
  <2> QED BY <2>1, <2>3, <2>4, OneAttemptTalks
<1>8. CASE \E a \in Attempts : Answered(a)
  <2> PICK a \in Attempts : Answered(a) BY <1>8
  <2>1. Talks(a)
    BY DEF PublicationsArrive
  <2>2. Talks(a)'
    BY <2>1 DEF Talks, Answered, Speaking
  <2>3. /\ UNCHANGED shuttingDown
        /\ \A b \in Attempts \ {a} : /\ task'[b] = task[b] /\ listener'[b] = listener[b]
                                  /\ channel'[b] = channel[b] /\ lost'[b] = lost[b]
    BY DEF Answered, Speaking
  <2> QED BY <2>2, <2>3, OneAttemptTalks
<1>9. CASE \E a \in Attempts, s \in {"Completed", "Failed", "Canceled"} :
           Finalize(a, s)
  <2> PICK a \in Attempts, s \in {"Completed", "Failed", "Canceled"} : Finalize(a, s) BY <1>9
  <2>1. /\ task[a] = "Executing" /\ task' = [task EXCEPT ![a] = "Ending"]
        /\ Publish(a, <<"Commit">>)
        /\ UNCHANGED <<listener, lost, shuttingDown>>
    BY DEF Finalize
  <2>2. Talks(a)
    BY DEF PublicationsArrive
  <2>3. /\ InOrder(channel'[a])
        /\ HasDrain(channel'[a]) => HasDrain(channel[a]) \/ HasDrain(<<"Commit">>)
        /\ HasData(channel'[a]) => listener[a] = "Listening"
        /\ \A b \in Attempts \ {a} : channel'[b] = channel[b]
    BY <2>1, <2>2, Posts, WhatIsPublished, PublishKeepsOrder DEF Speaking
  <2>4. Talks(a)'
    BY <2>1, <2>2, <2>3, WhatIsPublished DEF Talks, Speaking
  <2> QED BY <2>1, <2>3, <2>4, OneAttemptTalks
<1>10. CASE \E a \in Attempts : FinalizeFails(a)
  <2> PICK a \in Attempts : FinalizeFails(a) BY <1>10
  <2>1. Talks(a)
    BY DEF PublicationsArrive
  <2>2. Talks(a)'
    BY <2>1 DEF Talks, FinalizeFails, Speaking
  <2>3. /\ UNCHANGED shuttingDown
        /\ \A b \in Attempts \ {a} : /\ task'[b] = task[b] /\ listener'[b] = listener[b]
                                  /\ channel'[b] = channel[b] /\ lost'[b] = lost[b]
    BY DEF FinalizeFails, Speaking
  <2> QED BY <2>2, <2>3, OneAttemptTalks
<1>11. CASE \E a \in Attempts : SendDrain(a)
  <2> PICK a \in Attempts : SendDrain(a) BY <1>11
  <2>1. /\ task[a] = "Ending" /\ task' = [task EXCEPT ![a] = "Draining"]
        /\ Publish(a, <<"Drain">>)
        /\ UNCHANGED <<listener, lost, shuttingDown>>
    BY DEF SendDrain, PublicationsArrive, Talks, Speaking
  <2>2. Talks(a)
    BY DEF PublicationsArrive
  <2>3. /\ InOrder(channel'[a])
        /\ HasDrain(channel'[a]) => HasDrain(channel[a]) \/ HasDrain(<<"Drain">>)
        /\ HasData(channel'[a]) => listener[a] = "Listening"
        /\ \A b \in Attempts \ {a} : channel'[b] = channel[b]
    BY <2>1, <2>2, Posts, WhatIsPublished, PublishKeepsOrder DEF Speaking
  <2>4. Talks(a)'
    BY <2>1, <2>2, <2>3, WhatIsPublished DEF Talks, Speaking
  <2> QED BY <2>1, <2>3, <2>4, OneAttemptTalks
<1>12. CASE \E a \in Attempts : Drained(a)
  <2> PICK a \in Attempts : Drained(a) BY <1>12
  <2>1. Talks(a)
    BY DEF PublicationsArrive
  <2>2. Talks(a)'
    BY <2>1 DEF Talks, Drained, Speaking
  <2>3. /\ UNCHANGED shuttingDown
        /\ \A b \in Attempts \ {a} : /\ task'[b] = task[b] /\ listener'[b] = listener[b]
                                  /\ channel'[b] = channel[b] /\ lost'[b] = lost[b]
    BY DEF Drained, Speaking
  <2> QED BY <2>2, <2>3, OneAttemptTalks
<1>13. CASE \E a \in Attempts : FinishRun(a)
  <2> PICK a \in Attempts : FinishRun(a) BY <1>13
  <2>1. Talks(a)
    BY DEF PublicationsArrive
  <2>2. Talks(a)'
    BY <2>1, WhatIsPublished DEF Talks, FinishRun, Release, DropListener, HasData, Speaking
  <2>3. /\ UNCHANGED shuttingDown
        /\ \A b \in Attempts \ {a} : /\ task'[b] = task[b] /\ listener'[b] = listener[b]
                                  /\ channel'[b] = channel[b] /\ lost'[b] = lost[b]
    BY DEF FinishRun, Release, DropListener, HasData, Speaking
  <2> QED BY <2>2, <2>3, OneAttemptTalks
<1>14. CASE \E a \in Attempts : Listen(a)
  <2> PICK a \in Attempts : Listen(a) BY <1>14
  <2>1. Talks(a) /\ channel[a] \in Seq(Messages) /\ channel[a] # <<>>
    BY DEF PublicationsArrive, Listen
  <2>2. Live(a) /\ task[a] # "Writing"
    BY <2>1 DEF Listen, Talks, Speaking, Live
  <2>3. ~shuttingDown => Matches(a, {"Running", "Stopping"})
    BY <2>2, MatchesByPhase DEF Shape, LiveAttemptIsRegistered
  <2>4. /\ channel' = [channel EXCEPT ![a] = Tail(channel[a])]
        /\ listener' = [listener EXCEPT ![a] = IF Head(channel[a]) = "Drain" THEN "Ended" ELSE listener[a]]
        /\ UNCHANGED <<task, shuttingDown>> /\ listener[a] = "Listening"
    BY DEF Listen
  <2>5. lost' = [lost EXCEPT ![a] = lost[a] \/ (IsData(Head(channel[a])) /\ ~Matches(a, {"Running", "Stopping"}))]
    BY DEF Listen
  <2>6. lost'[a] => shuttingDown
    BY <2>1, <2>3, <2>5 DEF Talks
  <2>7. channel'[a] = Tail(channel[a])
    BY <2>4
  <2>8. InOrder(channel'[a])
        /\ (HasDrain(channel'[a]) => HasDrain(channel[a]))
        /\ (HasData(channel'[a]) => HasData(channel[a]) /\ Head(channel[a]) # "Drain")
        /\ (Head(channel[a]) = "Drain" => HasDrain(channel[a]))
    BY <2>1, <2>7, Received DEF Talks
  <2>9. Talks(a)'
    BY <2>1, <2>4, <2>6, <2>8 DEF Talks, Speaking
  <2>10. \A b \in Attempts \ {a} : listener'[b] = listener[b] /\ channel'[b] = channel[b] /\ lost'[b] = lost[b]
    BY <2>4, <2>5
  <2> QED BY <2>4, <2>9, <2>10, OneAttemptTalks
<1>15. CASE \E c \in Conversations, answer \in {"Approved", "Denied"} :
           Decide(c, answer)
  <2> PICK c \in Conversations, answer \in {"Approved", "Denied"} : Decide(c, answer) BY <1>15
  <2>0. activeRuns[c].attempt \in Attempts
    BY DEF Decide, Decidable, Shape, EntriesHoldTheirTasks, EntryHoldsItsTasks
  <2> PICK a \in Attempts : a = activeRuns[c].attempt
    BY <2>0
  <2>1. Talks(a) /\ channel[a] \in Seq(Messages)
    BY DEF PublicationsArrive
  <2>2. Publish(a, <<"Approval">>) /\ UNCHANGED <<task, listener, lost, shuttingDown>>
    BY DEF Decide, ResolveFor
  <2>3. /\ InOrder(channel'[a])
        /\ HasDrain(channel'[a]) => HasDrain(channel[a]) \/ HasDrain(<<"Approval">>)
        /\ HasData(channel'[a]) => listener[a] = "Listening"
        /\ \A b \in Attempts \ {a} : channel'[b] = channel[b]
    BY <2>1, <2>2, Posts, WhatIsPublished, PublishKeepsOrder
  <2>4. Talks(a)'
    BY <2>1, <2>2, <2>3, WhatIsPublished DEF Talks
  <2> QED BY <2>2, <2>3, <2>4, OneAttemptTalks
<1>16. CASE \E c \in Conversations : TakeLastError(c)
  BY <1>16, QuietKeepsPublications DEF TakeLastError
<1>17. CASE \E c \in Conversations, persistence \in BOOLEAN :
           StopRun(c, persistence)
  <2> PICK c \in Conversations, persistence \in BOOLEAN : StopRun(c, persistence) BY <1>17
  <2>1. UNCHANGED <<task, listener, lost, shuttingDown>>
    BY DEF StopRun
  <2>2. ASSUME NEW b \in Attempts
        PROVE  Talks(b)'
    <3>1. Talks(b) /\ channel[b] \in Seq(Messages)
      BY DEF PublicationsArrive
    <3> PICK S : CancelAttempts(S)
      BY DEF StopRun
    <3>2. \/ channel'[b] = channel[b]
          \/ channel'[b] = channel[b] \o <<"Approval">>
      BY DEF CancelAttempts
    <3>3. InOrder(channel'[b]) /\ (HasDrain(channel'[b]) => HasDrain(channel[b]))
          /\ (HasData(channel'[b]) => HasData(channel[b]))
      BY <3>1, <3>2, ApprovalKeepsOrder DEF Talks
    <3> QED BY <2>1, <3>1, <3>3 DEF Talks, Speaking
  <2> QED BY <2>2 DEF PublicationsArrive
<1>18. CASE \E a \in Attempts : CleanupLists(a) \/ CleanupFails(a)
  BY <1>18, QuietKeepsPublications DEF CleanupLists, CleanupFails
<1>19. CASE \E a \in Attempts, b \in Attempts, s \in {"Canceled", "Failed"} :
           CleanupCancels(a, b, s)
  BY <1>19, QuietKeepsPublications DEF CleanupCancels
<1>20. CASE \E a \in Attempts : FinishStop(a)
  <2> PICK a \in Attempts : FinishStop(a) BY <1>20
  <2>1. Talks(a)
    BY DEF PublicationsArrive
  <2>2. Talks(a)'
    BY <2>1, WhatIsPublished DEF Talks, FinishStop, Release, DropListener, HasData, Speaking, Shape, StepsInOrder
  <2>3. /\ UNCHANGED shuttingDown
        /\ \A b \in Attempts \ {a} : /\ task'[b] = task[b] /\ listener'[b] = listener[b]
                                  /\ channel'[b] = channel[b] /\ lost'[b] = lost[b]
    BY DEF FinishStop, Release, DropListener, HasData, Speaking, Shape, StepsInOrder
  <2> QED BY <2>2, <2>3, OneAttemptTalks
<1>21. CASE ShutdownAll
  <2> DEFINE submitting == {activeRuns[c].attempt :
                c \in {d \in Conversations : RunStatus(d) \in {"Submitting"}}}
  <2>0. \A b \in submitting : task[b] = "Writing"
    BY DEF Shape, EntriesHoldTheirTasks, EntryHoldsItsTasks
  <2>1. /\ \A b \in Attempts : task'[b] = task[b] \/ (task[b] = "Writing" /\ task'[b] = "Over")
        /\ UNCHANGED <<listener, lost>> /\ shuttingDown'
    BY <1>21, <2>0 DEF ShutdownAll
  <2>2. ASSUME NEW b \in Attempts
        PROVE  Talks(b)'
    <3>1. Talks(b) /\ channel[b] \in Seq(Messages)
      BY DEF PublicationsArrive
    <3> PICK S : CancelAttempts(S)
      BY <1>21 DEF ShutdownAll
    <3>2. \/ channel'[b] = channel[b]
          \/ channel'[b] = channel[b] \o <<"Approval">>
      BY DEF CancelAttempts
    <3>3. InOrder(channel'[b]) /\ (HasDrain(channel'[b]) => HasDrain(channel[b]))
          /\ (HasData(channel'[b]) => HasData(channel[b]))
      BY <3>1, <3>2, ApprovalKeepsOrder DEF Talks
    <3> QED BY <2>1, <3>1, <3>3 DEF Talks, Speaking
  <2> QED BY <2>2 DEF PublicationsArrive
<1>22. CASE ShutdownDone \/ RecoveryLists \/ RetryRecovery
  BY <1>22, QuietKeepsPublications DEF ShutdownDone, RecoveryLists, RetryRecovery
<1>23. CASE \E a \in Attempts : RecoveryFails(a)
  BY <1>23, QuietKeepsPublications DEF RecoveryFails
<1>24. CASE \E r \in RecoveryResults : CompleteRecovery(r)
  BY <1>24, QuietKeepsPublications DEF CompleteRecovery
<1>25. CASE Restart
  BY <1>25, WhatIsPublished DEF Restart, PublicationsArrive, Talks, Speaking
<1>26. CASE UNCHANGED vars
  BY <1>26, QuietKeepsPublications DEF vars
<1> QED BY <1>1, <1>2, <1>3, <1>4, <1>5, <1>6, <1>7, <1>8, <1>9, <1>10, <1>11,
           <1>12, <1>13, <1>14, <1>15, <1>16, <1>17, <1>18, <1>19, <1>20, <1>21,
           <1>22, <1>23, <1>24, <1>25, <1>26
       DEF Next, Submitted, Begins, Settles, Ends, Cleans, Recovers, Approve, Deny

-----------------------------------------------------------------------------
(* Events *)

\* The history of a run that goes on, and the histories that are over.
Begun  == <<"Committed", "Started">>
Closed == {<<"SubmissionFailed">>, <<"Committed", "LaunchFailed">>,
           <<"Committed", "Started", "Finished">>, <<"Crashed">>}

\* Nothing is said of a ticket that is not handed out.
SaidAtFirst == \A a \in Attempts : a > issued => announced[a] = <<>>

EventsAreTold == EventsFollowTheEntry /\ SaidAtFirst

\* The histories a ticket's holder can hear, and how they grow.
LEMMA Histories ==
  /\ Announcements = {<<>>, Begun} \cup Closed
  /\ <<>> # Begun /\ <<>> \notin Closed /\ Begun \notin Closed
  /\ <<>> \o <<"SubmissionFailed">> \in Closed
  /\ <<>> \o <<"Committed", "LaunchFailed">> \in Closed
  /\ <<>> \o Begun = Begun
  /\ Begun \o <<"Finished">> \in Closed
  /\ Append(Begun, "Finished") \in Closed
  /\ <<"Crashed">> \in Closed
<1>1. Announcements = {<<>>, Begun} \cup Closed
  BY DEF Announcements, Begun, Closed
<1>2. <<>> # Begun /\ <<>> \notin Closed /\ Begun \notin Closed
  BY DEF Begun, Closed
<1>3. <<>> \o <<"SubmissionFailed">> = <<"SubmissionFailed">>
      /\ <<>> \o <<"Committed", "LaunchFailed">> = <<"Committed", "LaunchFailed">>
      /\ <<>> \o Begun = Begun
  BY DEF Begun
<1> DEFINE told == <<"Committed", "Started", "Finished">>
           said == Begun \o <<"Finished">>
<1>4. said = told
  <2>1. Len(said) = 3 /\ said[1] = "Committed" /\ said[2] = "Started" /\ said[3] = "Finished"
    BY DEF Begun
  <2>2. said \in Seq(Events) /\ told \in Seq(Events)
    BY Sayings DEF Begun, Events
  <2>3. \A i \in 1..3 : said[i] = told[i]
    BY <2>1
  <2>4. Len(told) = 3
    OBVIOUS
  <2> HIDE DEF said, told
  <2> QED BY <2>1, <2>2, <2>3, <2>4, SeqEqual
<1>6. Append(Begun, "Finished") = said
  BY DEF Begun
<1>5. {<<"SubmissionFailed">>, <<"Committed", "LaunchFailed">>,
       <<"Committed", "Started", "Finished">>, <<"Crashed">>} \subseteq Closed
  BY DEF Closed
<1> QED BY <1>1, <1>2, <1>3, <1>4, <1>6, <1>5

\* What the entry of a conversation lets its ticket's holder have heard.
LEMMA EntryTells ==
  ASSUME EventsAreTold, NEW c \in Conversations, RunStatus(c) # "Idle"
  PROVE  announced[activeRuns[c].attempt] =
           (IF RunStatus(c) = "Submitting" THEN <<>> ELSE Begun)
  BY DEF EventsAreTold, EventsFollowTheEntry, Begun

\* A submission that is written is the entry of its conversation, and matches it.
LEMMA SubmissionIsTheEntry ==
  ASSUME Inv, NEW a \in Attempts, task[a] = "Writing", ~shuttingDown
  PROVE  /\ activeRuns[Conv(a)].attempt = a /\ RunStatus(Conv(a)) = "Submitting"
         /\ Matches(a, {"Submitting"})
<1>1. Live(a)
  BY DEF Live
<1>2. activeRuns[Conv(a)].attempt = a /\ RunStatus(Conv(a)) = "Submitting"
  BY <1>1 DEF Inv, Shape, StepsInOrder, LiveAttemptIsRegistered
<1>3. Matches(a, {"Submitting"})
  BY <1>1, <1>2, MatchesByPhase
<1> QED BY <1>2, <1>3

\* A step that moves no entry, says nothing and ends no submission.
LEMMA QuietKeepsEvents ==
  ASSUME EventsAreTold, UNCHANGED <<activeRuns, ticket, issued, announced, shuttingDown>>,
         \A a \in Attempts : task[a] = "Writing" => task'[a] = "Writing",
         issued \in 0..MaxAttempts
  PROVE  EventsAreTold'
  BY DEF EventsAreTold, EventsFollowTheEntry, SaidAtFirst

\* The entry of conversation c becomes entry, on behalf of attempt a, and the
\* holder of its ticket hears of it.
LEMMA MoveKeepsEvents ==
  ASSUME Inv, EventsAreTold, NEW a \in Attempts, NEW c \in Conversations, NEW entry,
         activeRuns' = [activeRuns EXCEPT ![c] = entry], ~shuttingDown,
         RunStatus(c) # "Idle" => activeRuns[c].attempt = a,
         ticket'[a].conversation = c, Live(a) => Conv(a) = c,
         issued' \in 0..MaxAttempts, a <= issued',
         \A b \in Attempts \ {a} :
           /\ ticket'[b] = ticket[b] /\ announced'[b] = announced[b]
           /\ task[b] = "Writing" => task'[b] = "Writing"
           /\ b <= issued <=> b <= issued',
         \/ entry = Vacant /\ announced'[a] \in Closed
         \/ /\ entry.attempt = a /\ entry.phase \in {"Submitting", "Running", "Stopping"}
            /\ announced'[a] = (IF entry.phase = "Submitting" THEN <<>> ELSE Begun)
            /\ entry.phase = "Submitting" => task'[a] = "Writing"
  PROVE  EventsAreTold'
<1> USE Histories
<1>1. activeRuns'[c] = entry /\ \A d \in Conversations \ {c} : activeRuns'[d] = activeRuns[d]
  BY DEF Inv, TypeOK, StoreTypeOK
<1>2. ASSUME NEW d \in Conversations, RunStatus(d)' # "Idle"
      PROVE  announced'[activeRuns'[d].attempt] =
               (IF RunStatus(d)' = "Submitting" THEN <<>> ELSE Begun)
  <2>1. CASE d = c
    BY <1>1, <1>2, <2>1
  <2>2. CASE d # c
    <3> DEFINE b == activeRuns[d].attempt
    <3>1. RunStatus(d) # "Idle"
      BY <1>1, <1>2, <2>2
    <3>2. b \in Attempts /\ Conv(b) = d /\ Live(b)
      BY <3>1 DEF Inv, Shape, TypeOK, StoreTypeOK, EntriesHoldTheirTasks, EntryHoldsItsTasks, Live
    <3>3. announced'[b] = announced[b]
      BY <2>2, <3>2
    <3> QED BY <1>1, <2>2, <3>1, <3>3, EntryTells
  <2> QED BY <2>1, <2>2
<1>3. ASSUME NEW b \in 1..issued'
      PROVE  /\ announced'[b] \in Announcements
             /\ announced'[b] = Begun =>
                  RunStatus(Conv(b))' # "Idle" /\ activeRuns'[Conv(b)'].attempt = b
             /\ announced'[b] = <<>> /\ ~shuttingDown' => task'[b] = "Writing"
  <2>1. CASE b = a
    BY <1>1, <2>1
  <2>2. CASE b # a
    <3>1. b \in Attempts /\ b \in 1..issued /\ announced'[b] = announced[b] /\ Conv(b)' = Conv(b)
      BY <1>3, <2>2 DEF Inv, TypeOK, AttemptTypeOK
    <3>2. announced[b] = Begun =>
            RunStatus(Conv(b)) # "Idle" /\ activeRuns[Conv(b)].attempt = b
      BY <3>1 DEF EventsAreTold, EventsFollowTheEntry, Begun
    <3>3. announced[b] \in Announcements
      BY <3>1 DEF EventsAreTold, EventsFollowTheEntry
    <3>4. announced[b] = <<>> => task[b] = "Writing"
      BY <3>1 DEF EventsAreTold, EventsFollowTheEntry
    <3>5. Conv(b) \in Conversations
      BY <3>1 DEF Inv, Shape, Born
    <3>6. announced[b] = Begun => Conv(b) # c
      BY <2>2, <3>2
    <3> QED BY <1>1, <2>2, <3>1, <3>2, <3>3, <3>4, <3>5, <3>6
  <2> QED BY <2>1, <2>2
<1>4. SaidAtFirst'
  <2> SUFFICES ASSUME NEW b \in Attempts, b > issued' PROVE announced'[b] = <<>>
    BY DEF SaidAtFirst
  <2>1. b # a /\ ~(b <= issued') /\ issued \in Nat
    BY DEF Inv, TypeOK, AttemptTypeOK
  <2>2. ~(b <= issued)
    BY <2>1
  <2>3. b > issued
    BY <2>1, <2>2
  <2> QED BY <2>1, <2>3 DEF EventsAreTold, SaidAtFirst
<1>5. EventsFollowTheEntry'
  BY <1>2, <1>3 DEF EventsFollowTheEntry, Begun
<1> QED BY <1>4, <1>5 DEF EventsAreTold

\* Every step that moves an entry says what its ticket is to hear.
LEMMA StepKeepsEvents ==
  ASSUME Inv, EventsAreTold, [Next]_vars
  PROVE  EventsAreTold'
<1> USE DEF Inv, TypeOK, StoreTypeOK, AttemptTypeOK, RecordTypeOK
<1>1. CASE \E c \in Conversations : Submit(c)
  <2> PICK c \in Conversations : Submit(c) BY <1>1
  <2>1. issued + 1 \in Attempts /\ RunStatus(c) = "Idle" /\ ~shuttingDown
    BY DEF Submit, Open
  <2> PICK a \in Attempts : a = issued + 1
    BY <2>1
  <2>2. a > issued /\ \A b \in Attempts \ {a} : b <= issued <=> b <= a
    OBVIOUS
  <2>3. ~Live(a) /\ announced[a] = <<>>
    <3>1. task[a] = "None" /\ cleanup[a] = "None"
      BY <2>2 DEF Shape, Born
    <3> QED BY <2>2, <3>1 DEF Live, EventsAreTold, SaidAtFirst
  <2>4. /\ activeRuns' = [activeRuns EXCEPT ![c] = Entry("Submitting", a, FALSE)]
        /\ task' = [task EXCEPT ![a] = "Writing"] /\ issued' = a
        /\ UNCHANGED announced
    BY DEF Submit
  <2>5. ticket'[a].conversation = c /\ \A b \in Attempts \ {a} : ticket'[b] = ticket[b]
    BY DEF Submit
  <2>6. issued' \in 0..MaxAttempts /\ a <= issued'
        /\ \A b \in Attempts \ {a} : (b <= issued <=> b <= issued') /\ task'[b] = task[b]
    BY <2>2, <2>4
  <2>7. Entry("Submitting", a, FALSE).attempt = a /\ Entry("Submitting", a, FALSE).phase = "Submitting"
        /\ task'[a] = "Writing" /\ announced' = announced
    BY <2>4
  <2> HIDE DEF Entry
  <2> QED BY <2>1, <2>3, <2>4, <2>5, <2>6, <2>7, MoveKeepsEvents
<1>2. CASE \E a \in Attempts : RejectSubmission(a)
  <2> PICK a \in Attempts : RejectSubmission(a) BY <1>2
  <2>1. Live(a) /\ task[a] = "Writing" /\ a <= issued /\ Conv(a) \in Conversations
    BY DEF RejectSubmission, Live, Shape, Born
  <2>2. task' = [task EXCEPT ![a] = "Over"] /\ UNCHANGED <<ticket, issued, shuttingDown>>
    BY DEF RejectSubmission
  <2>3. CASE ~shuttingDown
    <3>1. activeRuns[Conv(a)].attempt = a /\ RunStatus(Conv(a)) = "Submitting"
          /\ Matches(a, {"Submitting"})
      BY <2>1, <2>3, SubmissionIsTheEntry
    <3>2. activeRuns' = [activeRuns EXCEPT ![Conv(a)] = Vacant]
          /\ announced' = [announced EXCEPT ![a] = announced[a] \o <<"SubmissionFailed">>]
      BY <3>1 DEF RejectSubmission, Announce
    <3>3. announced[a] = <<>>
      BY <2>1, <3>1, EntryTells
    <3> QED BY <2>1, <2>2, <2>3, <3>1, <3>2, <3>3, Histories, MoveKeepsEvents
  <2>4. CASE shuttingDown
    <3>1. ~Matches(a, {"Submitting"})
      BY <2>1, <2>4, MatchesByPhase
    <3>2. UNCHANGED <<activeRuns, announced>>
      BY <3>1 DEF RejectSubmission
    <3> QED BY <2>1, <2>2, <2>4, <3>2 DEF EventsAreTold, EventsFollowTheEntry, SaidAtFirst
  <2> QED BY <2>3, <2>4
<1>3. CASE \E a \in Attempts : RefuseLaunch(a)
  <2> PICK a \in Attempts : RefuseLaunch(a) BY <1>3
  <2>1. Live(a) /\ task[a] = "Writing" /\ a <= issued /\ Conv(a) \in Conversations
    BY DEF RefuseLaunch, Live, Shape, Born
  <2>2. task' = [task EXCEPT ![a] = "Over"] /\ UNCHANGED <<ticket, issued, shuttingDown>>
    BY DEF RefuseLaunch
  <2>3. CASE ~shuttingDown
    <3>1. activeRuns[Conv(a)].attempt = a /\ RunStatus(Conv(a)) = "Submitting"
          /\ Matches(a, {"Submitting"})
      BY <2>1, <2>3, SubmissionIsTheEntry
    <3>2. activeRuns' = [activeRuns EXCEPT ![Conv(a)] = Vacant]
          /\ announced' = [announced EXCEPT ![a] = announced[a] \o <<"Committed", "LaunchFailed">>]
      BY <3>1 DEF RefuseLaunch, Announce
    <3>3. announced[a] = <<>>
      BY <2>1, <3>1, EntryTells
    <3> QED BY <2>1, <2>2, <2>3, <3>1, <3>2, <3>3, Histories, MoveKeepsEvents
  <2>4. CASE shuttingDown
    <3>1. ~Matches(a, {"Submitting"})
      BY <2>1, <2>4, MatchesByPhase
    <3>2. UNCHANGED <<activeRuns, announced>>
      BY <3>1 DEF RefuseLaunch
    <3> QED BY <2>1, <2>2, <2>4, <3>2 DEF EventsAreTold, EventsFollowTheEntry, SaidAtFirst
  <2> QED BY <2>3, <2>4
<1>4. CASE \E a \in Attempts : LaunchRun(a)
  <2> PICK a \in Attempts : LaunchRun(a) BY <1>4
  <2>1. Live(a) /\ task[a] = "Writing" /\ a <= issued /\ Conv(a) \in Conversations /\ ~shuttingDown
    BY DEF LaunchRun, Open, Live, Shape, Born
  <2>2. activeRuns[Conv(a)].attempt = a /\ RunStatus(Conv(a)) = "Submitting"
        /\ Matches(a, {"Submitting"})
    BY <2>1, SubmissionIsTheEntry
  <2>3. /\ activeRuns' = [activeRuns EXCEPT ![Conv(a)] = Entry("Running", a, FALSE)]
        /\ announced' = [announced EXCEPT ![a] = announced[a] \o Begun]
        /\ task' = [task EXCEPT ![a] = "Launching"] /\ UNCHANGED <<ticket, issued>>
    BY <2>2 DEF LaunchRun, Announce, Begun
  <2>4. announced[a] = <<>>
    BY <2>1, <2>2, EntryTells
  <2> QED BY <2>1, <2>2, <2>3, <2>4, Histories, MoveKeepsEvents
<1>5. CASE \E a \in Attempts :
           CheckToken(a) \/ BeginFails(a) \/ InsertRow(a) \/ Progress(a)
  BY <1>5, QuietKeepsEvents DEF CheckToken, BeginFails, InsertRow, Progress
<1>6. CASE \E a \in Attempts : RequestApproval(a) \/ Answered(a)
  BY <1>6, QuietKeepsEvents DEF RequestApproval, Answered
<1>7. CASE \E a \in Attempts, s \in {"Completed", "Failed", "Canceled"} :
           Finalize(a, s)
  BY <1>7, QuietKeepsEvents DEF Finalize
<1>8. CASE \E a \in Attempts : FinalizeFails(a) \/ SendDrain(a) \/ Drained(a)
  BY <1>8, QuietKeepsEvents DEF FinalizeFails, SendDrain, Drained
<1>9. CASE \E a \in Attempts : FinishRun(a)
  <2> PICK a \in Attempts : FinishRun(a) BY <1>9
  <2>1. Live(a) /\ task[a] # "Writing" /\ a <= issued /\ Conv(a) \in Conversations
    BY DEF FinishRun, Live, Shape, Born, StepsInOrder
  <2>2. (\A b \in Attempts : task[b] = "Writing" => task'[b] = "Writing")
        /\ UNCHANGED <<ticket, issued, shuttingDown>>
    BY <2>1 DEF FinishRun
  <2>3. CASE Matches(a, {"Running"})
    <3>1. ~shuttingDown /\ RunStatus(Conv(a)) = "Running" /\ activeRuns[Conv(a)].attempt = a
      BY <2>1, <2>3, MatchesByPhase
    <3>2. activeRuns' = [activeRuns EXCEPT ![Conv(a)] = Vacant]
          /\ announced' = [announced EXCEPT ![a] = announced[a] \o <<"Finished">>]
      BY <2>3 DEF FinishRun, Release, Announce
    <3>3. announced[a] = Begun
      BY <2>1, <3>1, EntryTells
    <3> QED BY <2>1, <2>2, <3>1, <3>2, <3>3, Histories, MoveKeepsEvents
  <2>4. CASE ~Matches(a, {"Running"})
    <3>1. UNCHANGED <<activeRuns, announced>>
      BY <2>4 DEF FinishRun
    <3> QED BY <2>2, <3>1, QuietKeepsEvents
  <2> QED BY <2>3, <2>4
<1>10. CASE \E a \in Attempts : Listen(a)
  <2> PICK a \in Attempts : Listen(a) BY <1>10
  <2>1. UNCHANGED <<ticket, issued, announced, task, shuttingDown>>
    BY DEF Listen
  <2>2. CASE UNCHANGED activeRuns
    BY <2>1, <2>2, QuietKeepsEvents
  <2>3. CASE ~UNCHANGED activeRuns
    <3> PICK c : c = Conv(a)
      OBVIOUS
    <3>1. c \in Conversations /\ RunStatus(c) = "Running" /\ EntryHoldsItsTasks(c)
      BY <2>3 DEF Listen, Matches, Shape, Born, EntriesHoldTheirTasks
    <3> PICK b \in Attempts : b = activeRuns[c].attempt
      BY <3>1 DEF EntryHoldsItsTasks
    <3>2. activeRuns' = [activeRuns EXCEPT ![c] = Entry("Running", b, TRUE)]
      BY <2>3 DEF Listen
    <3>3. Conv(b) = c /\ b <= issued /\ ~shuttingDown
      BY <3>1 DEF EntryHoldsItsTasks, Shape, Born
    <3>4. announced[b] = Begun
      BY <3>1, EntryTells
    <3> QED BY <2>1, <3>1, <3>2, <3>3, <3>4, MoveKeepsEvents
  <2> QED BY <2>2, <2>3
<1>11. CASE \E c \in Conversations, answer \in {"Approved", "Denied"} :
           Decide(c, answer)
  BY <1>11, QuietKeepsEvents DEF Decide
<1>12. CASE \E c \in Conversations : TakeLastError(c)
  BY <1>12, QuietKeepsEvents DEF TakeLastError
<1>13. CASE \E c \in Conversations, persistence \in BOOLEAN :
           StopRun(c, persistence)
  <2> PICK c \in Conversations, persistence \in BOOLEAN : StopRun(c, persistence) BY <1>13
  <2>1. RunStatus(c) = "Running" /\ EntryHoldsItsTasks(c)
    BY DEF StopRun, Shape, EntriesHoldTheirTasks
  <2> PICK a \in Attempts : a = activeRuns[c].attempt
    BY <2>1 DEF EntryHoldsItsTasks
  <2>2. Conv(a) = c /\ a <= issued /\ ~shuttingDown
    BY <2>1 DEF EntryHoldsItsTasks, Shape, Born
  <2>3. activeRuns' = [activeRuns EXCEPT ![c] = Entry("Stopping", a, activeRuns[c].runKnown)]
        /\ UNCHANGED <<ticket, issued, announced, task>>
    BY DEF StopRun
  <2>4. announced[a] = Begun
    BY <2>1, EntryTells
  <2> QED BY <2>1, <2>2, <2>3, <2>4, MoveKeepsEvents
<1>14. CASE \E a \in Attempts : CleanupLists(a) \/ CleanupFails(a)
  BY <1>14, QuietKeepsEvents DEF CleanupLists, CleanupFails
<1>15. CASE \E a \in Attempts, b \in Attempts, s \in {"Canceled", "Failed"} :
           CleanupCancels(a, b, s)
  BY <1>15, QuietKeepsEvents DEF CleanupCancels
<1>16. CASE \E a \in Attempts : FinishStop(a)
  <2> PICK a \in Attempts : FinishStop(a) BY <1>16
  <2>1. Live(a) /\ task[a] # "Writing" /\ a <= issued /\ Conv(a) \in Conversations
    BY DEF FinishStop, Live, Shape, Born, StepsInOrder
  <2>2. (\A b \in Attempts : task[b] = "Writing" => task'[b] = "Writing")
        /\ UNCHANGED <<ticket, issued, shuttingDown>>
    BY <2>1 DEF FinishStop
  <2>3. CASE Matches(a, {"Stopping"})
    <3>1. ~shuttingDown /\ RunStatus(Conv(a)) = "Stopping" /\ activeRuns[Conv(a)].attempt = a
      BY <2>1, <2>3, MatchesByPhase
    <3>2. activeRuns' = [activeRuns EXCEPT ![Conv(a)] = Vacant]
          /\ announced' = [announced EXCEPT ![a] = announced[a] \o <<"Finished">>]
      BY <2>3 DEF FinishStop, Release, Announce
    <3>3. announced[a] = Begun
      BY <2>1, <3>1, EntryTells
    <3> QED BY <2>1, <2>2, <3>1, <3>2, <3>3, Histories, MoveKeepsEvents
  <2>4. CASE ~Matches(a, {"Stopping"})
    <3>1. UNCHANGED <<activeRuns, announced>>
      BY <2>4 DEF FinishStop
    <3> QED BY <2>2, <3>1, QuietKeepsEvents
  <2> QED BY <2>3, <2>4
<1>17. CASE ShutdownAll
  <2> DEFINE held(phases) ==
               {activeRuns[c].attempt : c \in {d \in Conversations : RunStatus(d) \in phases}}
             running == held({"Running", "Stopping"})
  <2>1. /\ activeRuns' = [c \in Conversations |-> Vacant] /\ shuttingDown'
        /\ announced' = [a \in Attempts |-> IF a \in running THEN Append(announced[a], "Finished")
                                            ELSE announced[a]]
        /\ UNCHANGED <<ticket, issued>>
    BY <1>17 DEF ShutdownAll
  <2>2. ASSUME NEW a \in running
        PROVE  a \in Attempts /\ a <= issued /\ announced[a] = Begun
    <3> PICK c \in Conversations :
               RunStatus(c) \in {"Running", "Stopping"} /\ a = activeRuns[c].attempt
      OBVIOUS
    <3>1. task[a] # "None" \/ cleanup[a] # "None"
      BY DEF Shape, EntriesHoldTheirTasks, EntryHoldsItsTasks
    <3>2. a \in Attempts
      BY DEF Shape, EntriesHoldTheirTasks, EntryHoldsItsTasks
    <3>3. a <= issued
      BY <3>1, <3>2 DEF Shape, Born
    <3> QED BY <3>2, <3>3, EntryTells
  <2>3. ASSUME NEW a \in 1..issued, announced[a] = Begun
        PROVE  a \in running
    <3>1. RunStatus(Conv(a)) # "Idle" /\ activeRuns[Conv(a)].attempt = a
      BY <2>3 DEF EventsAreTold, EventsFollowTheEntry, Begun
    <3>2. a \in Attempts /\ Conv(a) \in Conversations
      BY DEF Shape, Born
    <3>3. RunStatus(Conv(a)) # "Submitting"
      BY <2>3, <3>1, <3>2, EntryTells, Histories
    <3>4. RunStatus(Conv(a)) \in {"Running", "Stopping"}
      BY <3>1, <3>2, <3>3
    <3> QED BY <3>1, <3>2, <3>4
  <2> HIDE DEF running
  <2>4. ASSUME NEW a \in 1..issued
        PROVE  announced'[a] \in Announcements \ {Begun}
    <3>1. a \in Attempts /\ announced[a] \in Announcements
      BY DEF EventsAreTold, EventsFollowTheEntry
    <3>2. announced'[a] = IF a \in running THEN Append(announced[a], "Finished") ELSE announced[a]
      BY <2>1, <3>1
    <3> QED BY <2>2, <2>3, <3>1, <3>2, Histories
  <2>5. SaidAtFirst'
    BY <2>1, <2>2 DEF EventsAreTold, SaidAtFirst
  <2> QED BY <2>1, <2>4, <2>5 DEF EventsAreTold, EventsFollowTheEntry, Begun
<1>18. CASE ShutdownDone \/ RecoveryLists \/ RetryRecovery
  BY <1>18, QuietKeepsEvents DEF ShutdownDone, RecoveryLists, RetryRecovery
<1>19. CASE \E a \in Attempts : RecoveryFails(a)
  BY <1>19, QuietKeepsEvents DEF RecoveryFails
<1>20. CASE \E r \in RecoveryResults : CompleteRecovery(r)
  BY <1>20, QuietKeepsEvents DEF CompleteRecovery
<1>21. CASE Restart
  <2>1. /\ activeRuns' = [c \in Conversations |-> Vacant] /\ UNCHANGED issued
        /\ announced' = [a \in Attempts |-> IF a <= issued THEN <<"Crashed">> ELSE <<>>]
    BY <1>21 DEF Restart, FreshStore
  <2>2. \A a \in 1..issued : announced'[a] = <<"Crashed">>
    BY <2>1
  <2>3. SaidAtFirst'
    BY <2>1 DEF SaidAtFirst
  <2> QED BY <2>1, <2>2, <2>3, Histories DEF EventsAreTold, EventsFollowTheEntry, Begun
<1>22. CASE UNCHANGED vars
  BY <1>22, QuietKeepsEvents DEF vars
<1> QED BY <1>1, <1>2, <1>3, <1>4, <1>5, <1>6, <1>7, <1>8, <1>9, <1>10, <1>11,
           <1>12, <1>13, <1>14, <1>15, <1>16, <1>17, <1>18, <1>19, <1>20, <1>21,
           <1>22
       DEF Next, Submitted, Begins, Settles, Ends, Cleans, Recovers, Approve, Deny

-----------------------------------------------------------------------------
(* The theorems *)

\* The inductive invariant and its parts.
RecordsInv == /\ Inv /\ AnswersAreAwaited /\ CancelledIsStopped /\ IdleBookkeeping
              /\ RowsAreAccountedFor /\ PublicationsArrive /\ EventsAreTold

\* Nothing was submitted, nothing was said.
LEMMA InitRecords == Init => RecordsInv
<1> SUFFICES ASSUME Init PROVE RecordsInv
  OBVIOUS
<1>1. Inv
  BY InitInv
<1>2. AnswersAreAwaited /\ CancelledIsStopped
  BY DEF Init, AnswersAreAwaited, CancelledIsStopped
<1>3. IdleBookkeeping
  BY DEF Init, IdleBookkeeping
<1>4. RowsAreAccountedFor
  BY DEF Init, RowsAreAccountedFor, UnusedHasNoRow, RunningRowHasARun,
         RecoverySweepsAll, CleanupSweepsAll
<1>5. PublicationsArrive
  BY WhatIsPublished DEF Init, PublicationsArrive, Talks, Speaking
<1>6. EventsAreTold
  BY DEF Init, EventsAreTold, EventsFollowTheEntry, SaidAtFirst
<1> QED BY <1>1, <1>2, <1>3, <1>4, <1>5, <1>6 DEF RecordsInv

\* The strengthened invariant holds in every reachable state.
THEOREM RecordsHold == Spec => []RecordsInv
<1>1. Init => RecordsInv
  BY InitRecords
<1>2. RecordsInv /\ [Next]_vars => RecordsInv'
  BY StepKeepsTypes, StepKeepsShape, StepKeepsAnswers, StepKeepsBookkeeping,
     StepKeepsRows, StepKeepsPublications, StepKeepsEvents
  DEF RecordsInv, Inv
<1> QED BY <1>1, <1>2, PTL DEF Spec

\* A request that the user may decide on has a run that waits for the decision
\* and was given none, whatever stops and publications happen meanwhile.
THEOREM RequestsHaveWaiters == Spec => []DecidableRequestHasAWaiter
<1>1. RecordsInv => DecidableRequestHasAWaiter
  BY DEF RecordsInv, AnswersAreAwaited, DecidableRequestHasAWaiter
<1> QED BY <1>1, RecordsHold, PTL

\* No approval and no denial reaches a run after it was cancelled, not even
\* for a request registered after the cancellation.
THEOREM CancelledRunsHearNoDecision == Spec => NoDecisionAfterCancel
<1>1. ASSUME RecordsInv, [Next]_vars, NEW a \in Attempts, cancelled[a]
      PROVE  decision'[a] \in {decision[a], "None", "Canceled"}
  <2> USE DEF RecordsInv, Inv, TypeOK, TalkTypeOK
  <2>1. CASE \E c \in Conversations, answer \in {"Approved", "Denied"} : Decide(c, answer)
    <3> PICK c \in Conversations, answer \in {"Approved", "Denied"} : Decide(c, answer)
      BY <2>1
    <3>1. activeRuns[c].attempt # a
      BY <1>1 DEF Decide, Decidable, Open, CancelledIsStopped, Shape, EntriesHoldTheirTasks,
                  EntryHoldsItsTasks
    <3> QED BY <1>1, <3>1 DEF Decide, ResolveFor
  <2>2. CASE \E S : CancelAttempts(S)
    BY <1>1, <2>2 DEF CancelAttempts
  <2>3. CASE \E b \in Attempts : Answered(b)
    BY <1>1, <2>3 DEF Answered
  <2>4. CASE Restart
    BY <1>1, <2>4 DEF Restart
  <2>5. CASE UNCHANGED decision
    BY <2>5
  <2>6. \/ \E S : CancelAttempts(S)
        \/ \E b \in Attempts : Answered(b)
        \/ Restart \/ UNCHANGED decision
        \/ \E c \in Conversations, answer \in {"Approved", "Denied"} : Decide(c, answer)
    <3> USE <1>1
    <3>1. CASE \E c \in Conversations, persistence \in BOOLEAN : StopRun(c, persistence)
      BY <3>1 DEF StopRun
    <3>2. CASE ShutdownAll
      BY <3>2 DEF ShutdownAll
    <3>3. CASE \E c \in Conversations : Submit(c) \/ TakeLastError(c)
      BY <3>3 DEF Submit, TakeLastError
    <3>4. CASE \E b \in Attempts : Submitted(b) \/ Begins(b)
      BY <3>4 DEF Submitted, Begins, RejectSubmission, RefuseLaunch, LaunchRun, CheckToken,
                  BeginFails, InsertRow
    <3>5. CASE \E b \in Attempts : Progress(b) \/ RequestApproval(b) \/ Settles(b)
      BY <3>5 DEF Settles, Progress, RequestApproval, Finalize, FinalizeFails
    <3>6. CASE \E b \in Attempts : Ends(b) \/ Listen(b)
      BY <3>6 DEF Ends, Listen, SendDrain, Drained, FinishRun
    <3>7. CASE \E b \in Attempts : Cleans(b)
      BY <3>7 DEF Cleans, CleanupLists, CleanupCancels, CleanupFails, FinishStop
    <3>8. CASE Recovers \/ RetryRecovery \/ ShutdownDone \/ UNCHANGED vars
      BY <3>8 DEF Recovers, RecoveryLists, RecoveryFails, CompleteRecovery, RetryRecovery,
                  ShutdownDone, vars
    <3> QED BY <3>1, <3>2, <3>3, <3>4, <3>5, <3>6, <3>7, <3>8 DEF Next, Approve, Deny
  <2> QED BY <2>1, <2>2, <2>3, <2>4, <2>5, <2>6
<1>2. RecordsInv /\ [Next]_vars =>
        [\A a \in Attempts : cancelled[a] => decision'[a] \in {decision[a], "None", "Canceled"}]_vars
  BY <1>1
<1> QED BY <1>2, RecordsHold, PTL DEF Spec, NoDecisionAfterCancel

\* Errors are shown for idle conversations only, and an open runtime retains
\* the models of exactly the conversations that run.
THEOREM BookkeepingIsExact == Spec => []IdleBookkeeping
<1>1. RecordsInv => IdleBookkeeping
  BY DEF RecordsInv
<1> QED BY <1>1, RecordsHold, PTL

\* After the recovery no row claims a run that does not run, unless the
\* database refused the run's final commit: rows of crashed processes included.
THEOREM RunningRowsHaveRuns == Spec => []RunningRowHasARun
<1>1. RecordsInv => RunningRowHasARun
  BY DEF RecordsInv, RowsAreAccountedFor
<1> QED BY <1>1, RecordsHold, PTL

\* A stop that ends without an error leaves no row of its conversation Running,
\* the rows of earlier runs included.
THEOREM StopsSettleTheRows == Spec => StopLeavesNoRunningRow
<1>1. ASSUME RecordsInv, [Next]_vars, NEW c \in Conversations,
             RunStatus(c) = "Stopping", RunStatus(c)' = "Idle",
             c \notin lastErrors', ~shuttingDown', restarts' = restarts,
             NEW b \in Attempts, Conv(b)' = c
      PROVE  row'[b] # "Running"
  <2> USE DEF RecordsInv, Inv
  <2>1. \E a \in Attempts : FinishStop(a) /\ Conv(a) = c
    <3> USE <1>1 DEF TypeOK, StoreTypeOK
    <3>1. CASE UNCHANGED activeRuns
      BY <3>1
    <3>2. CASE \E d \in Conversations : Submit(d) \/ (\E p \in BOOLEAN : StopRun(d, p))
      BY <3>2 DEF Submit, StopRun
    <3>3. CASE \E a \in Attempts : RejectSubmission(a) \/ RefuseLaunch(a) \/ LaunchRun(a)
      <4> PICK a \in Attempts : RejectSubmission(a) \/ RefuseLaunch(a) \/ LaunchRun(a)
        BY <3>3
      <4>1. UNCHANGED activeRuns \/ (RunStatus(Conv(a)) = "Submitting"
              /\ \A d \in Conversations \ {Conv(a)} : activeRuns'[d] = activeRuns[d])
        BY DEF RejectSubmission, RefuseLaunch, LaunchRun, Matches
      <4> QED BY <4>1
    <3>4. CASE \E a \in Attempts : FinishRun(a) \/ Listen(a)
      <4> PICK a \in Attempts : FinishRun(a) \/ Listen(a)
        BY <3>4
      <4>1. UNCHANGED activeRuns \/ (RunStatus(Conv(a)) = "Running"
              /\ \A d \in Conversations \ {Conv(a)} : activeRuns'[d] = activeRuns[d])
        BY DEF FinishRun, Listen, Release, Matches
      <4> QED BY <4>1
    <3>5. CASE \E a \in Attempts : FinishStop(a)
      <4> PICK a \in Attempts : FinishStop(a)
        BY <3>5
      <4>1. UNCHANGED activeRuns \/ \A d \in Conversations \ {Conv(a)} : activeRuns'[d] = activeRuns[d]
        BY DEF FinishStop, Release
      <4> QED BY <4>1
    <3>6. CASE ShutdownAll \/ Restart
      BY <3>6 DEF ShutdownAll, Restart, TypeOK, RecordTypeOK
    <3>7. \/ UNCHANGED activeRuns
          \/ \E d \in Conversations : Submit(d) \/ (\E p \in BOOLEAN : StopRun(d, p))
          \/ \E a \in Attempts : RejectSubmission(a) \/ RefuseLaunch(a) \/ LaunchRun(a)
          \/ \E a \in Attempts : FinishRun(a) \/ Listen(a)
          \/ \E a \in Attempts : FinishStop(a)
          \/ ShutdownAll \/ Restart
      <4>1. CASE \E d \in Conversations : TakeLastError(d) \/ Approve(d) \/ Deny(d)
        BY <4>1 DEF TakeLastError, Approve, Deny, Decide
      <4>2. CASE \E a \in Attempts : Begins(a) \/ Progress(a) \/ RequestApproval(a)
        BY <4>2 DEF Begins, CheckToken, BeginFails, InsertRow, Progress, RequestApproval
      <4>3. CASE \E a \in Attempts : Answered(a) \/ Settles(a) \/ SendDrain(a) \/ Drained(a)
        BY <4>3 DEF Answered, Settles, Finalize, FinalizeFails, SendDrain, Drained
      <4>4. CASE \E a \in Attempts : CleanupLists(a) \/ CleanupFails(a)
                  \/ \E d \in Attempts, s \in {"Canceled", "Failed"} : CleanupCancels(a, d, s)
        BY <4>4 DEF CleanupLists, CleanupFails, CleanupCancels
      <4>5. CASE Recovers \/ RetryRecovery \/ ShutdownDone \/ UNCHANGED vars
        BY <4>5 DEF Recovers, RecoveryLists, RecoveryFails, CompleteRecovery, RetryRecovery,
                    ShutdownDone, vars
      <4> QED BY <4>1, <4>2, <4>3, <4>4, <4>5 DEF Next, Submitted, Ends, Cleans
    <3> QED BY <3>1, <3>2, <3>3, <3>4, <3>5, <3>6, <3>7
  <2> PICK a \in Attempts : FinishStop(a) /\ Conv(a) = c
    BY <2>1
  <2>2. cleanup[a] = "Cancelling" /\ sweep[a] = {} /\ UNCHANGED <<row, ticket>>
    <3>1. Matches(a, {"Stopping"})
      BY <1>1, <2>1 DEF FinishStop
    <3>2. lastErrors' = IF cleanup[a] = "Failed" THEN lastErrors \cup {Conv(a)} ELSE lastErrors
      BY <3>1 DEF FinishStop
    <3>3. cleanup[a] # "Failed"
      BY <1>1, <3>2
    <3> QED BY <3>3 DEF FinishStop
  <2>3. row[b] # "Running"
    BY <1>1, <2>2 DEF RowsAreAccountedFor, CleanupSweepsAll
  <2> QED BY <2>2, <2>3
<1>2. RecordsInv /\ [Next]_vars => [StopSettlesItsRows]_vars
  BY <1>1 DEF StopSettlesItsRows
<1> QED BY <1>2, RecordsHold, PTL DEF Spec, StopLeavesNoRunningRow

\* Every entry, step and tool invocation a run commits reaches the registry
\* before the run leaves the map; only a shutdown gives publications up.
THEOREM PublicationsAreNotLost == Spec => []PublicationsReachRegistry
<1>1. RecordsInv => PublicationsReachRegistry
  BY DEF RecordsInv, PublicationsArrive, Talks, PublicationsReachRegistry
<1> QED BY <1>1, RecordsHold, PTL

\* Whoever holds a ticket hears one of the three histories, in step with the
\* entry, and never two closing events.
THEOREM TicketsHearTheirHistory == Spec => []EventsFollowTheEntry
<1>1. RecordsInv => EventsFollowTheEntry
  BY DEF RecordsInv, EventsAreTold
<1> QED BY <1>1, RecordsHold, PTL

=============================================================================
