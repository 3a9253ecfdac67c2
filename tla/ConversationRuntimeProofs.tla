--------------------- MODULE ConversationRuntimeProofs ---------------------
(***************************************************************************)
(* Proofs about ConversationRuntime, for every set of conversations, every *)
(* number of attempts and restarts and every key modulus: the type         *)
(* invariant, and that no live attempt is ever forgotten, from which a     *)
(* conversation never has two and recovery never meets one.                *)
(***************************************************************************)
EXTENDS ConversationRuntime, TLAPS

USE BoundsAreNaturals, KeyModulusIsPositive DEF Attempts, NoAttempt

-----------------------------------------------------------------------------
(* The inductive invariant *)

RunSteps == {"Launching", "Inserting", "Executing", "Awaiting", "Ending",
             "Draining", "Finishing"}

\* Attempts are used in order; one that is not used yet has no tasks.
Born ==
  \A a \in Attempts :
    IF a <= issued THEN Conv(a) \in Conversations
    ELSE task[a] = "None" /\ listener[a] = "None" /\ cleanup[a] = "None"

\* An entry holds the tasks its phase says, of an attempt of its conversation.
EntryHoldsItsTasks(c) ==
  LET a == activeRuns[c].attempt
  IN  /\ ~shuttingDown /\ a \in Attempts /\ Conv(a) = c
      /\ RunStatus(c) = "Submitting" => task[a] = "Writing"
      /\ RunStatus(c) = "Running" => task[a] \in RunSteps /\ cleanup[a] = "None"
      /\ RunStatus(c) = "Stopping" => cleanup[a] \notin {"None", "Done"}

EntriesHoldTheirTasks ==
  \A c \in Conversations : RunStatus(c) # "Idle" => EntryHoldsItsTasks(c)

\* The cleanup begins after the submission and works after the run.
StepsInOrder ==
  \A a \in Attempts :
    /\ task[a] \in {"None", "Writing"} => cleanup[a] = "None"
    /\ cleanup[a] \in {"Cancelling", "Failed", "Done"} => task[a] = "Over"

\* Recovery and attempts exclude each other, and so do recovery and shutdown.
Modes ==
  /\ shuttingDown <=> shutdownTask # "None"
  /\ recoveryTask \in {"Listing", "Sweeping"} => ~shuttingDown /\ IsRunning(recovery)
  /\ ~shuttingDown /\ ~RecoveryReady => \A a \in Attempts : ~Live(a)

\* A shutdown awaits one attempt of a conversation at most.
AwaitedDistinct ==
  /\ ~shuttingDown => awaited = {}
  /\ \A a, b \in awaited : Conv(a) = Conv(b) => a = b

Shape == /\ Born /\ EntriesHoldTheirTasks /\ StepsInOrder /\ Modes
         /\ AwaitedDistinct /\ LiveAttemptIsRegistered

Inv == TypeOK /\ Shape

-----------------------------------------------------------------------------
(* Helpers *)

\* What the recovery operation becomes when it is cancelled, retried or loaded.
LEMMA RecoveryShapes ==
  ASSUME NEW op \in RecoveryOperations
  PROVE  /\ Cancel(op) \in RecoveryOperations
         /\ Retry(op, "RecoveryTask") \in RecoveryOperations
         /\ Load(Idle, "RecoveryTask") \in RecoveryOperations
         /\ IsRunning(Load(Idle, "RecoveryTask"))
         /\ IsRunning(op) => op.phase # "Ready"
         /\ ~IsRunning(Cancel(op))
         /\ op.phase # "Ready" => Retry(op, "RecoveryTask").phase # "Ready"
  BY DEF RecoveryOperations, Cancel, Retry, Load, IsRunning, Fetching, Idle,
         Ready, Unavailable, Degraded, Operation, None

\* The result of a running recovery gives one of the five recovery operations.
LEMMA RecoveryCompletes ==
  ASSUME NEW op \in RecoveryOperations, IsRunning(op), NEW r \in RecoveryResults
  PROVE  Complete(op, r) \in RecoveryOperations
  BY DEF RecoveryOperations, RecoveryResults, Ok, Err, Complete, Retry, Load,
         IsRunning, Fetching, Idle, Ready, Unavailable, Degraded, Operation, None

\* An announcement appends to a sequence of events.
LEMMA AnnounceType ==
  ASSUME TypeOK, NEW a \in Attempts, NEW said \in Seq(Events), Announce(a, said)
  PROVE  announced' \in [Attempts -> Seq(Events)]
  BY DEF TypeOK, RecordTypeOK, Announce

\* A send appends to a sequence of messages or does nothing.
LEMMA PublishType ==
  ASSUME TypeOK, NEW a \in Attempts, NEW what \in Seq(Messages), Publish(a, what)
  PROVE  channel' \in [Attempts -> Seq(Messages)]
  BY DEF TypeOK, TalkTypeOK, Publish

\* What the steps announce are sequences of events.
LEMMA Sayings ==
  /\ <<"SubmissionFailed">> \in Seq(Events)
  /\ <<"Committed", "LaunchFailed">> \in Seq(Events)
  /\ <<"Committed", "Started">> \in Seq(Events)
  /\ <<"Finished">> \in Seq(Events)
  /\ <<"Crashed">> \in Seq(Events)
  /\ <<>> \in Seq(Events)
  BY DEF Events

\* What the steps publish are sequences of messages.
LEMMA Posts ==
  /\ <<"Started", "Timeline">> \in Seq(Messages)
  /\ <<"Timeline">> \in Seq(Messages)
  /\ <<"Approval">> \in Seq(Messages)
  /\ <<"Commit">> \in Seq(Messages)
  /\ <<"Drain">> \in Seq(Messages)
  /\ <<>> \in Seq(Messages)
  BY DEF Messages

USE DEF storeVars, runVars, stopVars, recoveryVars, shutdownVars, historyVars,
        SetEntry, Entry, Step, Vacate, Conv, RunStatus, Vacant, Entries, Tickets,
        TaskSteps, CleanupSteps, RunSteps

\* A live attempt of an open runtime matches its entry by its phase alone, and
\* in a runtime that shuts down nothing matches.
LEMMA MatchesByPhase ==
  ASSUME Inv, NEW a \in Attempts, Live(a), NEW phases,
         phases \subseteq {"Submitting", "Running", "Stopping"}
  PROVE  /\ Conv(a) \in Conversations
         /\ Matches(a, phases) <=> ~shuttingDown /\ RunStatus(Conv(a)) \in phases
         /\ ~shuttingDown => activeRuns[Conv(a)].attempt = a
  BY
     DEF Inv, Shape, Born, Live, LiveAttemptIsRegistered, EntriesHoldTheirTasks,
         EntryHoldsItsTasks,
         Matches

\* The entry of conversation c becomes entry, on behalf of attempt a.
Moves(a, c, entry) ==
  /\ ~shuttingDown /\ UNCHANGED shuttingDown
  /\ activeRuns' = [activeRuns EXCEPT ![c] = entry]
  /\ ticket'[a].conversation = c
  /\ Live(a) => Conv(a) = c
  /\ \A b \in Attempts \ {a} :
       ticket'[b] = ticket[b] /\ task'[b] = task[b] /\ cleanup'[b] = cleanup[b]
  /\ \A b \in Attempts \ {a} : Live(b) => Conv(b) # c
  /\ \/ entry = Vacant /\ ~Live(a)'
     \/ /\ entry \in Entries /\ entry.attempt = a
        /\ entry.phase =
             CASE task'[a] = "Writing"  -> "Submitting"
               [] cleanup'[a] # "None"  -> "Stopping"
               [] OTHER                 -> "Running"
        /\ entry.phase = "Submitting" => cleanup'[a] = "None"
        /\ entry.phase = "Running" => task'[a] \in RunSteps
        /\ entry.phase = "Stopping" => cleanup'[a] # "Done"

\* Moving an entry together with the tasks it holds keeps both halves of the
\* correspondence between entries and live attempts.
LEMMA MovesKeepsEntries ==
  ASSUME Inv, NEW a \in Attempts, NEW c \in Conversations, NEW entry,
         Moves(a, c, entry)
  PROVE  EntriesHoldTheirTasks' /\ LiveAttemptIsRegistered'
<1>0. TypeOK BY DEF Inv
<1>1. EntriesHoldTheirTasks'
  <2> SUFFICES ASSUME NEW d \in Conversations, RunStatus(d)' # "Idle"
               PROVE  EntryHoldsItsTasks(d)'
    BY DEF EntriesHoldTheirTasks
  <2>1. CASE d = c
    BY <1>0, <2>1 DEF TypeOK, StoreTypeOK, Moves, EntryHoldsItsTasks
  <2>2. CASE d # c
    <3>1. activeRuns'[d] = activeRuns[d] /\ RunStatus(d) # "Idle"
      BY <1>0, <2>2 DEF TypeOK, StoreTypeOK, Moves
    <3> DEFINE b == activeRuns[d].attempt
    <3>2. EntryHoldsItsTasks(d)
      BY <3>1 DEF Inv, Shape, EntriesHoldTheirTasks
    <3>3. b \in Attempts /\ Conv(b) = d /\ Live(b)
      BY <1>0, <3>1, <3>2 DEF TypeOK, StoreTypeOK, EntryHoldsItsTasks, Live
    <3>4. b # a
      BY <2>2, <3>3 DEF Moves
    <3>5. ticket'[b] = ticket[b] /\ task'[b] = task[b] /\ cleanup'[b] = cleanup[b]
          /\ shuttingDown' = shuttingDown
      BY <3>3, <3>4 DEF Moves
    <3> QED BY <3>1, <3>2, <3>3, <3>5 DEF EntryHoldsItsTasks
  <2> QED BY <2>1, <2>2
<1>2. LiveAttemptIsRegistered'
  BY <1>0 DEF Inv, Shape, TypeOK, StoreTypeOK, EntriesHoldTheirTasks,
     EntryHoldsItsTasks, LiveAttemptIsRegistered, Live, Moves, Born
<1> QED BY <1>1, <1>2

-----------------------------------------------------------------------------
(* What the steps that move no entry keep *)

shapeVars == <<activeRuns, ticket, issued, shuttingDown, recovery, recoveryTask,
               shutdownTask, awaited>>

\* A step that moves no entry and no task keeps the shape.
LEMMA QuietKeepsShape ==
  ASSUME Inv, UNCHANGED <<shapeVars, task, cleanup, listener>>
  PROVE  Shape'
  BY DEF Inv, Shape, Born, EntriesHoldTheirTasks, EntryHoldsItsTasks, StepsInOrder,
         Modes, AwaitedDistinct, LiveAttemptIsRegistered, Live, RecoveryReady, shapeVars

\* So does a run that goes from one of its steps to another.
LEMMA RunStepKeepsShape ==
  ASSUME Inv, NEW a \in Attempts, NEW s \in RunSteps, task[a] \in RunSteps,
         task' = [task EXCEPT ![a] = s], UNCHANGED <<shapeVars, cleanup, listener>>
  PROVE  Shape'
<1> USE DEF Inv, Shape, TypeOK, AttemptTypeOK, shapeVars
<1>1. Born'
  BY DEF Born
<1>2. EntriesHoldTheirTasks'
  BY DEF EntriesHoldTheirTasks, EntryHoldsItsTasks
<1>3. StepsInOrder'
  BY DEF StepsInOrder
<1>4. Modes'
  BY DEF Modes, Live, RecoveryReady
<1>5. AwaitedDistinct'
  BY DEF AwaitedDistinct
<1>6. LiveAttemptIsRegistered'
  BY DEF LiveAttemptIsRegistered, Live
<1> QED BY <1>1, <1>2, <1>3, <1>4, <1>5, <1>6

\* So does a cleanup that goes on and does not end.
LEMMA CleanupStepKeepsShape ==
  ASSUME Inv, NEW a \in Attempts, NEW s \in {"Cancelling", "Failed"},
         task[a] = "Over", cleanup[a] \notin {"None", "Done"},
         cleanup' = [cleanup EXCEPT ![a] = s], UNCHANGED <<shapeVars, task, listener>>
  PROVE  Shape'
<1> USE DEF Inv, Shape, TypeOK, CleanupTypeOK, shapeVars
<1>1. Born'
  BY DEF Born
<1>2. EntriesHoldTheirTasks'
  BY DEF EntriesHoldTheirTasks, EntryHoldsItsTasks
<1>3. StepsInOrder'
  BY DEF StepsInOrder
<1>4. Modes'
  BY DEF Modes, Live, RecoveryReady
<1>5. AwaitedDistinct'
  BY DEF AwaitedDistinct
<1>6. LiveAttemptIsRegistered'
  BY DEF LiveAttemptIsRegistered, Live
<1> QED BY <1>1, <1>2, <1>3, <1>4, <1>5, <1>6

-----------------------------------------------------------------------------
(* The steps that move an entry *)

\* What MovesKeepsEntries leaves of Shape, for a task of a that moves and
\* leaves the modes alone.
LEMMA TaskMoveKeepsTheRest ==
  ASSUME Inv, NEW a \in Attempts, a <= issued,
         UNCHANGED <<ticket, issued, shuttingDown, recovery, recoveryTask,
                     shutdownTask, awaited>>,
         \A b \in Attempts \ {a} :
           /\ task'[b] = task[b] /\ cleanup'[b] = cleanup[b]
           /\ listener[b] = "None" => listener'[b] = "None",
         task'[a] \in {"None", "Writing"} => cleanup'[a] = "None",
         cleanup'[a] \in {"Cancelling", "Failed", "Done"} => task'[a] = "Over",
         Live(a) \/ RecoveryReady
  PROVE  Born' /\ StepsInOrder' /\ Modes' /\ AwaitedDistinct'
<1> USE DEF Inv, Shape
<1>1. Born'
  BY DEF Born
<1>2. StepsInOrder'
  BY DEF StepsInOrder
<1>3. Modes'
  BY DEF Modes, Live, RecoveryReady
<1>4. AwaitedDistinct'
  BY DEF AwaitedDistinct
<1> QED BY <1>1, <1>2, <1>3, <1>4

\* In a runtime that shuts down, a task that ends disturbs no entry.
LEMMA OffstageKeepsEntries ==
  ASSUME Inv, shuttingDown,
         UNCHANGED <<activeRuns, shuttingDown, ticket, shutdownTask, awaited>>,
         \A b \in Attempts : Live(b)' => Live(b)
  PROVE  EntriesHoldTheirTasks' /\ LiveAttemptIsRegistered'
  BY DEF Inv, Shape, EntriesHoldTheirTasks, EntryHoldsItsTasks, LiveAttemptIsRegistered

\* A live attempt is alone in its conversation while the runtime is open.
LEMMA AloneInItsConversation ==
  ASSUME Inv, ~shuttingDown, NEW a \in Attempts, Live(a)
  PROVE  \A b \in Attempts \ {a} : Live(b) => Conv(b) # Conv(a)
  BY DEF Inv, Shape, LiveAttemptIsRegistered

\* A submission takes an idle conversation with a new attempt.
LEMMA SubmitKeepsShape ==
  ASSUME Inv, NEW c \in Conversations, Submit(c)
  PROVE  Shape'
<1> DEFINE a == issued + 1
<1> USE DEF Inv, Shape, TypeOK, StoreTypeOK, AttemptTypeOK, CleanupTypeOK
<1>1. a \in Attempts /\ ~shuttingDown /\ RunStatus(c) = "Idle" /\ RecoveryReady
  BY DEF Submit, Open
<1>2. /\ issued' = a
      /\ ticket'[a].conversation = c
      /\ task' = [task EXCEPT ![a] = "Writing"]
      /\ \A b \in Attempts \ {a} : ticket'[b] = ticket[b]
      /\ UNCHANGED <<shuttingDown, recovery, recoveryTask, shutdownTask, awaited,
                     cleanup, listener>>
  BY <1>1 DEF Submit
<1>3. ~Live(a) /\ cleanup[a] = "None" /\ listener[a] = "None"
  BY <1>1 DEF Born, Live
<1>4. Moves(a, c, Entry("Submitting", a, FALSE))
  <2>1. \A b \in Attempts : Live(b) => RunStatus(Conv(b)) # "Idle"
    BY <1>1 DEF LiveAttemptIsRegistered
  <2>2. activeRuns' = [activeRuns EXCEPT ![c] = Entry("Submitting", a, FALSE)]
    BY DEF Submit
  <2>3. Entry("Submitting", a, FALSE) \in Entries
    BY <1>1
  <2> QED BY <1>1, <1>2, <1>3, <2>1, <2>2, <2>3 DEF Moves
<1>5. EntriesHoldTheirTasks' /\ LiveAttemptIsRegistered'
  BY <1>1, <1>4, MovesKeepsEntries
<1>6. Born'
  <2> SUFFICES ASSUME NEW b \in Attempts
               PROVE  IF b <= issued' THEN Conv(b)' \in Conversations
                      ELSE task'[b] = "None" /\ listener'[b] = "None" /\ cleanup'[b] = "None"
    BY DEF Born
  <2>1. CASE b = a
    BY <2>1, <1>1, <1>2
  <2>2. CASE b # a
    BY <2>2, <1>1, <1>2 DEF Born
  <2> QED BY <2>1, <2>2
<1>7. StepsInOrder'
  BY <1>1, <1>2, <1>3 DEF StepsInOrder
<1>8. Modes'
  BY <1>1, <1>2 DEF Modes, Live, RecoveryReady
<1>9. AwaitedDistinct'
  BY <1>1, <1>2 DEF AwaitedDistinct
<1> QED BY <1>5, <1>6, <1>7, <1>8, <1>9

\* A failed submission leaves its entry, unless a shutdown removed it.
LEMMA RejectSubmissionKeepsShape ==
  ASSUME Inv, NEW a \in Attempts, RejectSubmission(a)
  PROVE  Shape'
<1> USE DEF Inv, Shape, TypeOK, StoreTypeOK, AttemptTypeOK
<1>1. Live(a) /\ a <= issued /\ task[a] = "Writing" /\ cleanup[a] = "None"
  BY DEF RejectSubmission, Live, Born, StepsInOrder
<1>2. Born' /\ StepsInOrder' /\ Modes' /\ AwaitedDistinct'
  BY <1>1, TaskMoveKeepsTheRest DEF RejectSubmission
<1>3. CASE shuttingDown
  BY <1>3, <1>1, MatchesByPhase, OffstageKeepsEntries, <1>2 DEF RejectSubmission, Live
<1>4. CASE ~shuttingDown
  <2>1. Matches(a, {"Submitting"}) /\ Conv(a) \in Conversations
    BY <1>1, <1>4, MatchesByPhase DEF LiveAttemptIsRegistered
  <2>2. Moves(a, Conv(a), Vacant)
    BY <2>1, <1>1, <1>4, AloneInItsConversation DEF RejectSubmission, Moves, Live
  <2> QED BY <2>1, <2>2, <1>2, MovesKeepsEntries
<1> QED BY <1>3, <1>4

\* So does one that was committed and cannot start its run.
LEMMA RefuseLaunchKeepsShape ==
  ASSUME Inv, NEW a \in Attempts, RefuseLaunch(a)
  PROVE  Shape'
<1> USE DEF Inv, Shape, TypeOK, StoreTypeOK, AttemptTypeOK
<1>1. Live(a) /\ a <= issued /\ task[a] = "Writing" /\ cleanup[a] = "None"
  BY DEF RefuseLaunch, Live, Born, StepsInOrder
<1>2. Born' /\ StepsInOrder' /\ Modes' /\ AwaitedDistinct'
  BY <1>1, TaskMoveKeepsTheRest DEF RefuseLaunch
<1>3. CASE shuttingDown
  BY <1>3, <1>1, MatchesByPhase, OffstageKeepsEntries, <1>2 DEF RefuseLaunch, Live
<1>4. CASE ~shuttingDown
  <2>1. Matches(a, {"Submitting"}) /\ Conv(a) \in Conversations
    BY <1>1, <1>4, MatchesByPhase DEF LiveAttemptIsRegistered
  <2>2. Moves(a, Conv(a), Vacant)
    BY <2>1, <1>1, <1>4, AloneInItsConversation DEF RefuseLaunch, Moves, Live
  <2> QED BY <2>1, <2>2, <1>2, MovesKeepsEntries
<1> QED BY <1>3, <1>4

\* The run replaces the submission in the entry.
LEMMA LaunchRunKeepsShape ==
  ASSUME Inv, NEW a \in Attempts, LaunchRun(a)
  PROVE  Shape'
<1> USE DEF Inv, Shape, TypeOK, StoreTypeOK, AttemptTypeOK, TalkTypeOK
<1>1. Live(a) /\ a <= issued /\ task[a] = "Writing" /\ cleanup[a] = "None" /\ ~shuttingDown
  BY DEF LaunchRun, Open, Live, Born, StepsInOrder
<1>2. Matches(a, {"Submitting"}) /\ Conv(a) \in Conversations
  BY <1>1, MatchesByPhase DEF LiveAttemptIsRegistered
<1>3. task' = [task EXCEPT ![a] = "Launching"]
  BY <1>2 DEF LaunchRun
<1>4. Born' /\ StepsInOrder' /\ Modes' /\ AwaitedDistinct'
  BY <1>1, <1>2, <1>3, TaskMoveKeepsTheRest DEF LaunchRun
<1>5. Moves(a, Conv(a), Entry("Running", a, FALSE))
  BY <1>1, <1>2, <1>3, AloneInItsConversation DEF LaunchRun, Moves, Live
<1> QED BY <1>2, <1>4, <1>5, MovesKeepsEntries

\* The end of a run vacates its entry, or leaves it to the stop that took it.
LEMMA FinishRunKeepsShape ==
  ASSUME Inv, NEW a \in Attempts, FinishRun(a)
  PROVE  Shape'
<1> USE DEF Inv, Shape, TypeOK, StoreTypeOK, AttemptTypeOK, TalkTypeOK, CleanupTypeOK
<1>1. Live(a) /\ a <= issued /\ task[a] = "Finishing" /\ task' = [task EXCEPT ![a] = "Over"]
      /\ UNCHANGED cleanup /\ UNCHANGED ticket
  BY DEF FinishRun, Live, Born
<1>2. Born' /\ StepsInOrder' /\ Modes' /\ AwaitedDistinct'
  <2>1. \A b \in Attempts \ {a} : listener'[b] = listener[b]
    BY DEF FinishRun, Release, DropListener
  <2>2. UNCHANGED <<issued, shuttingDown, recovery, recoveryTask, shutdownTask, awaited>>
    BY DEF FinishRun
  <2>3. cleanup[a] \notin {"Cancelling", "Failed", "Done"}
    BY <1>1 DEF StepsInOrder
  <2> QED BY <1>1, <2>1, <2>2, <2>3, TaskMoveKeepsTheRest
<1>3. CASE shuttingDown
  BY <1>3, <1>1, <1>2, MatchesByPhase, OffstageKeepsEntries DEF FinishRun, Live
<1>4. CASE ~shuttingDown /\ RunStatus(Conv(a)) = "Running"
  <2>1. Matches(a, {"Running"}) /\ Conv(a) \in Conversations /\ activeRuns[Conv(a)].attempt = a
    BY <1>1, <1>4, MatchesByPhase
  <2>2. cleanup[a] = "None"
    <3>1. EntryHoldsItsTasks(Conv(a))
      BY <2>1, <1>4 DEF EntriesHoldTheirTasks
    <3> QED BY <2>1, <3>1, <1>4 DEF EntryHoldsItsTasks
  <2>3. Moves(a, Conv(a), Vacant)
    BY <2>1, <2>2, <1>1, <1>4, AloneInItsConversation DEF FinishRun, Release, Moves, Live
  <2> QED BY <2>1, <2>3, <1>2, MovesKeepsEntries
<1>5. CASE ~shuttingDown /\ RunStatus(Conv(a)) # "Running"
  <2> DEFINE c == Conv(a)
  <2>1. ~Matches(a, {"Running"}) /\ c \in Conversations /\ activeRuns[c].attempt = a
    <3>1. c \in Conversations /\ activeRuns[c].attempt = a
      BY <1>1, <1>5, MatchesByPhase
    <3>2. ~Matches(a, {"Running"})
      BY <1>5 DEF Matches
    <3> QED BY <3>1, <3>2
  <2>2. RunStatus(c) = "Stopping"
    BY <1>1, <1>5 DEF LiveAttemptIsRegistered
  <2>3. cleanup[a] \notin {"None", "Done"}
    BY <2>1, <2>2 DEF EntriesHoldTheirTasks, EntryHoldsItsTasks
  <2>4. activeRuns' = [activeRuns EXCEPT ![c] = activeRuns[c]] /\ activeRuns[c] \in Entries
    BY <2>1 DEF FinishRun
  <2>5. Moves(a, c, activeRuns[c])
    BY <2>1, <2>2, <2>3, <2>4, <1>1, <1>5, AloneInItsConversation
     DEF FinishRun, Moves, Live
  <2> QED BY <2>1, <2>5, <1>2, MovesKeepsEntries
<1> QED BY <1>3, <1>4, <1>5

\* A publication only marks the entry whose run is known by now.
LEMMA ListenKeepsShape ==
  ASSUME Inv, NEW a \in Attempts, Listen(a)
  PROVE  Shape'
<1> USE DEF Inv, Shape, TypeOK, StoreTypeOK, AttemptTypeOK, TalkTypeOK, CleanupTypeOK
<1> DEFINE c == Conv(a)
           b == activeRuns[c].attempt
<1>1. /\ c \in Conversations
      /\ UNCHANGED <<ticket, issued, shuttingDown, recovery, recoveryTask, shutdownTask,
                     awaited, task, cleanup>>
      /\ \A d \in Attempts : listener[d] = "None" <=> listener'[d] = "None"
  BY DEF Listen, Born
<1>2. Born' /\ StepsInOrder' /\ Modes' /\ AwaitedDistinct'
  BY <1>1 DEF Born, StepsInOrder, Modes, AwaitedDistinct, Live, RecoveryReady
<1>3. CASE UNCHANGED activeRuns
  <2>1. EntriesHoldTheirTasks'
    BY <1>1, <1>3 DEF EntriesHoldTheirTasks, EntryHoldsItsTasks
  <2>2. LiveAttemptIsRegistered'
    BY <1>1, <1>3 DEF LiveAttemptIsRegistered, Live
  <2> QED BY <1>2, <2>1, <2>2
<1>4. CASE Matches(a, {"Running"}) /\ SetEntry(c, Entry("Running", b, TRUE))
  <2>1. RunStatus(c) = "Running" /\ EntryHoldsItsTasks(c)
    BY <1>1, <1>4 DEF Matches, EntriesHoldTheirTasks
  <2>2. Live(b) /\ b \in Attempts /\ Conv(b) = c /\ ~shuttingDown
    BY <2>1 DEF EntryHoldsItsTasks, Live
  <2>3. Entry("Running", b, TRUE) \in Entries /\ task[b] \in RunSteps /\ cleanup[b] = "None"
    BY <2>1, <2>2 DEF EntryHoldsItsTasks
  <2>4. \A d \in Attempts \ {b} : Live(d) => Conv(d) # c
    BY <2>2, AloneInItsConversation
  <2>5. task'[b] \in RunSteps /\ cleanup'[b] = "None" /\ ticket'[b].conversation = c
    BY <1>1, <2>2, <2>3
  <2>6. Moves(b, c, Entry("Running", b, TRUE))
    <3> HIDE DEF b, c
    <3> QED BY <1>1, <1>4, <2>2, <2>3, <2>4, <2>5 DEF Moves
  <2> QED BY <1>1, <1>2, <2>2, <2>6, MovesKeepsEntries
<1>5. UNCHANGED activeRuns \/ (Matches(a, {"Running"}) /\ SetEntry(c, Entry("Running", b, TRUE)))
  BY DEF Listen
<1> QED BY <1>2, <1>3, <1>4, <1>5

\* A stop keeps the run in the entry and adds its cleanup.
LEMMA StopRunKeepsShape ==
  ASSUME Inv, NEW c \in Conversations, NEW persistence \in BOOLEAN, StopRun(c, persistence)
  PROVE  Shape'
<1> USE DEF Inv, Shape, TypeOK, StoreTypeOK, AttemptTypeOK, TalkTypeOK, CleanupTypeOK
<1> DEFINE a == activeRuns[c].attempt
           entry == Entry("Stopping", a, activeRuns[c].runKnown)
<1>1. RunStatus(c) = "Running" /\ EntryHoldsItsTasks(c)
  BY DEF StopRun, EntriesHoldTheirTasks
<1>2. a \in Attempts /\ Conv(a) = c /\ ~shuttingDown /\ task[a] \in RunSteps /\ Live(a)
  BY <1>1 DEF EntryHoldsItsTasks, Live
<1>3. /\ cleanup'[a] \in {"AwaitRun", "AwaitRunOffline"}
      /\ \A b \in Attempts \ {a} : cleanup'[b] = cleanup[b]
      /\ UNCHANGED <<ticket, issued, shuttingDown, recovery, recoveryTask, shutdownTask,
                     awaited, task, listener>>
  BY <1>2 DEF StopRun
<1>4. a <= issued
  BY <1>2 DEF Born
<1>5. Born' /\ StepsInOrder' /\ Modes' /\ AwaitedDistinct'
  BY <1>2, <1>3, <1>4, TaskMoveKeepsTheRest
<1>6. activeRuns' = [activeRuns EXCEPT ![c] = entry] /\ entry \in Entries
  BY <1>2 DEF StopRun
<1>7. \A b \in Attempts \ {a} : Live(b) => Conv(b) # c
  BY <1>2, AloneInItsConversation
<1>8. ticket'[a].conversation = c /\ task'[a] \in RunSteps
  BY <1>2, <1>3
<1>9. Moves(a, c, entry)
  <2> HIDE DEF a
  <2> QED BY <1>2, <1>3, <1>6, <1>7, <1>8 DEF Moves
<1> QED BY <1>2, <1>5, <1>9, MovesKeepsEntries

\* The end of a cleanup vacates the entry.
LEMMA FinishStopKeepsShape ==
  ASSUME Inv, NEW a \in Attempts, FinishStop(a)
  PROVE  Shape'
<1> USE DEF Inv, Shape, TypeOK, StoreTypeOK, AttemptTypeOK, TalkTypeOK, CleanupTypeOK
<1>1. Live(a) /\ a <= issued /\ task[a] = "Over" /\ cleanup[a] \in {"Cancelling", "Failed"}
  BY DEF FinishStop, Live, Born, StepsInOrder
<1>2. cleanup' = [cleanup EXCEPT ![a] = "Done"] /\ UNCHANGED <<ticket, task>>
  BY DEF FinishStop
<1>3. Born' /\ StepsInOrder' /\ Modes' /\ AwaitedDistinct'
  BY <1>1, <1>2, TaskMoveKeepsTheRest DEF FinishStop, Release, DropListener
<1>4. CASE shuttingDown
  BY <1>1, <1>2, <1>3, <1>4, MatchesByPhase, OffstageKeepsEntries DEF FinishStop, Live
<1>5. CASE ~shuttingDown
  <2>1. RunStatus(Conv(a)) = "Stopping"
    BY <1>1, <1>5 DEF LiveAttemptIsRegistered
  <2>2. Matches(a, {"Stopping"}) /\ Conv(a) \in Conversations
    BY <1>1, <1>5, <2>1, MatchesByPhase
  <2>3. Moves(a, Conv(a), Vacant)
    BY <2>2, <1>1, <1>2, <1>5, AloneInItsConversation DEF FinishStop, Release, Moves, Live
  <2> QED BY <2>2, <2>3, <1>3, MovesKeepsEntries
<1> QED BY <1>4, <1>5

-----------------------------------------------------------------------------
(* The steps that change the mode of the runtime *)

\* A shutdown drops the submissions and awaits what else is live.
LEMMA ShutdownAllKeepsShape ==
  ASSUME Inv, ShutdownAll
  PROVE  Shape'
<1> USE DEF Inv, Shape, TypeOK, StoreTypeOK, AttemptTypeOK, CleanupTypeOK
<1> DEFINE held(phases) ==
             {activeRuns[c].attempt : c \in {d \in Conversations : RunStatus(d) \in phases}}
           submitting == held({"Submitting"})
           running == held({"Running", "Stopping"})
<1>1. /\ ~shuttingDown /\ shuttingDown' = TRUE /\ shutdownTask' = "Waiting"
      /\ awaited' = running
      /\ activeRuns' = [c \in Conversations |-> Vacant]
      /\ task' = [a \in Attempts |-> IF a \in submitting THEN "Over" ELSE task[a]]
      /\ UNCHANGED <<ticket, issued, cleanup, listener>>
      /\ recovery' = Cancel(recovery)
      /\ recoveryTask' = IF IsRunning(recovery) THEN "Dropped" ELSE recoveryTask
  BY DEF ShutdownAll
<1>2. \A c \in Conversations : RunStatus(c) # "Idle" => EntryHoldsItsTasks(c)
  BY DEF EntriesHoldTheirTasks
<1>3. \A a \in submitting : a \in Attempts /\ task[a] = "Writing"
  BY <1>2 DEF EntryHoldsItsTasks
<1>4. \A a \in running : a \in Attempts /\ RunStatus(Conv(a)) \in {"Running", "Stopping"}
                           /\ activeRuns[Conv(a)].attempt = a
  BY <1>2 DEF EntryHoldsItsTasks
<1>5. Born'
  BY <1>1, <1>3 DEF Born
<1>6. EntriesHoldTheirTasks'
  BY <1>1 DEF EntriesHoldTheirTasks
<1>7. StepsInOrder'
  BY <1>1, <1>3 DEF StepsInOrder
<1>8. Modes'
  BY <1>1, RecoveryShapes DEF Modes
<1>9. AwaitedDistinct'
  <2>1. \A a, b \in running : Conv(a) = Conv(b) => a = b
    <3> HIDE DEF running
    <3> SUFFICES ASSUME NEW a \in running, NEW b \in running, Conv(a) = Conv(b)
                 PROVE  a = b
      OBVIOUS
    <3>1. activeRuns[Conv(a)].attempt = a
      BY <1>4
    <3>2. activeRuns[Conv(b)].attempt = b
      BY <1>4
    <3> QED BY <3>1, <3>2
  <2> HIDE DEF running
  <2> QED BY <1>1, <2>1 DEF AwaitedDistinct
<1>10. LiveAttemptIsRegistered'
  <2> SUFFICES ASSUME NEW a \in Attempts, Live(a)'
               PROVE  a \in running
    BY <1>1 DEF LiveAttemptIsRegistered
  <2>1. Live(a)
    BY <1>1 DEF Live
  <2>2. Conv(a) \in Conversations /\ activeRuns[Conv(a)].attempt = a
    BY <1>1, <2>1, MatchesByPhase
  <2>3. RunStatus(Conv(a)) \in {"Submitting", "Running", "Stopping"}
    BY <1>1, <2>1 DEF LiveAttemptIsRegistered
  <2>4. CASE RunStatus(Conv(a)) = "Submitting"
    <3>1. a \in submitting /\ task[a] = "Writing"
      BY <1>3, <2>2, <2>4
    <3>2. task'[a] = "Over" /\ cleanup'[a] = "None"
      BY <1>1, <3>1 DEF StepsInOrder
    <3> QED BY <3>2 DEF Live
  <2> QED BY <2>2, <2>3, <2>4
<1> QED BY <1>5, <1>6, <1>7, <1>8, <1>9, <1>10

\* The end of a shutdown comes after the end of every live attempt.
LEMMA ShutdownDoneKeepsShape ==
  ASSUME Inv, ShutdownDone
  PROVE  Shape'
<1> USE DEF Inv, Shape, TypeOK, StoreTypeOK, AttemptTypeOK, CleanupTypeOK
<1>1. /\ UNCHANGED <<activeRuns, ticket, issued, shuttingDown, recovery,
                     recoveryTask, awaited, task, cleanup, listener>>
      /\ shutdownTask' = "Done" /\ shutdownTask = "Waiting"
  BY DEF ShutdownDone
<1>2. shuttingDown
  BY <1>1 DEF Modes
<1>3. \A a \in Attempts : ~Live(a)
  <2> SUFFICES ASSUME NEW a \in Attempts, Live(a) PROVE FALSE
    OBVIOUS
  <2>1. EntryTaskOver(a)
    BY <1>2 DEF LiveAttemptIsRegistered, ShutdownDone
  <2> QED BY <2>1 DEF EntryTaskOver, Live, StepsInOrder
<1>4. Born' /\ EntriesHoldTheirTasks' /\ StepsInOrder' /\ AwaitedDistinct'
  BY <1>1
     DEF Born, EntriesHoldTheirTasks, EntryHoldsItsTasks, StepsInOrder, AwaitedDistinct
<1>5. Modes'
  BY <1>1, <1>2 DEF Modes
<1>6. LiveAttemptIsRegistered'
  BY <1>1, <1>3 DEF LiveAttemptIsRegistered, Live
<1> QED BY <1>4, <1>5, <1>6

\* A step of the recovery alone, while the runtime is open.
LEMMA RecoveryKeepsShape ==
  ASSUME Inv, UNCHANGED <<activeRuns, ticket, issued, shuttingDown, shutdownTask, awaited,
                          task, cleanup, listener>>,
         recoveryTask' \in {"Listing", "Sweeping"} => ~shuttingDown /\ IsRunning(recovery'),
         RecoveryReady => RecoveryReady'
  PROVE  Shape'
  BY DEF Inv, Shape, Born, EntriesHoldTheirTasks, EntryHoldsItsTasks, StepsInOrder,
         AwaitedDistinct, LiveAttemptIsRegistered, Modes, Live

\* Nothing is live in a new process.
LEMMA RestartKeepsShape ==
  ASSUME Inv, Restart
  PROVE  Shape'
<1> USE DEF Inv, Shape, TypeOK, AttemptTypeOK
<1>1. \A a \in Attempts : ~Live(a)'
  BY DEF Restart, Live
<1>2. Born'
  BY DEF Restart, Born
<1>3. EntriesHoldTheirTasks'
  BY DEF Restart, FreshStore, EntriesHoldTheirTasks
<1>4. StepsInOrder'
  BY DEF Restart, StepsInOrder
<1>5. Modes'
  BY <1>1, RecoveryShapes DEF Restart, FreshStore, Modes, RecoveryOperations
<1>6. AwaitedDistinct'
  BY DEF Restart, FreshStore, AwaitedDistinct
<1>7. LiveAttemptIsRegistered'
  BY <1>1 DEF LiveAttemptIsRegistered
<1> QED BY <1>2, <1>3, <1>4, <1>5, <1>6, <1>7

-----------------------------------------------------------------------------
(* Types *)

USE DEF RunFrame, CleanupFrame, RecoveryFrame, FinishRow

\* Types, under Submit.
LEMMA SubmitKeepsTypes ==
  ASSUME Inv, NEW c \in Conversations, Submit(c)
  PROVE  TypeOK'
<1> USE DEF Inv, TypeOK, StoreTypeOK, AttemptTypeOK, TalkTypeOK, CleanupTypeOK, RecordTypeOK
<1>1. StoreTypeOK'
  <2>1. activeRuns' \in [Conversations -> Entries]
    BY DEF Submit
  <2>2. nextRunKey' \in 0..(KeyModulus - 1)
    BY DEF Submit
  <2>3. lastErrors' \subseteq Conversations /\ UNCHANGED <<shuttingDown, recovery, retained>>
    BY DEF Submit
  <2> QED BY <2>1, <2>2, <2>3
<1>2. AttemptTypeOK'
  BY DEF Submit
<1>3. TalkTypeOK'
  BY DEF Submit
<1>4. CleanupTypeOK'
  BY DEF Submit
<1>5. RecordTypeOK'
  BY DEF Submit
<1> QED BY <1>1, <1>2, <1>3, <1>4, <1>5

\* Types, under LaunchRun.
LEMMA LaunchRunKeepsTypes ==
  ASSUME Inv, NEW a \in Attempts, LaunchRun(a)
  PROVE  TypeOK'
<1> USE DEF Inv, TypeOK, StoreTypeOK, AttemptTypeOK, TalkTypeOK, CleanupTypeOK, RecordTypeOK
<1>1. Conv(a) \in Conversations
  BY MatchesByPhase DEF LaunchRun, Live
<1>2. StoreTypeOK'
  <2>1. activeRuns' \in [Conversations -> Entries]
    <3>1. Entry("Running", a, FALSE) \in Entries
      OBVIOUS
    <3>2. UNCHANGED activeRuns \/ SetEntry(Conv(a), Entry("Running", a, FALSE))
      BY DEF LaunchRun
    <3>3. activeRuns \in [Conversations -> Entries]
      OBVIOUS
    <3> HIDE DEF Inv, Entries, Entry
    <3> QED BY <1>1, <3>1, <3>2, <3>3
  <2>2. retained' \subseteq Conversations /\ lastErrors' \subseteq Conversations
    BY <1>1 DEF LaunchRun
  <2>3. UNCHANGED <<nextRunKey, shuttingDown, recovery>>
    BY DEF LaunchRun
  <2> QED BY <2>1, <2>2, <2>3
<1>3. AttemptTypeOK'
  <2>1. task' = [task EXCEPT ![a] = "Launching"] \/ task' = [task EXCEPT ![a] = "Over"]
    BY DEF LaunchRun
  <2>2. UNCHANGED <<issued, ticket, failed, cancelled>>
    BY DEF LaunchRun
  <2> QED BY <2>1, <2>2
<1>4. TalkTypeOK'
  BY DEF LaunchRun
<1>5. CleanupTypeOK'
  BY DEF LaunchRun
<1>6. RecordTypeOK'
  BY AnnounceType, Sayings DEF LaunchRun
<1> QED BY <1>2, <1>3, <1>4, <1>5, <1>6

\* Types, under FinishRun.
LEMMA FinishRunKeepsTypes ==
  ASSUME Inv, NEW a \in Attempts, FinishRun(a)
  PROVE  TypeOK'
<1> USE DEF Inv, TypeOK, StoreTypeOK, AttemptTypeOK, TalkTypeOK, CleanupTypeOK, RecordTypeOK
<1>1. Conv(a) \in Conversations
  BY MatchesByPhase DEF FinishRun, Live
<1>2. StoreTypeOK'
  <2>1. activeRuns' \in [Conversations -> Entries]
    BY <1>1 DEF FinishRun, Release
  <2>2. retained' \subseteq Conversations /\ lastErrors' \subseteq Conversations
    BY <1>1 DEF FinishRun, Release
  <2>3. UNCHANGED <<nextRunKey, shuttingDown, recovery>>
    BY DEF FinishRun
  <2> QED BY <2>1, <2>2, <2>3
<1>3. AttemptTypeOK'
  BY DEF FinishRun
<1>4. TalkTypeOK'
  <2>1. channel' \in [Attempts -> Seq(Messages)]
    <3>1. UNCHANGED channel \/ channel' = [channel EXCEPT ![a] = <<>>]
      BY DEF FinishRun, Release, DropListener
    <3> QED BY <3>1, Posts
  <2>2. pending' \in [Attempts -> BOOLEAN] /\ UNCHANGED decision
    BY DEF FinishRun, Release
  <2>3. listener' \in [Attempts -> {"None", "Listening", "Ended"}]
    BY DEF FinishRun, Release, DropListener
  <2> QED BY <2>1, <2>2, <2>3
<1>5. CleanupTypeOK'
  BY DEF FinishRun
<1>6. RecordTypeOK'
  BY AnnounceType, Sayings DEF FinishRun, Release, DropListener
<1> QED BY <1>2, <1>3, <1>4, <1>5, <1>6

\* Types, under FinishStop.
LEMMA FinishStopKeepsTypes ==
  ASSUME Inv, NEW a \in Attempts, FinishStop(a)
  PROVE  TypeOK'
<1> USE DEF Inv, TypeOK, StoreTypeOK, AttemptTypeOK, TalkTypeOK, CleanupTypeOK, RecordTypeOK
<1>1. Conv(a) \in Conversations
  BY MatchesByPhase DEF FinishStop, Live
<1>2. StoreTypeOK'
  <2>1. activeRuns' \in [Conversations -> Entries]
    BY <1>1 DEF FinishStop, Release
  <2>2. retained' \subseteq Conversations /\ lastErrors' \subseteq Conversations
    BY <1>1 DEF FinishStop, Release
  <2>3. UNCHANGED <<nextRunKey, shuttingDown, recovery>>
    BY DEF FinishStop
  <2> QED BY <2>1, <2>2, <2>3
<1>3. AttemptTypeOK'
  BY DEF FinishStop
<1>4. TalkTypeOK'
  <2>1. channel' \in [Attempts -> Seq(Messages)]
    <3>1. UNCHANGED channel \/ channel' = [channel EXCEPT ![a] = <<>>]
      BY DEF FinishStop, Release, DropListener
    <3> QED BY <3>1, Posts
  <2>2. pending' \in [Attempts -> BOOLEAN] /\ UNCHANGED decision
    BY DEF FinishStop, Release
  <2>3. listener' \in [Attempts -> {"None", "Listening", "Ended"}]
    BY DEF FinishStop, Release, DropListener
  <2> QED BY <2>1, <2>2, <2>3
<1>5. CleanupTypeOK'
  BY DEF FinishStop
<1>6. RecordTypeOK'
  BY AnnounceType, Sayings DEF FinishStop, Release, DropListener
<1> QED BY <1>2, <1>3, <1>4, <1>5, <1>6

\* Types, under Listen.
LEMMA ListenKeepsTypes ==
  ASSUME Inv, NEW a \in Attempts, Listen(a)
  PROVE  TypeOK'
<1> USE DEF Inv, TypeOK, StoreTypeOK, AttemptTypeOK, TalkTypeOK, CleanupTypeOK, RecordTypeOK
<1>1. Conv(a) \in Conversations
  BY DEF Listen, Shape, Born
<1>2. Matches(a, {"Running"}) => activeRuns[Conv(a)].attempt \in Attempts
  BY <1>1 DEF Matches, Shape, EntriesHoldTheirTasks, EntryHoldsItsTasks
<1>3. StoreTypeOK'
  <2>1. activeRuns' \in [Conversations -> Entries]
    <3> DEFINE entry == Entry("Running", activeRuns[Conv(a)].attempt, TRUE)
    <3>1. UNCHANGED activeRuns \/ (Matches(a, {"Running"}) /\ SetEntry(Conv(a), entry))
      BY DEF Listen
    <3>2. Matches(a, {"Running"}) => entry \in Entries
      BY <1>2
    <3>3. activeRuns \in [Conversations -> Entries]
      OBVIOUS
    <3> HIDE DEF Inv, Entries, entry
    <3> QED BY <1>1, <3>1, <3>2, <3>3
  <2>2. retained' \subseteq Conversations /\ lastErrors' \subseteq Conversations
    BY <1>1, <1>2 DEF Listen
  <2>3. UNCHANGED <<nextRunKey, shuttingDown, recovery>>
    BY DEF Listen
  <2> QED BY <2>1, <2>2, <2>3
<1>4. AttemptTypeOK'
  BY DEF Listen
<1>5. TalkTypeOK'
  BY DEF Listen
<1>6. CleanupTypeOK'
  BY DEF Listen
<1>7. RecordTypeOK'
  BY DEF Listen
<1> QED BY <1>3, <1>4, <1>5, <1>6, <1>7

\* Types, under Decide.
LEMMA DecideKeepsTypes ==
  ASSUME Inv, NEW c \in Conversations, NEW answer \in {"Approved", "Denied"}, Decide(c, answer)
  PROVE  TypeOK'
<1> USE DEF Inv, TypeOK, StoreTypeOK, AttemptTypeOK, TalkTypeOK, CleanupTypeOK, RecordTypeOK
<1>1. activeRuns[c].attempt \in Attempts
  BY DEF Decide, Decidable
<1>2. StoreTypeOK'
  BY DEF Decide
<1>3. AttemptTypeOK'
  BY DEF Decide
<1>4. TalkTypeOK'
  BY <1>1, PublishType, Posts DEF Decide, ResolveFor
<1>5. CleanupTypeOK'
  BY DEF Decide
<1>6. RecordTypeOK'
  BY DEF Decide
<1> QED BY <1>2, <1>3, <1>4, <1>5, <1>6

\* Types, under StopRun.
LEMMA StopRunKeepsTypes ==
  ASSUME Inv, NEW c \in Conversations, NEW persistence \in BOOLEAN, StopRun(c, persistence)
  PROVE  TypeOK'
<1> USE DEF Inv, TypeOK, StoreTypeOK, AttemptTypeOK, TalkTypeOK, CleanupTypeOK, RecordTypeOK
<1>1. activeRuns[c].attempt \in Attempts
  BY DEF StopRun
<1>2. StoreTypeOK'
  BY <1>1 DEF StopRun
<1>3. AttemptTypeOK'
  BY DEF StopRun, CancelAttempts
<1>4. TalkTypeOK'
  BY Posts DEF StopRun, CancelAttempts, Messages
<1>5. CleanupTypeOK'
  BY DEF StopRun
<1>6. RecordTypeOK'
  BY DEF StopRun
<1> QED BY <1>2, <1>3, <1>4, <1>5, <1>6

\* Types, under CleanupLists.
LEMMA CleanupListsKeepsTypes ==
  ASSUME Inv, NEW a \in Attempts, CleanupLists(a)
  PROVE  TypeOK'
<1> USE DEF Inv, TypeOK, StoreTypeOK, AttemptTypeOK, TalkTypeOK, CleanupTypeOK, RecordTypeOK
<1>1. StoreTypeOK'
  BY DEF CleanupLists
<1>2. AttemptTypeOK'
  BY DEF CleanupLists
<1>3. TalkTypeOK'
  BY DEF CleanupLists
<1>4. CleanupTypeOK'
  <2>1. sweep' \in [Attempts -> SUBSET Attempts]
    BY DEF CleanupLists
  <2>2. cleanup' \in [Attempts -> CleanupSteps]
    BY DEF CleanupLists
  <2>3. UNCHANGED <<recoveryTask, recoverySweep, shutdownTask, awaited>>
    BY DEF CleanupLists
  <2> QED BY <2>1, <2>2, <2>3
<1>5. RecordTypeOK'
  BY DEF CleanupLists
<1> QED BY <1>1, <1>2, <1>3, <1>4, <1>5

\* Types, under ShutdownAll.
LEMMA ShutdownAllKeepsTypes ==
  ASSUME Inv, ShutdownAll
  PROVE  TypeOK'
<1> USE DEF Inv, TypeOK, StoreTypeOK, AttemptTypeOK, TalkTypeOK, CleanupTypeOK, RecordTypeOK
<1>1. StoreTypeOK'
  BY RecoveryShapes DEF ShutdownAll
<1>2. AttemptTypeOK'
  BY DEF ShutdownAll, CancelAttempts
<1>3. TalkTypeOK'
  BY DEF ShutdownAll, CancelAttempts, Messages
<1>4. CleanupTypeOK'
  BY DEF ShutdownAll
<1>5. RecordTypeOK'
  BY DEF ShutdownAll, Events
<1> QED BY <1>1, <1>2, <1>3, <1>4, <1>5

\* Types, under Restart.
LEMMA RestartKeepsTypes ==
  ASSUME Inv, Restart
  PROVE  TypeOK'
<1> USE DEF Inv, TypeOK, StoreTypeOK, AttemptTypeOK, TalkTypeOK, CleanupTypeOK, RecordTypeOK
<1>1. StoreTypeOK'
  <2>1. activeRuns' \in [Conversations -> Entries]
    BY DEF Restart, FreshStore
  <2>2. recovery' \in RecoveryOperations
    BY RecoveryShapes DEF Restart, FreshStore
  <2>3. /\ nextRunKey' = 0 /\ shuttingDown' = FALSE
        /\ retained' = {} /\ lastErrors' = {}
    BY DEF Restart, FreshStore
  <2>4. 0 \in 0..(KeyModulus - 1)
    OBVIOUS
  <2> QED BY <2>1, <2>2, <2>3, <2>4
<1>2. AttemptTypeOK'
  BY DEF Restart
<1>3. TalkTypeOK'
  BY DEF Restart
<1>4. CleanupTypeOK'
  BY DEF Restart, FreshStore
<1>5. RecordTypeOK'
  BY Sayings DEF Restart
<1> QED BY <1>1, <1>2, <1>3, <1>4, <1>5

-----------------------------------------------------------------------------
(* Every step *)

\* Every step keeps the types.
LEMMA StepKeepsTypes ==
  ASSUME Inv, [Next]_vars
  PROVE  TypeOK'
<1>1. CASE \E c \in Conversations : Submit(c)
  BY <1>1, SubmitKeepsTypes
<1>2. CASE \E a \in Attempts : RejectSubmission(a)
  <2> PICK a \in Attempts : RejectSubmission(a) BY <1>2
  <2> QED BY AnnounceType, Sayings
     DEF RejectSubmission, Inv, TypeOK, StoreTypeOK, AttemptTypeOK,
         TalkTypeOK, CleanupTypeOK, RecordTypeOK
<1>3. CASE \E a \in Attempts : RefuseLaunch(a)
  <2> PICK a \in Attempts : RefuseLaunch(a) BY <1>3
  <2> QED BY AnnounceType, Sayings
     DEF RefuseLaunch, Inv, TypeOK, StoreTypeOK, AttemptTypeOK,
         TalkTypeOK, CleanupTypeOK, RecordTypeOK
<1>4. CASE \E a \in Attempts : LaunchRun(a)
  BY <1>4, LaunchRunKeepsTypes
<1>5. CASE \E a \in Attempts : CheckToken(a)
  <2> PICK a \in Attempts : CheckToken(a) BY <1>5
  <2> QED BY DEF CheckToken, Inv, TypeOK, StoreTypeOK, AttemptTypeOK,
         TalkTypeOK, CleanupTypeOK, RecordTypeOK
<1>6. CASE \E a \in Attempts : BeginFails(a)
  <2> PICK a \in Attempts : BeginFails(a) BY <1>6
  <2> QED BY DEF BeginFails, Inv, TypeOK, StoreTypeOK, AttemptTypeOK,
         TalkTypeOK, CleanupTypeOK, RecordTypeOK
<1>7. CASE \E a \in Attempts : InsertRow(a)
  <2> PICK a \in Attempts : InsertRow(a) BY <1>7
  <2> QED BY PublishType, Posts DEF InsertRow, Inv, TypeOK, StoreTypeOK, AttemptTypeOK,
         TalkTypeOK, CleanupTypeOK, RecordTypeOK
<1>8. CASE \E a \in Attempts : Progress(a)
  <2> PICK a \in Attempts : Progress(a) BY <1>8
  <2> QED BY PublishType, Posts DEF Progress, Inv, TypeOK, StoreTypeOK, AttemptTypeOK,
         TalkTypeOK, CleanupTypeOK, RecordTypeOK
<1>9. CASE \E a \in Attempts : RequestApproval(a)
  <2> PICK a \in Attempts : RequestApproval(a) BY <1>9
  <2> QED BY PublishType, Posts
     DEF RequestApproval, Inv, TypeOK, StoreTypeOK, AttemptTypeOK,
         TalkTypeOK, CleanupTypeOK, RecordTypeOK
<1>10. CASE \E a \in Attempts : Answered(a)
  <2> PICK a \in Attempts : Answered(a) BY <1>10
  <2> QED BY DEF Answered, Inv, TypeOK, StoreTypeOK, AttemptTypeOK,
         TalkTypeOK, CleanupTypeOK, RecordTypeOK
<1>11. CASE \E a \in Attempts, s \in {"Completed", "Failed", "Canceled"} : Finalize(a, s)
  <2> PICK a \in Attempts, s \in {"Completed", "Failed", "Canceled"} : Finalize(a, s) BY <1>11
  <2> QED BY PublishType, Posts DEF Finalize, Inv, TypeOK, StoreTypeOK, AttemptTypeOK,
         TalkTypeOK, CleanupTypeOK, RecordTypeOK
<1>12. CASE \E a \in Attempts : FinalizeFails(a)
  <2> PICK a \in Attempts : FinalizeFails(a) BY <1>12
  <2> QED BY DEF FinalizeFails, Inv, TypeOK, StoreTypeOK, AttemptTypeOK,
         TalkTypeOK, CleanupTypeOK, RecordTypeOK
<1>13. CASE \E a \in Attempts : SendDrain(a)
  <2> PICK a \in Attempts : SendDrain(a) BY <1>13
  <2> QED BY PublishType, Posts DEF SendDrain, Inv, TypeOK, StoreTypeOK, AttemptTypeOK,
         TalkTypeOK, CleanupTypeOK, RecordTypeOK
<1>14. CASE \E a \in Attempts : Drained(a)
  <2> PICK a \in Attempts : Drained(a) BY <1>14
  <2> QED BY DEF Drained, Inv, TypeOK, StoreTypeOK, AttemptTypeOK,
         TalkTypeOK, CleanupTypeOK, RecordTypeOK
<1>15. CASE \E a \in Attempts : FinishRun(a)
  BY <1>15, FinishRunKeepsTypes
<1>16. CASE \E a \in Attempts : Listen(a)
  BY <1>16, ListenKeepsTypes
<1>17. CASE \E c \in Conversations, answer \in {"Approved", "Denied"} : Decide(c, answer)
  BY <1>17, DecideKeepsTypes
<1>18. CASE \E c \in Conversations : TakeLastError(c)
  <2> PICK c \in Conversations : TakeLastError(c) BY <1>18
  <2> QED BY DEF TakeLastError, Inv, TypeOK, StoreTypeOK, AttemptTypeOK,
         TalkTypeOK, CleanupTypeOK, RecordTypeOK
<1>19. CASE \E c \in Conversations, persistence \in BOOLEAN : StopRun(c, persistence)
  BY <1>19, StopRunKeepsTypes
<1>20. CASE \E a \in Attempts : CleanupLists(a)
  BY <1>20, CleanupListsKeepsTypes
<1>21. CASE \E a \in Attempts, b \in Attempts, s \in {"Canceled", "Failed"} :
           CleanupCancels(a, b, s)
  <2> PICK a \in Attempts, b \in Attempts, s \in {"Canceled", "Failed"} : CleanupCancels(a, b, s) BY <1>21
  <2> QED BY DEF CleanupCancels, Inv, TypeOK, StoreTypeOK, AttemptTypeOK,
         TalkTypeOK, CleanupTypeOK, RecordTypeOK
<1>22. CASE \E a \in Attempts : CleanupFails(a)
  <2> PICK a \in Attempts : CleanupFails(a) BY <1>22
  <2> QED BY DEF CleanupFails, Inv, TypeOK, StoreTypeOK, AttemptTypeOK,
         TalkTypeOK, CleanupTypeOK, RecordTypeOK
<1>23. CASE \E a \in Attempts : FinishStop(a)
  BY <1>23, FinishStopKeepsTypes
<1>24. CASE ShutdownAll
  BY <1>24, ShutdownAllKeepsTypes
<1>25. CASE ShutdownDone
  BY <1>25 DEF ShutdownDone, Inv, TypeOK, StoreTypeOK, AttemptTypeOK,
         TalkTypeOK, CleanupTypeOK, RecordTypeOK
<1>26. CASE RecoveryLists
  BY <1>26 DEF RecoveryLists, Inv, TypeOK, StoreTypeOK, AttemptTypeOK,
         TalkTypeOK, CleanupTypeOK, RecordTypeOK
<1>27. CASE \E a \in Attempts : RecoveryFails(a)
  <2> PICK a \in Attempts : RecoveryFails(a) BY <1>27
  <2> QED BY DEF RecoveryFails, Inv, TypeOK, StoreTypeOK, AttemptTypeOK,
         TalkTypeOK, CleanupTypeOK, RecordTypeOK
<1>28. CASE \E r \in RecoveryResults : CompleteRecovery(r)
  <2> PICK r \in RecoveryResults : CompleteRecovery(r) BY <1>28
  <2> QED BY RecoveryCompletes
     DEF CompleteRecovery, Inv, TypeOK, StoreTypeOK, AttemptTypeOK,
         TalkTypeOK, CleanupTypeOK, RecordTypeOK
<1>29. CASE RetryRecovery
  BY <1>29, RecoveryShapes DEF RetryRecovery, Inv, TypeOK, StoreTypeOK, AttemptTypeOK,
         TalkTypeOK, CleanupTypeOK, RecordTypeOK
<1>30. CASE Restart
  BY <1>30, RestartKeepsTypes
<1>31. CASE UNCHANGED vars
  BY <1>31 DEF vars, Inv, TypeOK, StoreTypeOK, AttemptTypeOK,
         TalkTypeOK, CleanupTypeOK, RecordTypeOK
<1> QED BY <1>1, <1>2, <1>3, <1>4, <1>5, <1>6, <1>7, <1>8, <1>9, <1>10, <1>11,
           <1>12, <1>13, <1>14, <1>15, <1>16, <1>17, <1>18, <1>19, <1>20,
           <1>21, <1>22, <1>23, <1>24, <1>25, <1>26, <1>27, <1>28, <1>29,
           <1>30, <1>31
       DEF Next, Submitted, Begins, Settles, Ends, Cleans, Recovers, Approve, Deny

\* Every step keeps the rest of the inductive invariant.
LEMMA StepKeepsShape ==
  ASSUME Inv, [Next]_vars
  PROVE  Shape'
<1>1. CASE \E c \in Conversations : Submit(c)
  BY <1>1, SubmitKeepsShape
<1>2. CASE \E a \in Attempts : RejectSubmission(a)
  BY <1>2, RejectSubmissionKeepsShape
<1>3. CASE \E a \in Attempts : RefuseLaunch(a)
  BY <1>3, RefuseLaunchKeepsShape
<1>4. CASE \E a \in Attempts : LaunchRun(a)
  BY <1>4, LaunchRunKeepsShape
<1>5. CASE \E a \in Attempts : CheckToken(a)
  BY <1>5, RunStepKeepsShape DEF CheckToken, shapeVars
<1>6. CASE \E a \in Attempts : BeginFails(a)
  BY <1>6, RunStepKeepsShape DEF BeginFails, shapeVars
<1>7. CASE \E a \in Attempts : InsertRow(a)
  BY <1>7, RunStepKeepsShape DEF InsertRow, shapeVars
<1>8. CASE \E a \in Attempts : Progress(a)
  BY <1>8, QuietKeepsShape DEF Progress, shapeVars
<1>9. CASE \E a \in Attempts : RequestApproval(a)
  BY <1>9, RunStepKeepsShape DEF RequestApproval, shapeVars
<1>10. CASE \E a \in Attempts : Answered(a)
  BY <1>10, RunStepKeepsShape DEF Answered, shapeVars
<1>11. CASE \E a \in Attempts, s \in {"Completed", "Failed", "Canceled"} : Finalize(a, s)
  BY <1>11, RunStepKeepsShape DEF Finalize, shapeVars
<1>12. CASE \E a \in Attempts : FinalizeFails(a)
  BY <1>12, RunStepKeepsShape DEF FinalizeFails, shapeVars
<1>13. CASE \E a \in Attempts : SendDrain(a)
  BY <1>13, RunStepKeepsShape DEF SendDrain, shapeVars
<1>14. CASE \E a \in Attempts : Drained(a)
  BY <1>14, RunStepKeepsShape DEF Drained, shapeVars
<1>15. CASE \E a \in Attempts : FinishRun(a)
  BY <1>15, FinishRunKeepsShape
<1>16. CASE \E a \in Attempts : Listen(a)
  BY <1>16, ListenKeepsShape
<1>17. CASE \E c \in Conversations, answer \in {"Approved", "Denied"} : Decide(c, answer)
  BY <1>17, QuietKeepsShape DEF Decide, shapeVars
<1>18. CASE \E c \in Conversations : TakeLastError(c)
  BY <1>18, QuietKeepsShape DEF TakeLastError, shapeVars
<1>19. CASE \E c \in Conversations, persistence \in BOOLEAN : StopRun(c, persistence)
  BY <1>19, StopRunKeepsShape
<1>20. CASE \E a \in Attempts : CleanupLists(a)
  BY <1>20, CleanupStepKeepsShape DEF CleanupLists, shapeVars, Inv, Shape, StepsInOrder
<1>21. CASE \E a \in Attempts, b \in Attempts, s \in {"Canceled", "Failed"} :
           CleanupCancels(a, b, s)
  BY <1>21, QuietKeepsShape DEF CleanupCancels, shapeVars
<1>22. CASE \E a \in Attempts : CleanupFails(a)
  BY <1>22, CleanupStepKeepsShape DEF CleanupFails, shapeVars, Inv, Shape, StepsInOrder
<1>23. CASE \E a \in Attempts : FinishStop(a)
  BY <1>23, FinishStopKeepsShape
<1>24. CASE ShutdownAll
  BY <1>24, ShutdownAllKeepsShape
<1>25. CASE ShutdownDone
  BY <1>25, ShutdownDoneKeepsShape
<1>26. CASE RecoveryLists
  BY <1>26, RecoveryKeepsShape DEF RecoveryLists, Inv, Shape, Modes, RecoveryReady
<1>27. CASE \E a \in Attempts : RecoveryFails(a)
  BY <1>27, QuietKeepsShape DEF RecoveryFails, shapeVars
<1>28. CASE \E r \in RecoveryResults : CompleteRecovery(r)
  BY <1>28, RecoveryKeepsShape, RecoveryShapes
     DEF CompleteRecovery, Inv, Shape, Modes, TypeOK, StoreTypeOK, RecoveryReady
<1>29. CASE RetryRecovery
  BY <1>29, RecoveryKeepsShape
     DEF RetryRecovery, Inv, Shape, Modes, RecoveryReady, IsRunning, Fetching
<1>30. CASE Restart
  BY <1>30, RestartKeepsShape
<1>31. CASE UNCHANGED vars
  BY <1>31, QuietKeepsShape DEF vars, shapeVars
<1> QED BY <1>1, <1>2, <1>3, <1>4, <1>5, <1>6, <1>7, <1>8, <1>9, <1>10, <1>11,
           <1>12, <1>13, <1>14, <1>15, <1>16, <1>17, <1>18, <1>19, <1>20,
           <1>21, <1>22, <1>23, <1>24, <1>25, <1>26, <1>27, <1>28, <1>29,
           <1>30, <1>31
       DEF Next, Submitted, Begins, Settles, Ends, Cleans, Recovers, Approve, Deny

-----------------------------------------------------------------------------
(* The theorems *)

\* The first state of a process that starts on an empty database.
LEMMA InitInv ==
  ASSUME Init
  PROVE  Inv
<1> USE DEF Init, RecoveryOperations
<1>1. StoreTypeOK
  <2>1. activeRuns \in [Conversations -> Entries] /\ recovery \in RecoveryOperations
    OBVIOUS
  <2>2. nextRunKey \in 0..(KeyModulus - 1)
    OBVIOUS
  <2> QED BY <2>1, <2>2 DEF StoreTypeOK
<1>2. AttemptTypeOK
  BY DEF AttemptTypeOK, NoTicket
<1>3. TalkTypeOK
  BY Posts DEF TalkTypeOK
<1>4. CleanupTypeOK
  BY DEF CleanupTypeOK
<1>5. RecordTypeOK
  BY Sayings DEF RecordTypeOK
<1>6. Load(Idle, "RecoveryTask") \in RecoveryOperations /\ IsRunning(Load(Idle, "RecoveryTask"))
  BY RecoveryShapes
<1>7. Born
  BY DEF Born
<1>8. EntriesHoldTheirTasks
  BY DEF EntriesHoldTheirTasks
<1>9. StepsInOrder
  BY DEF StepsInOrder
<1>10. Modes
  BY <1>6 DEF Modes, Live
<1>11. AwaitedDistinct
  BY DEF AwaitedDistinct
<1>12. LiveAttemptIsRegistered
  BY DEF LiveAttemptIsRegistered, Live
<1> QED BY <1>1, <1>2, <1>3, <1>4, <1>5, <1>7, <1>8, <1>9, <1>10, <1>11, <1>12
       DEF Inv, Shape, TypeOK

\* The inductive invariant holds in every reachable state.
THEOREM InvHolds == Spec => []Inv
<1>1. Init => Inv
  BY InitInv
<1>2. Inv /\ [Next]_vars => Inv'
  BY StepKeepsTypes, StepKeepsShape DEF Inv
<1> QED BY <1>1, <1>2, PTL DEF Spec

\* The store, its tasks, the channels and the rows keep their types.
THEOREM TypeCorrect == Spec => []TypeOK
<1>1. Inv => TypeOK
  BY DEF Inv
<1> QED BY <1>1, InvHolds, PTL

\* No attempt is forgotten while a task of it runs: submissions, runs, stops,
\* wrapped keys, shutdown and restarts included.
THEOREM LiveAttemptsAreRegistered == Spec => []LiveAttemptIsRegistered
<1>1. Inv => LiveAttemptIsRegistered
  BY DEF Inv, Shape
<1> QED BY <1>1, InvHolds, PTL

\* A conversation never has two live attempts: in an open runtime both would
\* be its entry, and a shutdown awaits at most one attempt of it.
THEOREM AtMostOneLiveAttempt == Spec => []OneLiveAttempt
<1>1. Inv => OneLiveAttempt
  <2> SUFFICES ASSUME Inv, NEW a \in Attempts, NEW b \in Attempts,
                      Live(a), Live(b), Conv(a) = Conv(b)
               PROVE  a = b
    BY DEF OneLiveAttempt
  <2>1. CASE shuttingDown
    BY <2>1 DEF Inv, Shape, LiveAttemptIsRegistered, AwaitedDistinct
  <2>2. CASE ~shuttingDown
    BY <2>2 DEF Inv, Shape, LiveAttemptIsRegistered
  <2> QED BY <2>1, <2>2
<1> QED BY <1>1, InvHolds, PTL

\* Recovery never meets a live attempt, so it cannot fail a live run's row.
THEOREM RecoveryMeetsNoLiveRun == Spec => []RecoveryLeavesLiveRunsAlone
<1>1. Inv => RecoveryLeavesLiveRunsAlone
  BY RecoveryShapes DEF Inv, Shape, TypeOK, StoreTypeOK, Modes, RecoveryReady,
     RecoveryLeavesLiveRunsAlone
<1> QED BY <1>1, InvHolds, PTL

=============================================================================
