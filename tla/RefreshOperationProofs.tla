----------------------- MODULE RefreshOperationProofs -----------------------
(***************************************************************************)
(* Proofs about RefreshOperation, for all sets of data, problems and       *)
(* tasks: the invariants the model checker checks on three of each, and    *)
(* the refinement of the last-known-good cell.                             *)
(***************************************************************************)
EXTENDS RefreshOperation, TLAPS

USE NoneIsNoValue

Inv == TypeOK /\ OnlyTheHeldTaskLives /\ FetchKeepsWhatItStartedFrom

-----------------------------------------------------------------------------
(* The transition table *)

\* What a request makes of an operation: the same, or a fetch with the
\* request's task that keeps what the operation held.
Starts(op, t, next) ==
  /\ WellFormed(next)
  /\ \/ next = op
     \/ /\ ~IsRunning(op) /\ IsRunning(next)
        /\ next = Fetching(next.phase, op, t)
        /\ Cancel(next) = op

\* Load starts a fetch in Idle only.
LEMMA LoadStarts ==
  ASSUME NEW op, WellFormed(op), NEW t \in Tasks
  PROVE  Starts(op, t, Load(op, t))
  BY DEF Starts, WellFormed, Operations, Phases, Load, Fetching, Operation,
         IsRunning, Cancel, Idle, None

\* Refresh starts a fetch in Ready and Degraded only.
LEMMA RefreshStarts ==
  ASSUME NEW op, WellFormed(op), NEW t \in Tasks
  PROVE  Starts(op, t, Refresh(op, t))
  BY DEF Starts, WellFormed, Operations, Phases, Refresh, Fetching, Operation,
         IsRunning, Cancel, Ready, Degraded, None

\* Retry starts a fetch in Unavailable only.
LEMMA RetryStarts ==
  ASSUME NEW op, WellFormed(op), NEW t \in Tasks
  PROVE  Starts(op, t, Retry(op, t))
  BY DEF Starts, WellFormed, Operations, Phases, Retry, Fetching, Operation,
         IsRunning, Cancel, Unavailable, None

\* Settle gives a settled operation, or leaves it as it is.
LEMMA SettleSettles ==
  ASSUME NEW op, WellFormed(op), NEW r \in Results
  PROVE  /\ WellFormed(Settle(op, r))
         /\ Settle(op, r) # op => ~IsRunning(op) /\ ~IsRunning(Settle(op, r))
  BY DEF WellFormed, Operations, Phases, Results, Ok, Err, Settle, Operation,
         IsRunning, Idle, Ready, Unavailable, Degraded, None

\* A result ends the fetch in flight.
LEMMA CompleteSettles ==
  ASSUME NEW op, WellFormed(op), NEW r \in Results
  PROVE  WellFormed(Complete(op, r)) /\ ~IsRunning(Complete(op, r))
  BY DEF WellFormed, Operations, Phases, Results, Ok, Err, Complete, Operation,
         IsRunning, Ready, Unavailable, Degraded, None

\* Cancel ends it too.
LEMMA CancelSettles ==
  ASSUME NEW op, WellFormed(op)
  PROVE  WellFormed(Cancel(op)) /\ ~IsRunning(Cancel(op))
  BY DEF WellFormed, Operations, Phases, Cancel, Operation, IsRunning, Idle,
         Ready, Unavailable, Degraded, None

-----------------------------------------------------------------------------
(* Steps *)

\* The invariant holds at first.
LEMMA InitInv == Init => Inv
  BY DEF Init, Inv, TypeOK, WellFormed, OnlyTheHeldTaskLives, Operations, Phases,
         FetchKeepsWhatItStartedFrom, IsRunning, Idle, Operation, None

\* Ownership: the task of the new operation lives and the others do not.
LEMMA OneTaskLives ==
  ASSUME Inv, NEW op, WellFormed(op), NEW touched,
         operation.task \in touched, op.task \in touched \cup {None}
  PROVE  LET after == WorkAfter(op, touched)
         IN  /\ after \in [Tasks -> {"Dropped", "Working", "Finished"}]
             /\ \A t \in Tasks : after[t] # "Dropped" <=> t = op.task
  BY DEF Inv, TypeOK, OnlyTheHeldTaskLives, WorkAfter, None

\* A request: Become with the operation Starts allows.
LEMMA RequestInv ==
  ASSUME Inv, NEW t \in Tasks, work[t] = "Dropped", NEW next,
         Starts(operation, t, next), Become(next, {t, operation.task})
  PROVE  Inv'
<1>1. WellFormed(next) /\ next.task \in {t, operation.task, None}
  BY DEF Starts, Fetching, Operation
<1>2. OnlyTheHeldTaskLives' /\ work' \in [Tasks -> {"Dropped", "Working", "Finished"}]
  BY <1>1, OneTaskLives DEF Become, OnlyTheHeldTaskLives
<1>3. CASE next = operation
  BY <1>1, <1>2, <1>3
  DEF Inv, Become, TypeOK, FetchKeepsWhatItStartedFrom, WellFormed
<1>4. CASE next # operation
  <2>1. ~IsRunning(operation) /\ operation = rest
    BY <1>4 DEF Starts, Inv, FetchKeepsWhatItStartedFrom
  <2>2. rest' = rest /\ operation' = next
    BY <1>4 DEF Starts, Become
  <2>3. FetchKeepsWhatItStartedFrom'
    <3>1. next.task = t
      BY <1>4 DEF Starts, Fetching, Operation
    <3> QED BY <1>4, <2>1, <2>2, <3>1 DEF Starts, FetchKeepsWhatItStartedFrom
  <2>4. TypeOK'
    BY <1>1, <1>2, <2>2 DEF Inv, TypeOK, WellFormed
  <2> QED BY <1>2, <2>3, <2>4 DEF Inv
<1> QED BY <1>3, <1>4

\* The end of a fetch, or a result without one: Become with an operation at
\* rest, or with the operation unchanged.
LEMMA SettledInv ==
  ASSUME Inv, NEW op, WellFormed(op), op = operation \/ ~IsRunning(op),
         NEW touched, operation.task \in touched, Become(op, touched)
  PROVE  Inv'
<1>1. op.task \in touched \cup {None}
  BY DEF WellFormed
<1>2. OnlyTheHeldTaskLives' /\ work' \in [Tasks -> {"Dropped", "Working", "Finished"}]
  BY <1>1, OneTaskLives DEF Become, OnlyTheHeldTaskLives
<1>3. CASE ~IsRunning(op)
  BY <1>2, <1>3 DEF Inv, Become, TypeOK, FetchKeepsWhatItStartedFrom, WellFormed
<1>4. CASE op = operation /\ IsRunning(op)
  BY <1>2, <1>4 DEF Inv, Become, TypeOK, FetchKeepsWhatItStartedFrom, WellFormed
<1> QED BY <1>3, <1>4

\* Every step keeps the invariant.
LEMMA StepInv == Inv /\ [Next]_vars => Inv'
<1> SUFFICES ASSUME Inv, [Next]_vars PROVE Inv'
  OBVIOUS
<1>0. WellFormed(operation)
  BY DEF Inv, TypeOK
<1>1. ASSUME NEW t \in Tasks, RequestLoad(t) \/ RequestRefresh(t) \/ RequestRetry(t)
      PROVE  Inv'
  BY <1>0, <1>1, RequestInv, LoadStarts, RefreshStarts, RetryStarts
  DEF RequestLoad, RequestRefresh, RequestRetry, Request
<1>2. ASSUME NEW r \in Results, SettleNow(r) PROVE Inv'
  BY <1>0, <1>2, SettledInv, SettleSettles DEF SettleNow
<1>3. CASE CancelFetch
  BY <1>0, <1>3, SettledInv, CancelSettles DEF CancelFetch
<1>4. ASSUME NEW t \in Tasks, WorkEnds(t) PROVE Inv'
  BY <1>4 DEF WorkEnds, Inv, TypeOK, OnlyTheHeldTaskLives, WellFormed,
              FetchKeepsWhatItStartedFrom
<1>5. ASSUME NEW t \in Tasks, NEW r \in Results, Deliver(t, r) PROVE Inv'
  BY <1>0, <1>5, SettledInv, CompleteSettles DEF Deliver
<1>6. CASE UNCHANGED vars
  BY <1>6 DEF vars, Inv, TypeOK, OnlyTheHeldTaskLives, WellFormed,
              FetchKeepsWhatItStartedFrom
<1> QED BY <1>1, <1>2, <1>3, <1>4, <1>5, <1>6 DEF Next

\* In every reachable state the operation is what its phase says.
THEOREM TypeCorrect == Spec => []TypeOK
<1>1. Init => Inv BY InitInv
<1>2. Inv /\ [Next]_vars => Inv' BY StepInv
<1> QED BY <1>1, <1>2, PTL DEF Spec, Inv

\* Its task is the only one that lives: a completion is the completion of the
\* fetch it holds.
THEOREM TasksAreHeld == Spec => []OnlyTheHeldTaskLives
<1>1. Init => Inv BY InitInv
<1>2. Inv /\ [Next]_vars => Inv' BY StepInv
<1> QED BY <1>1, <1>2, PTL DEF Spec, Inv

\* Cancel goes back to where the fetch began, and a failure to what it kept.
THEOREM FetchesAreUndone == Spec => []FetchKeepsWhatItStartedFrom
<1>1. Init => Inv BY InitInv
<1>2. Inv /\ [Next]_vars => Inv' BY StepInv
<1> QED BY <1>1, <1>2, PTL DEF Spec, Inv

-----------------------------------------------------------------------------
(* The cell the readers see *)

\* What each message shows of the operation to its readers.
LEMMA RequestShows ==
  ASSUME NEW op, WellFormed(op), NEW t \in Tasks, NEW next, Starts(op, t, next)
  PROVE  /\ next.data = op.data /\ next.problem = op.problem
         /\ IsRunning(op) => IsRunning(next)
  BY DEF Starts, Fetching, Operation

\* What readers see of a result.
LEMMA ResultShows ==
  ASSUME NEW op, WellFormed(op), NEW r \in Results,
         NEW next \in {Settle(op, r), Complete(op, r)}
  PROVE  \/ next = op
         \/ next.data \in Data /\ next.problem = None /\ ~IsRunning(next)
         \/ next.data = op.data /\ next.problem \in Problems /\ ~IsRunning(next)
  BY DEF WellFormed, Operations, Phases, Results, Ok, Err, Settle, Complete,
         Operation, IsRunning, Idle, Ready, Unavailable, Degraded, None

\* What readers see of a cancel: nothing.
LEMMA CancelShows ==
  ASSUME NEW op, WellFormed(op)
  PROVE  /\ Cancel(op).data = op.data /\ Cancel(op).problem = op.problem
         /\ ~IsRunning(Cancel(op))
  BY DEF WellFormed, Operations, Phases, Cancel, Operation, IsRunning, Idle,
         Ready, Unavailable, Degraded, None

\* Every step is a step of the cell for its readers, or none.
LEMMA StepShows == WellFormed(operation) /\ [Next]_vars => [Cell!Next]_(Cell!cell)
<1> SUFFICES ASSUME WellFormed(operation), [Next]_vars
             PROVE  [Cell!Next]_(Cell!cell)
  OBVIOUS
<1> USE DEF Cell!Next, Cell!cell, Cell!Begin, Cell!Abandon, Cell!Succeed, Cell!Fail
<1>0. IsRunning(operation) \in BOOLEAN /\ IsRunning(operation)' = IsRunning(operation')
  BY DEF IsRunning
<1>1. ASSUME NEW t \in Tasks, RequestLoad(t) \/ RequestRefresh(t) \/ RequestRetry(t)
      PROVE  [Cell!Next]_(Cell!cell)
  <2>1. Starts(operation, t, operation')
    BY <1>1, LoadStarts, RefreshStarts, RetryStarts
    DEF RequestLoad, RequestRefresh, RequestRetry, Request, Become
  <2> QED BY <1>0, <2>1, RequestShows DEF IsRunning
<1>2. ASSUME NEW r \in Results, operation' \in {Settle(operation, r), Complete(operation, r)}
      PROVE  [Cell!Next]_(Cell!cell)
  BY <1>0, <1>2, ResultShows DEF IsRunning
<1>3. CASE CancelFetch
  BY <1>0, <1>3, CancelShows DEF CancelFetch, Become, IsRunning
<1>4. CASE UNCHANGED operation
  BY <1>4 DEF IsRunning
<1> QED
  BY <1>1, <1>2, <1>3, <1>4
  DEF Next, vars, SettleNow, Deliver, WorkEnds, Become

\* The operation implements the cell its readers see.
THEOREM ReadersSeeACell == Spec => ImplementsLastKnownGood
<1>1. Init => Cell!Init
  BY DEF Init, Cell!Init, Idle, Operation, IsRunning
<1>2. Inv /\ [Next]_vars => [Cell!Next]_(Cell!cell)
  BY StepShows DEF Inv, TypeOK
<1>3. Init => Inv BY InitInv
<1>4. Inv /\ [Next]_vars => Inv' BY StepInv
<1> QED BY <1>1, <1>2, <1>3, <1>4, PTL DEF Spec, ImplementsLastKnownGood, Cell!Spec

\* No step takes the data away.
THEOREM DataIsKept == Spec => DataIsNeverLost
<1>1. Inv /\ [Next]_vars => [operation.data # None => operation'.data # None]_vars
  <2> SUFFICES ASSUME Inv, [Next]_vars, operation.data # None
               PROVE  operation'.data # None
    OBVIOUS
  <2>1. [Cell!Next]_(Cell!cell)
    BY StepShows DEF Inv, TypeOK
  <2> QED BY <2>1 DEF Cell!Next, Cell!cell, Cell!Begin, Cell!Abandon, Cell!Succeed, Cell!Fail
<1>2. Init => Inv BY InitInv
<1>3. Inv /\ [Next]_vars => Inv' BY StepInv
<1> QED BY <1>1, <1>2, <1>3, PTL DEF Spec, DataIsNeverLost

=============================================================================
