-------------------------- MODULE RefreshOperation --------------------------
(***************************************************************************)
(* An owner of one refresh::Operation and the tasks it hands to it.        *)
(*                                                                         *)
(* The library keeps no fetch identifier: a completion carries only its    *)
(* result.  What makes the result belong to the fetch in flight is that    *)
(* the operation owns the Task, that a Task which is dropped never runs    *)
(* again, and that a message which is ignored is dropped with its Task.    *)
(* The module models that ownership: a task's background work finishes on  *)
(* its own, its continuation then runs on the foreground thread and sends  *)
(* Complete, and anything may happen to the operation in between.          *)
(***************************************************************************)
EXTENDS RefreshTransitions

CONSTANTS Data, Problems, Tasks

ASSUME NoneIsNoValue == None \notin Data \cup Problems \cup Tasks

VARIABLES
  operation,  \* the Operation the owner stores
  work,       \* task -> "Dropped", "Working" or "Finished" (its work is done
              \* and its continuation not yet run)
  rest        \* history: the operation as it was when the last fetch started
              \* (as it is, while no fetch runs)

vars == <<operation, work, rest>>

Results == {Ok(d) : d \in Data} \cup {Err(p) : p \in Problems}

Operations == [phase : Phases, data : Data \cup {None},
               problem : Problems \cup {None}, task : Tasks \cup {None}]

\* Ownership: of the tasks this step touches, the one the operation holds
\* afterwards lives and every other one is dropped.
WorkAfter_IgnoredDetached(op, touched) ==
  [t \in Tasks |-> IF t \notin touched THEN work[t]
                   ELSE IF work[t] = "Dropped" THEN "Working"
                   ELSE IF t # op.task THEN "Dropped"
                   ELSE work[t]]
WorkAfter(op, touched) ==
  [t \in Tasks |-> IF t \notin touched THEN work[t]
                   ELSE IF t # op.task THEN "Dropped"
                   ELSE IF work[t] = "Dropped" THEN "Working"
                   ELSE work[t]]

Become(op, touched) ==
  /\ operation' = op
  /\ work' = WorkAfter(op, touched)
  /\ rest' = IF IsRunning(op) THEN rest ELSE op

Init ==
  /\ operation = Idle
  /\ work = [t \in Tasks |-> "Dropped"]
  /\ rest = Idle

\* The owner spawns a task and sends it in one of the three requests, in
\* whatever phase the operation is.
Request(t, message(_, _)) ==
  /\ work[t] = "Dropped"
  /\ Become(message(operation, t), {t, operation.task})

RequestLoad(t)    == Request(t, Load)
RequestRefresh(t) == Request(t, Refresh)
RequestRetry(t)   == Request(t, Retry)

\* A result the owner has at hand without fetching.
SettleNow(r) == Become(Settle(operation, r), {operation.task})

\* The owner gives up on the fetch in flight.
CancelFetch == Become(Cancel(operation), {operation.task})

\* The background half of a task ends.
WorkEnds(t) ==
  /\ work[t] = "Working"
  /\ work' = [work EXCEPT ![t] = "Finished"]
  /\ UNCHANGED <<operation, rest>>

\* The foreground half: the task sends its result and, as the operation
\* settles, is dropped.
Deliver(t, r) ==
  /\ work[t] = "Finished"
  /\ Become(Complete(operation, r), {t, operation.task})

Next ==
  \/ \E t \in Tasks : RequestLoad(t) \/ RequestRefresh(t) \/ RequestRetry(t)
  \/ \E r \in Results : SettleNow(r)
  \/ CancelFetch
  \/ \E t \in Tasks : WorkEnds(t)
  \/ \E t \in Tasks, r \in Results : Deliver(t, r)

\* The executor runs the tasks; nobody promises to ask or to cancel.
TaskFairness ==
  \A t \in Tasks : WF_vars(WorkEnds(t)) /\ WF_vars(\E r \in Results : Deliver(t, r))

Spec == Init /\ [][Next]_vars /\ TaskFairness

-----------------------------------------------------------------------------
(* Properties *)

\* What an operation holds is what its phase says: data exactly in the four
\* phases that promise it, a problem exactly in the four that failed before, a
\* task exactly while a fetch runs.
WellFormed(op) ==
  /\ op \in Operations
  /\ (op.data # None) =
       (op.phase \in {"Ready", "Refreshing", "Degraded", "RefreshingDegraded"})
  /\ (op.problem # None) =
       (op.phase \in {"Unavailable", "Retrying", "Degraded", "RefreshingDegraded"})
  /\ (op.task # None) = IsRunning(op)

\* The operation is well formed, and so is the one it started from.
TypeOK ==
  /\ WellFormed(operation)
  /\ WellFormed(rest) /\ ~IsRunning(rest)
  /\ work \in [Tasks -> {"Dropped", "Working", "Finished"}]

\* At most one fetch runs, and it is the one the operation holds, so that a
\* completion can only be the completion of the fetch in flight: the reason
\* why Complete needs no fetch identifier.
OnlyTheHeldTaskLives ==
  \A t \in Tasks : work[t] # "Dropped" <=> t = operation.task

\* While a fetch runs the operation still holds what it held when the fetch
\* started, in the phase that names it: this is what Cancel goes back to and
\* what a failed refresh falls back on.
FetchKeepsWhatItStartedFrom ==
  IF IsRunning(operation)
  THEN /\ operation = Fetching(operation.phase, rest, operation.task)
       /\ Cancel(operation) = rest
  ELSE operation = rest

\* Last-known-good data is never given up: no request, failure or cancel of
\* any later fetch takes the data away once a fetch has succeeded.
DataIsNeverLost ==
  [][operation.data # None => operation'.data # None]_vars

\* A fetch that runs ends: it settles, or the owner cancels it.
FetchEnds == IsRunning(operation) ~> ~IsRunning(operation)

-----------------------------------------------------------------------------
(* What an owner's readers see: a last-known-good cell. *)

Cell == INSTANCE LastKnownGood WITH
          None <- None,
          value   <- operation.data,
          problem <- operation.problem,
          busy    <- IsRunning(operation)

ImplementsLastKnownGood == Cell!Spec

=============================================================================
