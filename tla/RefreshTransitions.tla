------------------------- MODULE RefreshTransitions -------------------------
(***************************************************************************)
(* The transition table of gpui-operation's refresh-only lifecycle         *)
(* (crates/gpui-operation/src/refresh.rs): Operation<Data, Problem, Task>  *)
(* as a record, and one operator per message an owner may send it.  The    *)
(* operators are total: a message the current phase does not take leaves   *)
(* the operation as it is, and the task the message carried is dropped     *)
(* with the message.                                                       *)
(***************************************************************************)

None == "None"

Phases == {"Idle", "Loading", "Ready", "Refreshing", "Unavailable",
           "Retrying", "Degraded", "RefreshingDegraded"}

Operation(ph, d, p, t) == [phase |-> ph, data |-> d, problem |-> p, task |-> t]

Idle                == Operation("Idle", None, None, None)
Ready(d)            == Operation("Ready", d, None, None)
Unavailable(p)      == Operation("Unavailable", None, p, None)
Degraded(d, p)      == Operation("Degraded", d, p, None)
Fetching(ph, op, t) == Operation(ph, op.data, op.problem, t)

IsRunning(op) ==
  op.phase \in {"Loading", "Refreshing", "Retrying", "RefreshingDegraded"}

\* A Result<Data, Problem>.
Ok(d)  == [ok |-> TRUE,  value |-> d]
Err(p) == [ok |-> FALSE, value |-> p]

(* An operator Name_Variant is Name with a plausible slip; the runs that use
   these modules are checked to tell the two apart. *)

-----------------------------------------------------------------------------
(* Messages that start a fetch: each is taken in the phases it is for. *)

Load(op, t) ==
  IF op.phase = "Idle" THEN Fetching("Loading", op, t) ELSE op

Refresh_ProblemForgotten(op, t) ==
  IF op.phase \in {"Ready", "Degraded"} THEN Fetching("Refreshing", op, t) ELSE op
Refresh(op, t) ==
  CASE op.phase = "Ready"    -> Fetching("Refreshing", op, t)
    [] op.phase = "Degraded" -> Fetching("RefreshingDegraded", op, t)
    [] OTHER                 -> op

Retry(op, t) ==
  IF op.phase = "Unavailable" THEN Fetching("Retrying", op, t) ELSE op

-----------------------------------------------------------------------------
(* Messages that end one, and the synchronous Settle. *)

\* A result that arrives without a fetch; ignored unless Idle or Ready.
Settle_FailureDropsData(op, r) ==
  CASE op.phase \in {"Idle", "Ready"} /\ r.ok  -> Ready(r.value)
    [] op.phase \in {"Idle", "Ready"} /\ ~r.ok -> Unavailable(r.value)
    [] OTHER                                   -> op
Settle(op, r) ==
  CASE op.phase \in {"Idle", "Ready"} /\ r.ok -> Ready(r.value)
    [] op.phase = "Idle"  /\ ~r.ok            -> Unavailable(r.value)
    [] op.phase = "Ready" /\ ~r.ok            -> Degraded(op.data, r.value)
    [] OTHER                                  -> op

\* The result of the fetch in flight; a failure keeps the data a refresh had.
Complete_DegradedMissed(op, r) ==
  CASE op.phase \in {"Loading", "Refreshing", "Retrying"} /\ r.ok ->
         Ready(r.value)
    [] op.phase \in {"Loading", "Retrying"} /\ ~r.ok ->
         Unavailable(r.value)
    [] op.phase = "Refreshing" /\ ~r.ok ->
         Degraded(op.data, r.value)
    [] OTHER -> op
Complete(op, r) ==
  CASE IsRunning(op) /\ r.ok ->
         Ready(r.value)
    [] op.phase \in {"Loading", "Retrying"} /\ ~r.ok ->
         Unavailable(r.value)
    [] op.phase \in {"Refreshing", "RefreshingDegraded"} /\ ~r.ok ->
         Degraded(op.data, r.value)
    [] OTHER -> op

\* Drops the task and goes back to the state the fetch was started from.
Cancel(op) ==
  CASE op.phase = "Loading"            -> Idle
    [] op.phase = "Refreshing"         -> Ready(op.data)
    [] op.phase = "Retrying"           -> Unavailable(op.problem)
    [] op.phase = "RefreshingDegraded" -> Degraded(op.data, op.problem)
    [] OTHER                           -> op

=============================================================================
