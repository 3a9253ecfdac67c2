------------------------- MODULE RepairTransitions -------------------------
(***************************************************************************)
(* The transition table of gpui-operation's repair-capable lifecycle       *)
(* (crates/gpui-operation/src/repair.rs) as a record, and one operator per *)
(* message its owner sends.  Unlike the refresh-only family, a phase with  *)
(* a problem is left through a Repair alone.  A message the current phase  *)
(* does not take leaves the operation as it is.  The task the operation    *)
(* owns is its owner's business here.                                      *)
(*                                                                         *)
(* An operator Name_Variant is Name with a plausible slip; the runs that   *)
(* use this module are checked to tell the two apart.                      *)
(***************************************************************************)

CONSTANT None  \* no data, no problem

Phases == {"Idle", "Loading", "Ready", "Refreshing", "Unavailable",
           "RepairingUnavailable", "Degraded", "RepairingDegraded"}

Operation(ph, d, p) == [phase |-> ph, data |-> d, problem |-> p]

Idle           == Operation("Idle", None, None)
Ready(d)       == Operation("Ready", d, None)
Unavailable(p) == Operation("Unavailable", None, p)
Degraded(d, p) == Operation("Degraded", d, p)

IsRunning(op) ==
  op.phase \in {"Loading", "Refreshing", "RepairingUnavailable", "RepairingDegraded"}

\* A Result<Data, Problem>.
Ok(d)  == [ok |-> TRUE,  value |-> d]
Err(p) == [ok |-> FALSE, value |-> p]

-----------------------------------------------------------------------------
(* Messages that start a task *)

Running(op, from, to) == IF op.phase = from THEN [op EXCEPT !.phase = to] ELSE op

Load(op)    == Running(op, "Idle", "Loading")
Refresh(op) == Running(op, "Ready", "Refreshing")
Repair_UnavailableOnly(op) == Running(op, "Unavailable", "RepairingUnavailable")
Repair(op)  == IF op.phase = "Degraded"
               THEN Running(op, "Degraded", "RepairingDegraded")
               ELSE Running(op, "Unavailable", "RepairingUnavailable")

-----------------------------------------------------------------------------
(* Messages that settle the operation *)

\* What a result makes of an operation: a failure keeps the data there was.
Settled(op, r) ==
  CASE r.ok                    -> Ready(r.value)
    [] ~r.ok /\ op.data = None -> Unavailable(r.value)
    [] ~r.ok /\ op.data # None -> Degraded(op.data, r.value)

Settle(op, r)   == IF op.phase \in {"Idle", "Ready"} THEN Settled(op, r) ELSE op
Complete(op, r) == IF IsRunning(op) THEN Settled(op, r) ELSE op

=============================================================================
