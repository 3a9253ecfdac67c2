----------------------------- MODULE MCAgentRun -----------------------------
(* Two tool calls and two provider steps: the calls may share a turn or have   *)
(* one each.  The bounds on faults let one command fail and one crash come.    *)
EXTENDS AgentRun
=============================================================================
