---------------------------- MODULE MCInvestigator ----------------------------
(* Investigator for TLC: one budget that runs out of steps, one that runs out *)
(* of tool calls. *)
EXTENDS Investigator

Budgets == {[max_steps |-> 2, max_tool_calls |-> 3], [max_steps |-> 3, max_tool_calls |-> 1],
            [max_steps |-> 3, max_tool_calls |-> 2]}
===============================================================================
