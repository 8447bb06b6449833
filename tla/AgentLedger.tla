----------------------------- MODULE AgentLedger -----------------------------
(***************************************************************************)
(* What an agent run promises about its accounts: rounds, cost and actions *)
(* only ever grow, a cost is charged only while the budget has room for    *)
(* it, every round but the last adds one entry or more to the trace, and a *)
(* run that settled changes no more.  Nothing here knows of segments, of   *)
(* the session store or of activities: AgentWorkflow is shown to implement *)
(* this specification through continue-as-new, commits and failures.       *)
(***************************************************************************)
EXTENDS Naturals, Sequences

CONSTANTS
  Budget,            \* what the run may cost
  ThinkCost,         \* what one controller call costs
  MaxRounds,         \* rounds the run may take
  Outcomes, Open     \* how a run may settle, and that it has not yet

VARIABLES round, spent, trace, outcome

vars == <<round, spent, trace, outcome>>

Init ==
  /\ round = 0 /\ spent = 0 /\ trace = <<>>
  /\ outcome = Open

Charge(cost) ==
  /\ spent + cost <= Budget
  /\ spent' = spent + cost

Settle == outcome' \in Outcomes

(* The round ends with its entries recorded.                               *)
EndRound ==
  /\ round < MaxRounds
  /\ round' = round + 1
  /\ Len(trace') > Len(trace)
  /\ SubSeq(trace', 1, Len(trace)) = trace
  /\ UNCHANGED outcome

(* The controller answers; its answer may settle the run, or end the round *)
(* without an action.                                                      *)
Think ==
  /\ outcome = Open /\ round < MaxRounds
  /\ Charge(ThinkCost)
  /\ \/ UNCHANGED <<round, trace, outcome>>
     \/ Settle /\ UNCHANGED <<round, trace>>
     \/ EndRound

(* The round's action completed: its cost is charged with it.              *)
Act ==
  /\ outcome = Open
  /\ \E cost \in 0..Budget : Charge(cost)
  /\ EndRound

End == outcome = Open /\ Settle /\ UNCHANGED <<round, spent, trace>>

Next == Think \/ Act \/ End

Spec == Init /\ [][Next]_vars
=============================================================================
