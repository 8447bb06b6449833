----------------------------- MODULE RaceGroup -----------------------------
(***************************************************************************)
(* What a race, hedge or quorum promises, whatever its branches are: it    *)
(* settles once, on as many successes as it needs or when they are out of  *)
(* reach, and then no branch of it changes any more.                       *)
(***************************************************************************)
EXTENDS FiniteSets, Integers

VARIABLES
  need,       \* successes the group asks for
  epoch,      \* which evaluation of the group this is
  branch,     \* branch -> "waiting", "running", "ok", "fail" or "gone"
  outcome,    \* "open", "won", "lost" (failed) or "gone" (cancelled)
  winners     \* the branches whose results the group returns

vars == <<need, epoch, branch, outcome, winners>>

In(state) == {b \in DOMAIN branch : branch[b] = state}

Fresh ==
  /\ \A b \in DOMAIN branch : branch[b] = "waiting"
  /\ outcome = "open"
  /\ winners = {}

Init == Fresh /\ epoch = 0

(* Branches start and end on their own while the group is open.            *)
After == [waiting |-> {"waiting", "running"}, running |-> {"running", "ok", "fail"},
          ok |-> {"ok"}, fail |-> {"fail"}, gone |-> {"gone"}]

Advance ==
  /\ outcome = "open"
  /\ DOMAIN branch' = DOMAIN branch
  /\ \A b \in DOMAIN branch : branch'[b] \in After[branch[b]]
  /\ UNCHANGED <<need, epoch, outcome, winners>>

(* The group ends: what still runs is cancelled, what ended stays.         *)
End(result, chosen) ==
  /\ outcome = "open"
  /\ outcome' = result
  /\ winners' = chosen
  /\ branch' = [b \in DOMAIN branch |-> IF branch[b] = "running" THEN "gone" ELSE branch[b]]
  /\ UNCHANGED <<need, epoch>>

(* Enough successes.  A reducer applied to them may still fail.            *)
Settle == \E chosen \in SUBSET In("ok"), result \in {"won", "lost"} :
            Cardinality(chosen) = need /\ End(result, chosen)

(* Too many failures for the successes that are still needed.              *)
GiveUp ==
  /\ Cardinality(In("fail")) > Cardinality(DOMAIN branch) - need
  /\ End("lost", {})

Cancel == End("gone", {})

(* The next segment of the run evaluates the group anew.                   *)
Restart ==
  /\ epoch' = epoch + 1
  /\ Fresh'
  /\ DOMAIN branch' = DOMAIN branch
  /\ UNCHANGED need

Next == Advance \/ Settle \/ GiveUp \/ Cancel \/ Restart

Spec == Init /\ [][Next]_vars
=============================================================================
