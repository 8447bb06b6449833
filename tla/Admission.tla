----------------------------- MODULE Admission -----------------------------
(***************************************************************************)
(* What a deployment refuses before a flow ever runs (deploy.py): calls    *)
(* that need an approval and are not behind a human gate                   *)
(* (capabilities.py), and branches of race groups that may not be          *)
(* cancelled (derived.py).  The flows are those of Interpreter.            *)
(***************************************************************************)
EXTENDS Interpreter

CONSTANTS
  Dangerous,  \* tools whose contract is dangerous or whose grant asks for approval
  RaceSafe    \* tools with an asserted contract that is read-only or idempotent

(* A node with what it is made of.                                         *)
Within(p, n) ==
  LET closed == {S \in SUBSET Nodes : n \in S /\ \A k \in S : BranchSetOf(p, k) \subseteq S}
  IN  {k \in Nodes : \A S \in closed : k \in S}

(* The nodes that have passed a gate when they are done.                   *)
Gating(p, n, S) ==
  \/ p[n].op = "gate"
  \/ p[n].op \in Groups \cup {"seq"} /\ BranchSetOf(p, n) \cap S # {}
  \/ p[n].op = "alt" /\ BranchSetOf(p, n) \subseteq S

always_gates(p) ==
  LET closed == {S \in SUBSET Nodes : \A n \in Nodes : Gating(p, n, S) => n \in S}
  IN  {n \in Nodes : \A S \in closed : n \in S}

approval_required(p, n) == p[n].op = "call" /\ p[n].tool \in Dangerous

(* The nodes that are walked to ungated.  Only a sequence hands a gate on, *)
(* from its left to its right.                                             *)
Ungated(p) ==
  LET gates == always_gates(p)
      walk(n) == {BranchesOf(p, n)[i] : i \in {j \in DOMAIN BranchesOf(p, n) :
                    ~(p[n].op = "seq" /\ j = 2 /\ p[n].kids[1] \in gates)}}
      closed == {S \in SUBSET Nodes : Root \in S /\ \A n \in S : walk(n) \subseteq S}
  IN  {n \in Nodes : \A S \in closed : n \in S}

check_approval_gates(p) == {n \in Ungated(p) : approval_required(p, n)}

(* Mutant: gates are no calls.                                             *)
BranchAdmittedWithGates(p, n) ==
  /\ p[n].op # "sub"
  /\ p[n].op = "call" => p[n].tool \in RaceSafe

(* A branch of a race group may hold no sub-flow and no call that must not *)
(* be cancelled; the contract of a gate is not race-safe.                  *)
BranchAdmitted(p, n) ==
  /\ p[n].op \notin {"sub", "gate"}
  /\ p[n].op = "call" => p[n].tool \in RaceSafe

check_race_admission(p) ==
  LET groups == {n \in Within(p, Root) : p[n].op \in Races}
      raced  == UNION {Within(p, b) : b \in UNION {BranchSetOf(p, n) : n \in groups}}
  IN  {n \in raced : ~BranchAdmitted(p, n)}

deploy(flows) == {p \in flows : check_approval_gates(p) \cup check_race_admission(p) = {}}

------------------------------------------------------------------------------
(* g is done before n begins, by the order of a sequence.                  *)
Precedes(g, n) ==
  \E s \in Nodes :
    /\ Op(s) = "seq"
    /\ \E i, j \in DOMAIN Branches(s) :
         i < j /\ g \in Within(prog, Branches(s)[i]) /\ n \in Within(prog, Branches(s)[j])

(* In a flow that was deployed a call that needs an approval begins only   *)
(* when a gate that stands before it in a sequence is done (answered, or   *)
(* timed out, which the flow takes for an answer), whatever cases were     *)
(* taken and however races, timeouts and cancellations went.  Neither      *)
(* check gives that alone: the first counts a gate in a branch of a race   *)
(* as passed, the second keeps gates out of races.                         *)
ApprovalFirst ==
  \A n \in Nodes :
    approval_required(prog, n) /\ phase[n] \in {"run", "ok"} =>
      \E g \in Nodes : Op(g) = "gate" /\ phase[g] = "ok" /\ Precedes(g, n)
=============================================================================
