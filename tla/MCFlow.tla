------------------------------ MODULE MCFlow -------------------------------
(* Flows for TLC: each meets one way in which branches, gates and child    *)
(* workflows of a run get in each other's way.                             *)
EXTENDS FlowWorkflow, Admission

MCNodes == 1..9

Node(op, kids) == [op |-> op, kids |-> kids, m |-> 1, wave |-> 2, late |-> FALSE,
                   fold |-> FALSE, tool |-> "t"]
Leaf(op) == Node(op, <<>>)
Flow(nodes) == [n \in MCNodes |-> IF n \in DOMAIN nodes THEN nodes[n] ELSE Leaf("pure")]

Quorum(kids) == [Node("quorum", kids) EXCEPT !.m = 2]

(* A race of a gather with a call, then a gate.                            *)
RaceOfGather == Flow(<<
  Node("seq", <<2, 9>>), Node("race", <<3, 8>>), Node("all", <<4, 7>>),
  Node("seq", <<5, 6>>), Leaf("call"), Leaf("call"), Leaf("call"), Leaf("call"), Leaf("gate")>>)

(* Two of three, one of them a lazy hedge with a reducer.                  *)
QuorumOfHedge == Flow(<<
  Quorum(<<2, 3>>), Leaf("think"), Quorum(<<4, 5>>), Leaf("call"),
  [Node("hedge", <<6, 7>>) EXCEPT !.late = TRUE, !.fold = TRUE], Leaf("call"), Leaf("call")>>)

(* Waves of two over three items, one of them a gather of three.           *)
EachOfGather == Flow(<<
  [Node("each", <<2, 3, 4>>) EXCEPT !.fold = TRUE], Leaf("call"), Node("all", <<5, 6>>), Node("each", <<>>),
  [Leaf("call") EXCEPT !.tool = "u"], Node("all", <<7, 8>>), Leaf("pure"), Leaf("call")>>)

(* An agent, a case and a loop, one after the other.                       *)
AgentThenLoop == Flow(<<
  Node("seq", <<2, 3>>), Leaf("app"), Node("seq", <<4, 5>>), Node("alt", <<6, 7>>),
  Node("iter", <<8, 9>>), Leaf("sub"), Leaf("gate"), Leaf("call"), Leaf("call")>>)

(* A call that needs an approval, behind gates of every kind and in front  *)
(* of them.                                                                *)
Erase == [Leaf("call") EXCEPT !.tool = "d"]
After(group) == Flow(<<Node("seq", <<2, 3>>), group[1], Erase, group[2], group[3]>>)
Guards ==
  {Flow(<<Node("seq", <<2, 3>>), Leaf("gate"), Erase>>),
   Flow(<<Node("all", <<2, 3>>), Leaf("gate"), Erase>>),
   Flow(<<Node("seq", <<2, 3>>), Erase, Leaf("gate")>>),
   Flow(<<Node("each", <<2, 3>>), Node("seq", <<4, 5>>), Node("seq", <<6, 7>>),
          Leaf("gate"), Erase, Leaf("gate"), Erase>>)}
  \cup {After(<<Node(op, <<4, 5>>), Leaf("gate"), Leaf(other)>>) :
          op \in {"seq", "all", "race", "alt", "iter", "each"}, other \in {"gate", "think"}}

Deployed == deploy(Guards)

MCPrograms == {RaceOfGather, QuorumOfHedge, EachOfGather, AgentThenLoop} \cup Deployed
MCTools == {"t", "u", "d"}
MCLimit == [t |-> 3, u |-> 1, d |-> 2]
=============================================================================
