------------------------------- MODULE Mailbox -------------------------------
(***************************************************************************)
(* What the inbound side of a durable session promises to its clients: a   *)
(* message whose send was acknowledged joins the tail of its channel, and  *)
(* the session body is handed the messages of a channel one at a time, in  *)
(* that order, each exactly once.  Messages are named by their position in *)
(* the order of acknowledgement.  Nothing here knows of workflow segments, *)
(* of the carried inbox or of the numbers handed back to the clients:      *)
(* SessionWorkflow is shown to implement this specification through all of *)
(* them.                                                                   *)
(***************************************************************************)
EXTENDS Naturals, Sequences

CONSTANT Channels    \* the inbound channels of the session

VARIABLES
  accepted,          \* accepted[c]: how many sends on c were acknowledged
  queue              \* queue[c]: acknowledged and not yet handed to the body

vars == <<accepted, queue>>

Init ==
  /\ accepted = [c \in Channels |-> 0]
  /\ queue = [c \in Channels |-> <<>>]

Accept(c) ==
  /\ accepted' = [accepted EXCEPT ![c] = @ + 1]
  /\ queue' = [queue EXCEPT ![c] = Append(@, accepted[c] + 1)]

Deliver(c) ==
  /\ queue[c] # <<>>
  /\ queue' = [queue EXCEPT ![c] = Tail(@)]
  /\ UNCHANGED accepted

Next == \E c \in Channels : Accept(c) \/ Deliver(c)

Spec == Init /\ [][Next]_vars
=============================================================================
