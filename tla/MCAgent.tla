------------------------------- MODULE MCAgent -------------------------------
(***************************************************************************)
(* Small agents for TLC: lookup and search are two names of one wire tool, *)
(* with different limits, and lookup is a read that may be retried; send   *)
(* writes and is not retried; erase is not granted.                        *)
(***************************************************************************)
EXTENDS AgentWorkflow

MCTools == {"lookup", "search", "send"}
MCWire == [t \in MCTools |-> IF t = "send" THEN "send" ELSE "lookup_wire"]
MCLimit == [t \in MCTools |-> CASE t = "lookup" -> 2 [] t = "search" -> 1 [] OTHER -> NoLimit]
MCGranted == MCTools
MCReads == {"lookup"}
MCRetryable == {"lookup"}

EndTools == {"send", "erase"}
EndWire == [t \in EndTools |-> t]
EndLimit == [t \in EndTools |-> NoLimit]
=============================================================================
