--------------------------- MODULE MCControlPlane ---------------------------
(* A budget for each group of things that can go wrong together: retries   *)
(* around a deployment, cancellations of an emitting run, readers that     *)
(* come and go over two segments.                                          *)
EXTENDS ControlPlane, TLC

Nothing == [requests |-> 1, deploys |-> 0, events |-> 0, segments |-> 0,
            cancels |-> 0, connects |-> 0, faults |-> 0]

MCBudgets ==
  { [Nothing EXCEPT !.requests = 2, !.deploys = 1, !.events = 1, !.faults = 1],
    [Nothing EXCEPT !.cancels = 1, !.events = 1, !.faults = 1],
    [Nothing EXCEPT !.cancels = 2, !.connects = 1],
    [Nothing EXCEPT !.events = 2, !.connects = 1],
    [Nothing EXCEPT !.events = 1, !.segments = 1, !.connects = 1],
    [Nothing EXCEPT !.connects = 2] }
=============================================================================
