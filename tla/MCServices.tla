----------------------------- MODULE MCServices -----------------------------
(***************************************************************************)
(* The instances of the small components that share no state: batching     *)
(* collectors, the coalescer, model calls, local sessions, the artifact    *)
(* store, a worker's registry, a DBOS chain, sessions on managed agents,   *)
(* the values of runs, and the bodies of sessions.                         *)
(* Each behaviour is one of one part; the others stay in an initial state  *)
(* of theirs.                                                              *)
(***************************************************************************)
EXTENDS Collector, Coalescer, ModelCalls, ReasonerCall, LocalSession,
        Sweeps, WorkerRegistry, TurnRules, DbosChain, CmaSession

VARIABLE part

servicesVars ==
  <<part, collectorVars, coalescerVars, callVars, reasonerVars, localVars,
    artifactVars, workerVars, dbosVars, cmaVars, valueVars, body>>

Window(quiet, items, wait) == [quiet |-> quiet, items |-> items, wait |-> wait]
MCWindows == {Window(2, 2, 2), Window(1, NoBound, 2)}

MCModels == {"m1", "m2"}
MCChain == <<"m1", "m2", "m1">>
MCProviderOf == [m \in MCModels |-> IF m = "m1" THEN "p" ELSE "q"]
MCAttempts == [transient |-> 2, timeout |-> 1]

MCBundles == {"b1", "b2"}
MCSourcesOf == [b \in MCBundles |-> {"s3"}]
MCPures == {"f", "g"}
MCSourceOf ==
  [b \in MCBundles |-> [p \in MCPures |->
     CASE p = "g" -> "s3" [] b = "b1" -> "s1" [] OTHER -> "s2"]]

MCShapes ==
  {[calls |-> <<1, 1, 1>>, parallel |-> 2], [calls |-> <<2, 1>>, parallel |-> 1]}

MCRecorded == {"q1", "q2"}
MCInputOf == [q \in MCRecorded |-> "v1"]
MCStepOf == [q \in {"q2"} |-> "v2"]
MCResultOf == [q \in {"q1"} |-> "v2"]

Tree(op, kids) == [op |-> op, kids |-> kids]
Plain == {Tree(op, <<>>) : op \in {"recv", "emit", "step"}}
Over(S) ==
  S \union {Tree(op, <<a, b>>) : op \in {"seq", "alt", "par"}, a \in S, b \in S}
    \union {Tree(op, <<a>>) : op \in {"iter", "each", "plan"}, a \in S}
MCBodies == Over(Over(Plain))

Parts == {"collector", "coalescer", "calls", "reasoner", "local", "artifacts", "worker", "dbos", "cma",
          "values", "turns"}

(* One of the initial states of a part that has several, for where it is   *)
(* not the part that runs.                                                 *)
Pinned ==
  /\ part = "collector" \/ kind = "batch"
  /\ kind = "batch" => window = Window(2, 2, 2)
  /\ part = "reasoner" \/ ask = [schema |-> FALSE, json_object |-> FALSE,
       tools |-> FALSE, skills |-> {}, takes_format |-> FALSE]
  /\ part = "worker" \/ registry = [p \in MCPures |-> Absent]
  /\ part = "dbos" \/ shape.parallel = 1
  /\ part = "cma" \/ ~dev

Init ==
  /\ part \in Parts
  /\ CollectorInit /\ CoalescerInit /\ ModelCallsInit /\ ReasonerInit
  /\ LocalInit /\ ArtifactInit /\ WorkerInit /\ DbosInit /\ CmaInit /\ ValueInit
  /\ Pinned
  /\ IF part = "turns" THEN TurnInit ELSE body = Tree("step", <<>>)

Next ==
  \/ /\ part = "collector" /\ CollectorNext
     /\ UNCHANGED <<part, coalescerVars, callVars, reasonerVars, localVars, artifactVars, workerVars,
                    dbosVars, cmaVars, valueVars, body>>
  \/ /\ part = "coalescer" /\ CoalescerNext
     /\ UNCHANGED <<part, collectorVars, callVars, reasonerVars, localVars, artifactVars, workerVars,
                    dbosVars, cmaVars, valueVars, body>>
  \/ /\ part = "calls" /\ ModelCallsNext
     /\ UNCHANGED <<part, collectorVars, coalescerVars, reasonerVars, localVars, artifactVars, workerVars,
                    dbosVars, cmaVars, valueVars, body>>
  \/ /\ part = "reasoner" /\ ReasonerNext
     /\ UNCHANGED <<part, collectorVars, coalescerVars, callVars, localVars, artifactVars, workerVars,
                    dbosVars, cmaVars, valueVars, body>>
  \/ /\ part = "local" /\ LocalNext
     /\ UNCHANGED <<part, collectorVars, coalescerVars, callVars, reasonerVars, artifactVars, workerVars,
                    dbosVars, cmaVars, valueVars, body>>
  \/ /\ part = "artifacts" /\ ArtifactNext
     /\ UNCHANGED <<part, collectorVars, coalescerVars, callVars, reasonerVars, localVars, workerVars,
                    dbosVars, cmaVars, valueVars, body>>
  \/ /\ part = "worker" /\ WorkerNext
     /\ UNCHANGED <<part, collectorVars, coalescerVars, callVars, reasonerVars, localVars, artifactVars,
                    dbosVars, cmaVars, valueVars, body>>
  \/ /\ part = "dbos" /\ DbosNext
     /\ UNCHANGED <<part, collectorVars, coalescerVars, callVars, reasonerVars, localVars,
                    artifactVars, workerVars, cmaVars, valueVars, body>>
  \/ /\ part = "cma" /\ CmaNext
     /\ UNCHANGED <<part, collectorVars, coalescerVars, callVars, reasonerVars, localVars,
                    artifactVars, workerVars, dbosVars, valueVars, body>>
  \/ /\ part = "values" /\ ValueNext
     /\ UNCHANGED <<part, collectorVars, coalescerVars, callVars, reasonerVars, localVars,
                    artifactVars, workerVars, dbosVars, cmaVars, body>>

Fairness ==
  /\ WF_collectorVars(part = "collector" /\ CollectorSteps)
  /\ WF_collectorVars(part = "collector" /\ TimePasses)
  /\ \A p \in 1..4 :
       WF_collectorVars(part = "collector" /\ p \in DOMAIN polls /\ PollSteps(p))
  /\ WF_coalescerVars(part = "coalescer" /\ CoalescerSteps)
  /\ WF_callVars(part = "calls" /\ CooldownPasses)
  /\ \A c \in Callers : WF_callVars(part = "calls" /\ Calling(c))
  /\ WF_localVars(part = "local" /\ Drives)
  /\ WF_localVars(part = "local" /\ CloseReturns)
  /\ WF_localVars(part = "local" /\ NextEvent)
  /\ WF_cmaVars(part = "cma" /\ Serves)
  /\ WF_cmaVars(part = "cma" /\ VendorRuns)

Spec == Init /\ [][Next]_servicesVars /\ Fairness
=============================================================================
