---------------------------- MODULE WorkerRegistry ----------------------------
(***************************************************************************)
(* The pures of a worker process: resolve_and_register reads a bundle for  *)
(* a run, in the thread of its workflow or in an activity, and registers   *)
(* its pures in the registry that all the worker's runs compute with.  A   *)
(* run is one of Temporal's: a flow, or a segment of a session.            *)
(***************************************************************************)
EXTENDS Naturals, FiniteSets

CONSTANTS
  Versions,            \* bundles that a run may name
  Pures,
  SourceOf,            \* [bundle][pure]: the pure's source in it, or Absent
  Runs,                \* the runs of the worker
  Inline,              \* those of FlowWorkflow whose input names their bundle:
                       \* each activation resolves it; that of the others is
                       \* resolved by the activity verifyPures alone
  Absent

ASSUME WorkerAssumption == Absent \notin Pures /\ Inline \subseteq Runs

VARIABLES
  registry,            \* the source of each pure, or Absent
  run,                 \* bundle, pc, the pures left to register, and the one
                       \* whose entry it looked up and is about to set
  crossed              \* history: pures that two threads set between the
                       \* look and the assignment of one of them

workerVars == <<registry, run, crossed>>

-----------------------------------------------------------------------------
Agrees(b, p) == SourceOf[b][p] = Absent \/ registry[p] \in {Absent, SourceOf[b][p]}

(* An activation that fails is tried again, the activity is not.           *)
Refused(r) == IF r \in Inline THEN "new" ELSE "failed"

(* resolve_and_register: everything is read and checked, against the       *)
(* registry as well, before anything is registered.                        *)
Resolve(r) ==
  /\ run[r].pc = "new"
  /\ \E b \in IF run[r].bundle = Absent THEN Versions ELSE {run[r].bundle} :
       run' = [run EXCEPT ![r] =
         IF \A p \in Pures : Agrees(b, p)
         THEN [@ EXCEPT !.bundle = b, !.pc = "register",
                        !.left = {p \in Pures : SourceOf[b][p] # Absent}]
         ELSE [@ EXCEPT !.bundle = b, !.pc = Refused(r)]]
  /\ UNCHANGED <<registry, crossed>>

(* Mutant: it trusts what resolve_and_register checked.                    *)
LookOnly(r, p) == run' = [run EXCEPT ![r] = [@ EXCEPT !.look = p]]

(* register_pure_from_source looks at the entry again, as the threads of   *)
(* other runs register too; a pure it disagrees with is refused.           *)
Look(r, p) ==
  run' = [run EXCEPT ![r] =
            IF Agrees(@.bundle, p) THEN [@ EXCEPT !.look = p]
            ELSE [@ EXCEPT !.pc = Refused(r), !.left = {}]]

(* It parses and validates the source, and then sets the entry.            *)
RegisterPure(r) ==
  LET p == run[r].look
  IN  /\ run[r].pc = "register" /\ p # Absent
      /\ registry' = [registry EXCEPT ![p] = SourceOf[run[r].bundle][p]]
      /\ run' = [run EXCEPT ![r] = [@ EXCEPT !.left = run[r].left \ {p}, !.look = Absent]]
      /\ crossed' = crossed \union {q \in {p} : \E o \in Runs \ {r} : run[o].look = q}

LookUp(r) ==
  /\ run[r].pc = "register" /\ run[r].look = Absent
  /\ \E p \in run[r].left : Look(r, p)
  /\ UNCHANGED <<registry, crossed>>

(* verifyPures compares the pins with the registry: the run begins, or     *)
(* fails for good.                                                         *)
verifyPures(r) ==
  /\ run[r].pc = "register" /\ run[r].left = {}
  /\ run' = [run EXCEPT ![r].pc =
       IF \A p \in Pures : SourceOf[run[r].bundle][p] \in {Absent, registry[p]}
       THEN "runs" ELSE "failed"]
  /\ UNCHANGED <<registry, crossed>>

(* The pures that an image may bring along: sources of the bundles.        *)
Images ==
  {g \in [Pures -> {Absent} \union {SourceOf[b][p] : b \in Versions, p \in Pures}] :
     \A p \in Pures : g[p] \in {Absent} \union {SourceOf[b][p] : b \in Versions}}

(* Replay hands out what the activity answered before the restart: a run   *)
(* that it had let begin goes on with what is in the registry now, and one *)
(* that it was busy with fails.  An inline run resolves its bundle again.  *)
AfterRestart(r) ==
  LET pc == run[r].pc
  IN  CASE pc \in {"new", "failed"} -> pc
        [] pc = "register" -> Refused(r)
        [] OTHER -> IF r \in Inline THEN "new" ELSE "replayed"

(* A worker restarts, perhaps with another image; its runs come back by    *)
(* replay.                                                                 *)
WorkerRestarts ==
  /\ \E r \in Runs : run[r].pc \in {"runs", "replayed"}
  /\ registry' \in Images
  /\ run' = [r \in Runs |-> [bundle |-> run[r].bundle, pc |-> AfterRestart(r),
                            left |-> {}, look |-> Absent]]
  /\ crossed' = {}

WorkerInit ==
  /\ registry \in Images
  /\ run = [r \in Runs |-> [bundle |-> Absent, pc |-> "new", left |-> {}, look |-> Absent]]
  /\ crossed = {}

WorkerNext ==
  \/ \E r \in Runs : Resolve(r) \/ LookUp(r) \/ RegisterPure(r) \/ verifyPures(r)
  \/ WorkerRestarts

WorkerSpec == WorkerInit /\ [][WorkerNext]_workerVars

-----------------------------------------------------------------------------
ComputesWithItsPures(r) ==
  \A p \in Pures \ crossed : SourceOf[run[r].bundle][p] \in {Absent, registry[p]}

(* The code of a run stays: while it goes on in the process that resolved  *)
(* its bundle for it, every pure of that is registered with the source     *)
(* that the bundle pins, whatever else the worker resolves, half registers *)
(* and fails on beside it; and inline, whatever image the worker restarts  *)
(* with.  Excepted are pures of which two threads were both between the    *)
(* look at the entry and its assignment, of which the last one wins.       *)
RunsItsPures == \A r \in Runs : run[r].pc = "runs" => ComputesWithItsPures(r)
=============================================================================
