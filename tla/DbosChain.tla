----------------------------- MODULE DbosChain -----------------------------
(***************************************************************************)
(* A flow on the DBOS backend (dbos_backend.py).  A driver runs one        *)
(* workflow after the other, one for each segment; DBOS starts a workflow  *)
(* id once, records every step of it under the number of its start, and    *)
(* when the process died interprets the workflow again, where steps that   *)
(* were recorded hand out their record.  The flow gathers branches, each a *)
(* sequence of calls of one tool that has a limit.                         *)
(***************************************************************************)
EXTENDS Integers, Sequences, FiniteSets, Functions

CONSTANTS
  Shapes,       \* flows: the calls of each branch, and max_parallel
  MaxCalls,     \* the limit of the tool
  Segments,     \* the flow continues until this one
  Submissions,  \* of one session id
  MaxCrashes    \* bound: crashes of processes and drivers

ASSUME DbosAssumption ==
  /\ Shapes \subseteq [calls : Seq(Nat \ {0}), parallel : Nat \ {0}]
  /\ MaxCalls \in Nat /\ Segments \in Nat \ {0}

VARIABLES
  shape,
  chain,        \* of each submission, its loop: pc, seg, call_counts
  workflow,     \* of each workflow id, durable: status, counts, records, out;
                \* raised: the records that are errors
  env,          \* of the process that interprets one: seg, cids, functions,
                \* counts; of each branch: the calls done, and step, under way;
                \* denied, raised: a call was over the limit, a tool raised
  executed,     \* history: calls that ran, with the key they ran under
  results,       \* history: calls, with the calls whose results they were given
  crashes

dbosVars == <<shape, chain, workflow, env, executed, results, crashes>>

Branches == DOMAIN shape.calls
Idle == [seg |-> 0]
Unstarted == [status |-> "none"]
NoStep == [function |-> 0]
Submitted == [pc |-> "start", seg |-> 1, counts |-> 0]

DbosInit ==
  /\ shape \in Shapes
  /\ chain = [s \in Submissions |-> [Submitted EXCEPT !.pc = "off"]]
  /\ workflow = [i \in 1..Segments |-> Unstarted]
  /\ env = Idle
  /\ executed = {} /\ results = {} /\ crashes = 0

------------------------------------------------------------------------------
(* run_flow_dbos                                                           *)

Submit(s) ==
  /\ chain[s].pc = "off"
  /\ chain' = [chain EXCEPT ![s] = Submitted]
  /\ UNCHANGED <<shape, workflow, env, executed, results, crashes>>

(* The id is started once; a later start only gets its handle.             *)
StartSegment(s) ==
  LET c == chain[s] IN
  /\ c.pc = "start"
  /\ workflow' =
       IF workflow[c.seg] # Unstarted THEN workflow
       ELSE [workflow EXCEPT ![c.seg] =
               [status |-> "pending", counts |-> c.counts, records |-> <<>>,
                raised |-> {}, out |-> 0]]
  /\ chain' = [chain EXCEPT ![s].pc = "waits"]
  /\ UNCHANGED <<shape, env, executed, results, crashes>>

GetResult(s) ==
  LET c == chain[s]
      w == workflow[c.seg]
  IN  /\ c.pc = "waits" /\ w.status \in {"success", "error"}
      /\ chain' = [chain EXCEPT ![s] =
           IF w.status = "success" /\ c.seg < Segments
           THEN [pc |-> "start", seg |-> c.seg + 1, counts |-> w.out]
           ELSE [c EXCEPT !.pc = w.status]]
      /\ UNCHANGED <<shape, workflow, env, executed, results, crashes>>

DriverDies(s) ==
  /\ chain[s].pc \in {"start", "waits"} /\ crashes < MaxCrashes
  /\ chain' = [chain EXCEPT ![s].pc = "off"]
  /\ crashes' = crashes + 1
  /\ UNCHANGED <<shape, workflow, env, executed, results>>

------------------------------------------------------------------------------
(* flow_workflow, interpreted for the first time or again                  *)

Interpret(i) ==
  /\ workflow[i].status = "pending" /\ env = Idle
  /\ env' = [seg |-> i, cids |-> 0, functions |-> 0, counts |-> workflow[i].counts,
             done |-> [b \in Branches |-> 0], step |-> [b \in Branches |-> NoStep],
             begun |-> {}, ended |-> {}, denied |-> FALSE, raised |-> FALSE]
  /\ UNCHANGED <<shape, chain, workflow, executed, results, crashes>>

ProcessDies ==
  /\ env # Idle /\ crashes < MaxCrashes
  /\ env' = Idle
  /\ crashes' = crashes + 1
  /\ UNCHANGED <<shape, chain, workflow, executed, results>>

Call(b) == <<env.seg, b, env.done[b] + 1>>

(* Mutant: the key does not name the segment's workflow, as cids on        *)
(* Temporal do not.                                                        *)
KeyOfActivation(n) == <<n>>

Key(n) == <<env.seg, n>>

(* gather_bounded lets branches in by their order, as slots come free.     *)
LetIn(b) ==
  \/ b \in env.begun
  \/ /\ \A other \in Branches : other < b => other \in env.begun
     /\ Cardinality(env.begun \ env.ended) < shape.parallel

(* next_cid, charge_call and the start of the step, without a pause.       *)
CallBegins(b) ==
  LET cid == env.cids + 1
      entered == [env EXCEPT !.begun = @ \union {b}, !.cids = cid]
  IN  /\ env # Idle /\ b \notin env.ended /\ env.step[b] = NoStep /\ LetIn(b)
      /\ env' =
           IF env.counts >= MaxCalls
           THEN [entered EXCEPT !.ended = @ \union {b}, !.denied = TRUE]
           ELSE [entered EXCEPT
                   !.counts = @ + 1, !.functions = @ + 1,
                   !.step[b] = [function |-> env.functions + 1, key |-> Key(cid), ran |-> FALSE]]
      /\ UNCHANGED <<shape, chain, workflow, executed, results, crashes>>

(* The tool runs; its result, or the error that it raised, is recorded in  *)
(* a step of its own.                                                      *)
ToolRuns(b) ==
  /\ env # Idle /\ env.step[b] # NoStep /\ ~env.step[b].ran
  /\ env.step[b].function \notin DOMAIN workflow[env.seg].records
  /\ env' = [env EXCEPT !.step[b].ran = TRUE]
  /\ executed' = executed \union {[call |-> Call(b), key |-> env.step[b].key]}
  /\ UNCHANGED <<shape, chain, workflow, results, crashes>>

RecordStep(b, raises) ==
  LET f == env.step[b].function IN
  /\ env # Idle /\ env.step[b] # NoStep /\ env.step[b].ran
  /\ f \notin DOMAIN workflow[env.seg].records
  /\ workflow' = [workflow EXCEPT
       ![env.seg].records = [g \in DOMAIN @ \union {f} |-> IF g \in DOMAIN @ THEN @[g] ELSE Call(b)],
       ![env.seg].raised = IF raises THEN @ \union {f} ELSE @]
  /\ UNCHANGED <<shape, chain, env, executed, results, crashes>>

(* A step returns, or raises, what is recorded under its number.           *)
StepReturns(b) ==
  LET w == workflow[env.seg]
      f == env.step[b].function
      raises == f \in w.raised
  IN  /\ env # Idle /\ env.step[b] # NoStep /\ f \in DOMAIN w.records
      /\ results' = results \union {[call |-> Call(b), given |-> w.records[f]]}
      /\ env' = [env EXCEPT
           !.step[b] = NoStep, !.done[b] = @ + 1, !.raised = @ \/ raises,
           !.ended = IF raises \/ env.done[b] + 1 = shape.calls[b] THEN @ \union {b} ELSE @]
      /\ UNCHANGED <<shape, chain, workflow, executed, crashes>>

(* A gather that fails does not wait for its other branches, which go on.  *)
WorkflowEnds ==
  /\ env # Idle /\ workflow[env.seg].status = "pending"
  /\ \/ /\ env.denied \/ env.raised
        /\ workflow' = [workflow EXCEPT ![env.seg].status = "error"]
        /\ UNCHANGED env
     \/ /\ ~env.denied /\ ~env.raised /\ env.ended = Branches
        /\ workflow' = [workflow EXCEPT ![env.seg].status = "success", ![env.seg].out = env.counts]
        /\ env' = Idle
  /\ UNCHANGED <<shape, chain, executed, results, crashes>>

DbosNext ==
  \/ \E s \in Submissions : Submit(s) \/ StartSegment(s) \/ GetResult(s) \/ DriverDies(s)
  \/ \E i \in 1..Segments : Interpret(i)
  \/ \E b \in Branches : \/ CallBegins(b) \/ ToolRuns(b) \/ StepReturns(b)
                         \/ \E raises \in BOOLEAN : RecordStep(b, raises)
  \/ ProcessDies \/ WorkflowEnds

DbosSpec == DbosInit /\ [][DbosNext]_dbosVars

------------------------------------------------------------------------------
(* The order in which steps start does not depend on which of them ends    *)
(* first.                                                                  *)
OrderFixed ==
  shape.parallel = 1 \/ \A b \in Branches : shape.calls[b] = 1

(* Where steps start in a fixed order, a recovery is faithful: a call has  *)
(* one idempotency key in all its lives and shares it with no other, it is *)
(* given its own result, and however often segments are resubmitted and    *)
(* interpreted again, the chain stays within the limit of the tool.        *)
ReplayFaithful ==
  OrderFixed =>
    /\ \A x, y \in executed : x.call = y.call <=> x.key = y.key
    /\ \A h \in results : h.call = h.given
    /\ Cardinality({x.call : x \in executed}) <= MaxCalls
=============================================================================
