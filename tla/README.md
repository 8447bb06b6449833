# Julep in TLA+

Julep compiles agents and flows into a frozen intermediate representation (IR)
and runs it with one interpreter over several backends (in memory, Temporal,
DBOS, CMA).  This directory holds TLA+ specifications of the parts whose
correctness depends on the order of events, the configurations that check them
with TLC, and theorems about them checked by TLAPS.

## The system

| Part | State it keeps | Operations | What is hard |
|---|---|---|---|
| Durable session (`execution/harness.py`, `SessionWorkflow`) | inbox per channel, sequence cursors, idempotency maps, output buffer, ack cursors, event log, closed flag, carrier | updates `send`, `close`, `ack`, `ack_events`; queries `events`, `state`; the turn loop; continue-as-new | handlers run while a segment boots; retries; timeouts that run a body again; back-pressure |
| Session store (`execution/session_store.py`) | revision log per session | `commit_value`, `load_value` | lost answers, late attempts |
| Session client (`TemporalSessionHandle`) | last record yielded and acked | `events`, `send`, `close` | crashes, acks that fail |
| Interpreter (`execution/interpreter.py`) | call counts, evaluation stack | sequence, parallel, race groups, each, retries | settlement of races, cancellation, budgets |
| Flow runs (`FlowWorkflow`) | projection, gates, reasoner results | signals and queries of one run | signals before the wait, dead letters, egress |
| Agent loop (`AgentWorkflow`, `agent_loop.py`) | agent state, budget, pending actions | decide, act, commit, continue-as-new | budget guard, restart between act and commit |
| Reasoner batching (`execution/reasoner_batch.py`) | waiting requests, open batches | submit, flush, poll, cancel | answers late, twice or never |
| Debounce, coalesce (`execution/debounce.py`, `execution/coalesce.py`) | pending payloads, deadline, leases | signals, flush | signals around a flush and continue-as-new |
| Model calls (`resilience.py`, `execution/llm.py`) | breaker per provider, the walk of a call | call, retry, fall back, re-ask, disclose skills | calls that share a probe; requests that multiply |
| Projection and its store (`projection.py`, `execution/projection_store.py`) | run rows, events, values, idempotency | status changes, inserts, finalization, retention sweep | retried and late writers, sweeps beside runs that share values |
| Local sessions (`session.py`) | queue, emitted records, driver task | send, close, events | a send against a close |
| DBOS backend (`execution/dbos_backend.py`) | recorded steps of each segment's workflow | start, interpret, recover | numbers given anew by a recovery |
| CMA sessions (`execution/cma_session.py`) | inbound queue, the turn's account | send, serve tools, close | a vendor that waits for every answer |
| Control plane (`server/`) | the rows of the store; Temporal | submit, cancel, reconcile, stream | servers that die between two steps, racing retries |
| Artifacts and GC (`artifact_store.py`, `gc.py`, `bundle.py`) | blobs, leases | publish, lease, release, sweep | a sweep beside a publisher |
| Worker store and registry (`worker_store.py`, `registry.py`) | the pures of a process | resolve, register, verify | threads of several runs, restarts with another image |
| Static checks (`validate.py`, `capabilities.py`, `derived.py`) | none | accept or refuse a flow | what the interpreter takes for granted of them |
| MCP credentials (`mcp_auth.py`), secrets | none that is shared | resolve, redact | nothing concurrent |
| Authoring, CLI, executors, observability | files, processes | commands | no protocol of their own |

A client starts a workflow through the control plane or a handle; the workflow
interprets the IR, calls activities on workers, and appends to its event log
and projection; the client polls both.  A session is fed by updates and drained
by acks.  Everything a workflow keeps survives continue-as-new only if it is in
the next segment's input.

## Plan

Done, in the order of what matters most to a user of Julep:

1. The durable session and its client; its theorems.
2. The agent loop and its ledger.
3. The interpreter and its race groups; the flow run around it with gates and
   batches.
4. The control plane with the projection: submission, egress, reconciler,
   stream.
5. The services: collectors, coalescer, model calls, local sessions, artifact
   collection, the worker's registry, the DBOS chain, CMA sessions.
6. What deployment refuses: approvals, races, bodies of sessions.

7. Theorems about sessions, agent runs, flow runs, the control plane, model
   calls, the worker's registry, the two sweeps, the DBOS chain, the collectors,
   the coalescer, local sessions and CMA sessions (see Proofs).

Left:

1. A theorem: `TurnsTakeOneMessage`, whose check recurses over bodies.
2. Models: agents and gates on DBOS; the secrets of the control plane and their
   rotation; staged plans.

## Sessions

`SessionWorkflow` is one session: the chain of Temporal executions joined by
continue-as-new.  A step is what the code runs between two awaits.  The
variables carry the names of the attributes (`pending` is `_pending`, and so
on), one per channel where the code keys a dict by channel; `inp` is the
`SessionInput` of the running segment, `pc` is where `run()` waits.

| Action | Code |
|---|---|
| `Send`, `Close`, `Ack`, `AckEvents` | the update handlers with their validators |
| `Rehydrate` | `_rehydrate`, after the verifyPures activity |
| `Recv`, `GateAnswered`, `Quiesce`, `Timeout` | the outcomes of `_recv_waiter` |
| `Resume` | `run()` after a `RecvTimeout` |
| `StartEmit`, `Emit`, `StartFinalEmit` | `_emit_sink` before and after its wait |
| `TurnDone`, `TurnError`, `FatalError`, `ActivityFails` | how a body ends |
| `AskBeforeRecv`, `FailsBeforeRecv` | gates in front of the recv, and steps there that fail |
| `IssueCommit`, `RunCommit`, `CommitFails` | the commitValue activity and its retries |
| `ContinueAsNew` | `_continue_as_new` |

The body is the user's program.  The model keeps what `validate.py` demands of
it (one recv, before any emit) and otherwise lets it do anything: emit, wait at
gates, finish, fail.  A body may compute, call, think and ask in front of its
recv; a step that fails there writes an error with no turn around it
(`FailsBeforeRecv`), or ends the session.  `accepted` and `consumed` are history: they count
acknowledged sends and messages handed to the body, and no guard of the code
reads them (`Send` uses `accepted` for its bound).

`SessionStore` holds the operators of the revision log.  `Mailbox` is the
abstract specification of the inbound side, a FIFO queue per channel with
exactly-once delivery; `SessionWorkflow` implements it under the mapping
`queue <- InboxIds`, which joins the carried inbox with what was accepted while
a segment boots.  `SessionHandle` composes the workflow with the client that
polls `events` and acks what it yielded.

### Runs

| Run | Question |
|---|---|
| `SessionInbox` | Do acknowledged messages reach the body once and in order over two channels, with gates, timeouts and idempotency keys, and do numbers and maps survive the merge of two segments? |
| `SessionOutput` | Do outputs and records survive acks, eviction, back-pressure and continue-as-new, is the commit of the carrier safe to retry, and do the records tell the turns apart (`TurnOrder`), though steps fail before and after the recv and sessions end anywhere? |
| `Handle` | Is every record seen before it can be evicted, and do emits, sends, closes and the consumer make progress, with consumers that crash and acks that are lost? |

`UnackedKept` of `SessionOutput` joins what is promised of records and of
outputs: neither leaves before it was acknowledged.  `StoreAgrees` says that a
commit never conflicts and that the cursor names the carrier it wrote, also
when an attempt arrives late.

Two runs end in a counterexample on purpose; each is a disagreement between
the code and its documents that PROJECT.json quotes.

* `ReusedKey`: `send` looks up an idempotency key in the running segment only.
  A retry that arrives while the next segment boots is queued again.  (The
  closed flag is read in the same way, so a closed session acknowledges a send
  of that window.)
* `LostAck`: the client counts a failed `ack_events` as acked and never repeats
  it; if that ack would have freed a full output buffer the next emit waits
  until somebody closes the session.

### Bounds

`MaxSends`, `MaxOut` and `MaxSegment` bound the messages, the outputs and the
segments; `MaxCrashes` and `MaxLost` the crashes of the consumer and its lost
acks.  Four sends with two continue-as-new let carried messages, messages of
the boot window and later ones share a channel twice; capacity 2 (1 in the
handle runs) is reached with them; two commit attempts in `SessionOutput` let
an early attempt arrive after a later one succeeded.  One payload suffices except where
fingerprints matter (two in `SessionInbox`).  `EarlyAt` bounds where in the event
log a step may fail before the recv: in `SessionOutput` and `Handle` behind two
records, so that its error follows a first turn and the next turn follows it.
The other runs have none (they would not end in time); that the safety
properties hold for any number of them, at any place, is proved.

CHECK_DEADLOCK is FALSE in these runs: a session ends (`done`, `failed`), and one
whose client sends nothing more waits for ever.

### Fairness

`FairHandleSpec` assumes that Temporal runs an enabled workflow task
(`WorkflowStep`), that it schedules and answers activity attempts
(`ActivityStep`), and that the consumer asks for the next record
(`HandleStep`).  Temporal guarantees the first two as long as a worker polls
its queue; the third is the consumer the code is written for.  Nothing is
assumed of sends, closes, timeouts, crashes, lost acks or failures.

### Proofs

All of these hold for every value of the constants that meets
`SessionAssumption`.

`SessionProofs`, the types and the inbound side:

* `TypeCorrect`: `Spec => []TypeOK`.
* `InboxCorrect`: `Spec => []InboxFIFO`.  The inductive invariant is
  `TypeOK /\ Booting /\ InboxFIFO`; `Booting` says that a segment is booting
  exactly while its capacity is unset, which `InboxFIFO` needs because the
  inbox is split between the carried input and memory until `_rehydrate`.
  Every action keeps a channel's inbox, appends to it or takes its head
  (`InboxStep`).
* `SessionImplementsMailbox`: `Spec => ImplementsMailbox`, from that lemma.

`SessionOutputProofs`, the outbound side:

* `NothingUnackedIsLost` and `BufferedOutputsReported`.  The invariant `OutInv`
  says of the log and of the buffer that they are numbered without gaps from
  the ack cursor to the last number given, and of each output that waits that
  its record does, in memory once the segment is rehydrated and in its input
  before.  Gaps are what it must exclude: eviction and acks drop what is up to
  a number, and only without gaps is that a prefix.
* `TurnsKeepTheirOrder`: `Spec => [](~Gates => TurnOrder)`.  An error is told
  apart by what stands in front of it: behind `started` or an output it is the
  turn's, which `done` or the end must follow; elsewhere it is that of a step
  before the recv, which no `done` may follow.  `TurnInv` ties the last records
  to where `run()` is: inside a turn the last one is `started` or an output, and
  between turns it is not an error that still waits for its `done` (`Between`).
  A gate that times out starts the body again in the middle of a turn, which is
  why bodies with gates are excepted, here as in the run.
* `NoRecordSkipped`: `~Reader /\ HandleSpec => NoEventSkipped`, of the session
  and its consumers together.  `Reading` adds to the invariants of the session
  that what was acked, in this segment or in the one that was carried, was seen,
  and that what was yielded was shown; an ack that falls into the boot of a
  segment keeps it.  `~Reader` says that nobody acks but through `events()`: a
  client that acks what it was not given takes records away from the others.

`SessionProofs` again, from one segment to the next:

* `CommitsAgree`: `StoreState` says that the head of the store is the base of
  the running segment, or what one of its own attempts made of it; attempts of
  earlier segments have an older base and change nothing.
* `WaitingMessagesNamed`: `NamesInv` is about memory and input of a booting
  segment apart, because the handlers number and index from nothing in the one
  while the other is still to be merged: the former are numbered 1, 2, ... and
  a key on record there is the key of one of them.

`DataLemmas` holds what all proofs need about numbers, sequences and counting.

### What the session model leaves out

The interpretation of the body; payloads beyond equality of fingerprints; an
unbounded capacity (`None` in the code after rehydration); more than one output
channel (buffers are independent); `open_receives`; the spent and call-count
bookkeeping behind the budget test, which the model lets go either way;
`loadValue`, which no execution reaches because continue-as-new sets
`has_carrier`; the handle's `close` poll, which only reads.  A query that fails
ends the handle's iterator: `HandleCrash` stands for it.

Facts a reader of the code may not expect: a human gate that times out
evaluates the body from its start, so one turn consumes two messages;
`consumed:<channel>` need not
grow with the messages consumed, because a message restamped at rehydration can
wait in front of one with a smaller number; and acks handled while a segment
boots are overwritten, which the client's next ack makes up for.

## Agent runs

`AgentWorkflow` is one agent run: the chain of segments in which a controller,
a model behind the invokeReasoner activity, answers round by round with one
bounded action.  One coroutine runs the loop; `pc` is where it waits, and an
action of the module is what it does from one await to the next.  `state` is
`AgentState` (round, cost, trace, call counters), `inp` the `AgentInput` of the
segment, `store` the session store when the agent uses it.  `asked`,
`executed`, `bill` and `ended` are history: what the run asked of the world and
what became of it.  `EndsProperly` joins that a result needs the required call
and that a trajectory is closed once, with the run's own status.

| Action | Code |
|---|---|
| `Boot` | `run()` up to the loop: the carried state, inline or loaded |
| `RoundsExhausted`, `CannotThink`, `AskController` | the head of a round |
| `FinishTooEarly`, `Done`, `Output`, `OutputValid`, `OutputInvalid` | FINISH, with `require_tool_call` and the output schema |
| `Escalate`, `Malformed` | ESCALATE, and answers that do not parse |
| `ChooseCalls`, `InputsInvalid`, `ChargeCalls` | CALL and CALL_MANY up to the first call |
| `StartCalls`, `CallAnswers`, `AttemptFails`, `LateAttemptRuns` | the calls: reads of a batch together, others in order; retries |
| `CallsDone`, `ChooseSub`, `StartSub`, `SubReturns` | the end of an action; a sub-flow |
| `IssueCommit`, `RunCommit`, `ContinueAsNew` | the cadence and the commitState activity |
| `Fails`, `Return`, `Raise` | activity failures and the exits of `run()` |

The controller may give any answer at any time, and an activity may run its
tool whether or not its answer arrives, also after the workflow gave it up.

`AgentLedger` is the abstract specification: rounds, cost and trace only grow,
a cost is charged only while the budget has room for it, every action ends a
round that leaves entries, and a settled run changes no more.  Segments, store
and activities do not occur in it.  `AgentWorkflow` implements it under the
mapping `Live`, the loop state wherever it is: in the variable, in the next
segment's input or in the store.

### Runs

| Run | Question |
|---|---|
| `AgentRounds` | Is every cost charged once and within the budget and do call limits hold across aliases and segments (`AccountsKept`); is every idempotency key used once, and does the trace tell what the tools did, in order (`TraceFaithful`), with writes alone? |
| `AgentEnds` | Does the run implement `AgentLedger` through the session store, with commits retried and late; does it end, with its trajectory finished once and with the right status, and never before a required tool ran? |

Only a round that ends with an action reaches the test for continue-as-new; a
round that ends with a re-ask goes on in the same segment, which can therefore
outgrow `continue_as_new_after`.

### Bounds

`MaxMany` bounds the calls of one batch.  All other numbers are settings of
`AgentConfig` or of a contract.  `AgentRounds` has two rounds, each a segment,
of up to two calls: `lookup` and `search` share one wire tool under different
limits, `lookup` is a read that may be retried and `send` a write, which are the
cases the code distinguishes; a budget of 6 at 1 a thought, 1 a call and 5 a
sub-flow runs out before, in and after the second round.  `AgentEnds` has four rounds,
two to a segment, enough for the two re-asks that `require_tool_call` allows
and for a commit that is late for its successor.

Deadlock is checked: `Rest` is what a run that ended does, so a loop that waits
for something nobody gives would be reported.

### Fairness

`FairSpec` assumes that workers poll (`LoopStep`), that the controller answers
(`ControllerStep`) and that an activity answers or fails (`ActivityStep`): each
activity has a start-to-close timeout and, but for the commit, bounded
attempts.  A commit that used up its attempts fails.  No other failure is
assumed, and `Settles` does not need one.

### Proofs

For every value of the constants that meets `AgentAssumption`: any tools, names,
limits, budget, rounds, retries and cadence of segments, with and without the
store.

`AgentProofs` has the types, the store and the loop.  Its invariant `BInv` joins
the types, the shape of the loop (when it has calls, that a round at work is one
it may take), `StoreInv`, which is to the commits of the loop's state what
`StoreState` is to a session's, and `RoundInv`: a carried state has a round
behind it, so that a segment never mistakes it for an empty one.  From it follow
`SegmentsCarryTheState` and, with `AloneInv`, `WritesRunAlone`.  Its lemma
`NextKinds` sorts all steps into nine kinds by what they do to the loop state as
`Live` sees it (a thought, a re-ask, a plan, a charge, an end of a round, ...);
the accounts are then argued over kinds and no longer over actions.

`AgentAccountProofs`:

* `TracesTellWhatHappened`.  `EffectInv` counts the executions behind a cid,
  those included that attempts given up may still bring about, against the
  attempts that were made (`BatchInv`), leaves none in the present round but for
  the calls at hand (`PresentInv`), and finds each of a past round in the trace
  (`PastInv`).  `AskedInv` says the same of what was asked for.
* `RunsEndProperly`, from `ToolInv` and `CloseInv`, which follow the required
  tool and the trajectory to the end of the run.
* `AccountsAreKept`.  `BillInv` is that the bill is what was charged and what
  the step at hand owes, and that the budget has room for what it may still ask
  for; `CountInv` that a counter covers the calls in the trace and those
  reserved, and is within the limit of one of the names of its wire tool.
* `AgentImplementsLedger`: `Spec => ImplementsLedger`, from `BillInv` and
  `NextKinds`.

The inductive invariants were checked on the instances of both runs before they
were proved.  `Settles` is model-checked only.

### What the agent model leaves out

Values, prompts and transcripts; cancellation; call counters inherited from a
parent flow; the cost inside a sub-flow; approval of ungranted tools, which
ends the run as denied here as in the code.

## Flow runs

`Interpreter` is `interpret()` over one frozen flow: a tree of nodes, of which
each has a `phase` ("idle" until its parent makes a task for it, "queued" until
the task gets its turn, "run" between `planned` and `did` or `failed`, then
"ok", "fail" or, if cancelled, "gone").  `prog` is the flow; `counts` is
`_call_counts`.  Two variables are history: `used` counts the calls that were
made, `seed` what a child workflow was told of them.

| Action | Code |
|---|---|
| `BeginLeaf`, `BeginCall`, `BeginChild`, `Passes` | entry to an effect: slot of the gather, charge of the call, start of a child |
| `BeginGroup`, `BeginAlt` | entry to seq, alt, par, each, iter_up_to: the first tasks |
| `Answer`, `ChildReturns` | an activity or child workflow ends; the merge of an agent's counts |
| `WaveDone`, `WaveFails` | the end of a sequence member, a gather or a wave of an each; the first failure is raised |
| `Settle`, `GiveUp`, `TimerFires` | `race_first_from_thunks`: enough successes, too many failures, the delay of a hedge |

`Awaited` is cancellation: a cancelled task cancels what it awaits, level by
level, and nothing that is not awaited any more.

`FlowWorkflow` adds the workflow around it: the segments (`Boot`, `BootFails`,
`Result`, `Cancel`, `Return`, `ContinueAsNew`), the human gates (`Decide` by a
reviewer who read `openGates`, `SubmitHuman`, `GateOpens`, `GateTimesOut`) and
the reasoners that may go through a batch (`ResolveQoS`,
`SubmitReasonerResult`, `TakesResult`, `BatchTimesOut`, `InvokeReasoner`).  The
batch is external here: its answer may come late, twice or never.

`RaceGroup` is the contract of a race, hedge or quorum.  `FlowWorkflow`
implements it at every group of every program (`ImplementsGroups`), with the
branches' phases as the abstract branch states and the segment as the epoch.

`Admission` is what `deploy.py` refuses: calls that need an approval and are
not behind a gate (`check_approval_gates`), and branches of race groups that
must not be cancelled (`check_race_admission`).  The first counts a gate in any
branch of a group as passed, which is sound only because the second keeps gates
out of races; `ApprovalFirst` relates both to what the interpreter does.  What
the code finds by recursion over nodes is a least set here.

### Runs

| Run | Question |
|---|---|
| `Flows` | Do race groups keep their contract, calls their limits and an each its waves (`LimitsKept`); is work left behind only where a gather raised (`WorkAccountedFor`); does an approval come before the call that needs it; does an answer of a batch reach only its own question; does the run end? |

Two runs end in a counterexample.

* `LosersStop`: `asyncio.gather` raises the first failure and leaves its other
  tasks running.  In a branch of a race nobody awaits them any more, so the
  settlement does not cancel them: they start and finish calls of a branch
  that lost.  The same holds below a failed run while it closes.
* `StaleApproval`: cids restart with every segment and the workflow id stays,
  so a decision for a gate that timed out, delivered late, releases the gate of
  the same cid in the next segment.  The ids of batched requests name the
  segment, which is why `ResultForItsQuestion` holds.

### Bounds

Four flows of at most nine nodes, one for each way in which branches meet:
`RaceOfGather` (orphans in a losing branch, then a gate), `QuorumOfHedge` (two
of three, one of them a hedge that starts its second branch late and may fail
in its reducer), `EachOfGather` (waves of two over three items, gathers inside,
an each of no items) and `AgentThenLoop` (an agent, an alt with a sub-flow or a
gate, a loop).  Gathers have two slots for up to three branches; the limits are
three calls of one tool and one of the other, so that losers, agents and the
second of the two segments meet them.  A run has two segments because every
hazard between segments (counts, cids, late answers) needs one boundary.

`Guards` are sixteen more flows, in which a call of `d`, a tool that needs an
approval, stands behind a gate, before one, or behind a group with gates in
some or all of its branches.  `deploy` keeps those that `Admission` accepts, and
only they run: `ApprovalFirst` says that the gate is done when the call begins.

Deadlock is checked: `AtRest` is what an ended run does.

### Fairness

`FairSpec` is weak fairness of `Progress`: workers poll, activities and child
workflows answer or fail within their timeouts, timers fire.  Gates with a
timeout are part of it; nothing is assumed of reviewers and batches, whose
answers a run does not need to end.

### What the flow model leaves out

Values, causes and costs; a gate without a timeout (it waits for its reviewer
for ever, as in the code); retries inside an activity (part of `Answer`); EVAL_PLAN, whose baked plan
is a sequence of one, and LOOP, which is the session; the gather of a session
flow that runs degraded as one run; a cancellation that arrives while a run
closes; the projection and its egress, which `ControlPlane` has.  Cids are the
nodes they belong to.
Steps the code takes without an await between them may interleave in the
model, which adds behaviours and loses none; the cancellation of nested groups
is one step.

Facts a reader of the code may not expect: a group inside a group of the same
merge kind is flattened and its own reducer, quorum and delay are dropped; the
counts of a sub-flow are not merged back, and agents in parallel branches are
each given the whole remainder of a limit, so the limits in `LimitsKept` speak
of a run and of agents one after the other; a batched think without a timeout
waits for its answer for ever, as a gate does; a gate that timed out lets the
flow go on, and nothing at run time looks at the decision that a call stands
behind; `check_approval_gates` does not visit the body of a LOOP, so that the
calls of a session are not checked.

### Proofs

`FlowProofs` speaks of any set of frozen flows, any limits, any `max_parallel`
and any number of segments.  `InterpreterAssumption` is what freezing gives: a
flow is a tree (`IsFlow`), in which a node is a branch of one other node, once,
and nothing is below itself, and an alt has a case (`ALT_NO_CASES` of
`validate.py`); the par nodes that are flattened into another one are no nodes
of it.

* `TasksAccountedFor`: `Spec => []WorkAccountedFor`.  The invariant `FlowInv`
  adds that a node begins before its branches (`Placed`) and that in a sequence,
  an alt or a loop all is done but the last that began (`Serial`); without these
  a cancellation could pass over a task.  `StepKinds` sorts the steps into four
  kinds by what they do to the tasks (one of them begins or ends, a node starts
  branches, a race settles, a run is cancelled), and the proofs go over these.
  What a cancellation reaches is the least set closed under awaiting
  (`AwaitedClosed`, `AwaitedLeast`).
* `GroupsRefine`: `Spec => ImplementsGroups`, at every race group of every flow.
  A step of a run is, for one group, a stutter, a move of one branch or of those
  that begin, its end, or a restart with the next segment.  That the winners are
  as many as were needed is `FirstCount`.
* `FlowLimits`: `Spec => []WavesRespected /\ (Agentless => []LimitsKept)`.
  Waves rest on `InWaves`: of an each, whole waves have begun and those before
  the last are done.  Calls are held to their limit in flows without agents only,
  `Agentless`: of two agents side by side each is given the whole remainder (see
  above), and that agents stand one after the other is a matter of the tree,
  which is left to TLC in `LimitsKept`.
* `AnswersReachTheirThink`: `Spec => ResultForItsQuestion`, from `IdsTell`: an
  id names the segment that asked.

* `ApprovalsComeFirst`:
  `Spec => [](prog \in deploy(Programs) => ApprovalFirst)`.  `OrderInv` is what
  the interpreter gives: what has begun did so under a node that has begun
  (`Rooted`), what stands before it in a sequence is done (`InOrder`), and what
  is done has its branches done, or the case that an alt took (`DoneInside`).
  `GateWasPassed` is about the checks: the nodes that count as gated are the
  least set with the rules of `check_approval_gates`, so it suffices that these
  rules preserve "holds a gate, and has passed one if it is done".  The rule for
  groups does not preserve it at a race, which may be done when the branch with
  the gate is not; that such a branch does not exist is what
  `check_race_admission` adds (`NoGateRaces`).  `GateStandsBefore` takes the
  topmost node that has begun without its gate.

`RunEnds` is model-checked only.

## Control plane

`ControlPlane` is one run as the servers see it.  Servers share nothing but the
store, so a step is one call of the store or of Temporal, and a server may die
between any two.  `row` and `log` are the run's row and its projection events;
`request` are the POSTs that carry its Idempotency-Key; `wf` and `act` the
workflow and its egress activity; `rec` the reconciler; `reader` a client that
streams.

| Action | Code |
|---|---|
| `Submit`, `Create`, `CannotStart`, `SendStart`, `Ambiguous`, `Accept`, `Check` | `routes/runs.py`: a submission, from the lookup of its key to its answer |
| `ServerCrash`, `RecCrash` | the process dies between two of these |
| `StartLands`, `StartLost` | Temporal: a start call may arrive after its caller gave it up |
| `Produce`, `BodyEnds`, `BootFails`, `Flush`, `Finalize`, `ContinueAsNew` | the egress of `FlowWorkflow.run()` |
| `RunPersist`, `RunFinalize` | attempts of the egress activities, repeated and late |
| `Cancel`, `Terminate` | the control routes, and what Temporal makes of them |
| `RecList`, `RecDescribe`, `RecApply`, `RecEvent` | `reconcile_runs_once` |
| `Connect`, `ReadRows`, `CheckStatus`, `Disconnect` | `server/sse.py` with Last-Event-ID |

The run `ControlPlane` asks whether one workflow starts however many requests
race and fail; whether what a workflow stored about its end stays; whether a
stream that ended has told every event in order; and whether submissions, rows
and readers settle.

What can go wrong is bounded by a budget: `MCBudgets` has one for each group of
things that meet each other (retries around a deployment, cancellations of a
run that emits, readers that reconnect, two segments), because together they
would be too many.  Each group allows two of what makes its case.  Deadlock is
not checked: a run that is over has nothing to do.

`ControlPlaneProofs` proves the three safety properties for any releases, batch
size and budgets, and so for any number of requests, faults, segments and
reconnects.  `ControlPlaneAssumption` asks for a release, without which nothing
can be submitted, and `NoRowAssumption` that `None` is not a row.

* `OneKeyOneWorkflow`: `BaseInv` says that one request at most is beyond the
  row it created, and that the call it makes is the only one.
* `EndedStreamsToldAll`: `StreamInv` relates what the workflow emitted, what
  its batches stored, what the row says and what the client has.  The log is
  what was emitted before the cursor, or up to the end of the batch in flight
  (`LogFollows`), and a batch is in it as a whole or not at all
  (`BatchStored`), so that an attempt that is repeated or late adds nothing; a
  run that got to finalize has its terminal event behind all others, and at
  most the reconciler's behind that.  `StreamComplete` says just this of what
  a client got whose stream ended.
* `StoredEndsStick`: from `EndStored`, that the attempts in flight bear the
  status that is stored, and `VerdictHolds`, that the reconciler has a terminal
  verdict only of a workflow that is over.

`RunsSettle` is model-checked only.

`FairSpec` assumes that a server runs the reconciler at every interval and
serves a connected reader.  Nothing is assumed of requests, of Temporal, of
attempts of activities, or of clients that reconnect: the reconciler alone must
settle a run.

Exceptions, each of which the code does have:

* The reconciler takes a start that is on its way for one that failed, if
  Temporal does not know the workflow yet.  The row then says `start_failed`
  and a stream ends at once, with the comment that such a run never produced
  events (`sse.py:43`), while the workflow runs.  `StreamComplete` leaves out
  runs that were given up.
* A reconciler that dies between the terminal status and its event leaves a row
  that no later pass lists: its stream has no terminal event and never ends.
  `RunsSettle` speaks of streams whose terminal event is stored.
* A retry that names no release resolves today's deployment before it is
  compared with the row, so that it conflicts after a deployment.
* `finalizeProjectionRun` writes its status whatever the row said before; that
  is why `FinalSticks` starts at the workflow's own terminal event.

Left out: secrets, schedules, releases, authorization, HTTP itself, and the gap
between allocation and commit of a sequence number in Postgres.  The values that
rows and events refer to, and their sweep, are in `ValueStore` (see Services).

## Services

Small components that share no state with the others.  `MCServices` puts them
into one run, `Services`: a behaviour is one of one `part`, and the variables of
the other parts stay as they began.

| Module | Code | Actions | Question |
|---|---|---|---|
| `Collector` | `debounce.py`, `reasoner_batch.py`, `dispatch.py` | `SubmitItem`, `RepeatSubmit`, `TakeCarried`, `FireBatch`, `BatchHandedOver`, `BatchFlowFails`, `SubmitBatch` to `RouteResult` | Is every submission in exactly one batch, in order, over continue-as-new (`SubmissionsSettle`); does a batch leave neither before nor after its window says (`WindowKept`)? |
| `Coalescer` | `coalesce.py` | `CallReasoner`, `CancelCaller`, `TakeBatch`, `UnderlyingReturns`, `Deliver`, `SleepFails` | Does every call return (`CallsReturn`)? |
| `ModelCalls` | `resilience.py`, `make_resilient_llm_caller` | `StartCall`, `AttemptEnds`, `BackoffEnds` | Does a call follow its policy whatever others do to the breaker (`WalkFaithful`); is a provider that recovers found out (`ProviderRecovers`)? |
| `ReasonerCall` | `complete_reasoner` | `RequestFails`, `AuthFails`, `RequestReplies` | Do fallback, skills and re-asks stay within one call (`OneCall`)? |
| `LocalSession` | `session.py` | `Send`, `Close`, `Recv`, `BodyEmits`, `TurnSucceeds`, `TurnFails`, `FailsEarly`, `CloseCanceled`, `NextEvent` | Does a session end as it tells (`LocalSessionEnds`)? |
| `ArtifactStore` | `bundle.py`, `artifact_store.py`, `gc.py` | `PutBlob`, `AcquireLease`, `LeaseByHand`, `ReleaseLease`, `Mark`, `Enumerate`, `DeleteObject` | Does what leases hold survive sweeps (`LeasedStays`, a part of `SweepsSpare`)? |
| `ValueStore` | `projection_store.py` | `create_run`, `PutInput`, `EndWithoutResult`, `Expire`, `PersistPut`, `PersistInsert`, `PersistFails`, `FinalizeValue`, `finalize_run`, `SelectCandidates` to `Commit` | Does a retention sweep spare the values that others still refer to (`InputsKept` and `ReferencesHold`, the other parts of `SweepsSpare`, which `Sweeps` states of the two together)? |
| `WorkerRegistry` | `worker_store.py`, `registry.py`, `bundle_runner.py`, `verifyPures` | `Resolve`, `LookUp`, `RegisterPure`, `verifyPures`, `WorkerRestarts` | Does a run compute with the code its bundle pins (`RunsItsPures`)? |
| `TurnRules` | `validate.py`, `ir.py` | none: each body is an initial state | Does a body that validation accepts take one message a turn, before it emits (`TurnsTakeOneMessage`)?  `SessionWorkflow` takes that for granted. |
| `DbosChain` | `dbos_backend.py` | `Submit`, `StartSegment`, `GetResult`, `DriverDies`, `Interpret`, `ProcessDies`, `CallBegins`, `ToolRuns`, `RecordStep`, `StepReturns`, `WorkflowEnds` | Does a recovery keep keys, results and limits (`ReplayFaithful`)? |
| `CmaSession` | `cma_session.py` | `SendInput`, `CloseHandle`, `TakeInput`, `CreateSession`, `PolicyEnds`, `SkipTool`, `StartTool`, `ToolRaises`, `ToolReturns`, `AnswerFails`, `TurnEnds`, `TurnBreaks` | Is a message answered, or the reader told that the session closed (`CmaTurnsEnd`)? |

### Bounds

`MaxSignals` is three, one more than a batch holds, so that a surplus crosses
continue-as-new, and ages are told apart up to two, which is as long as any
window. A `DebounceCollector` has a window with a cap, or one without a cap
whose maximal wait is longer than its quiet time; a `BatchCollector` has the
first. A clock slips (see Exceptions) only in larger bursts, which the theorems
cover. Three callers meet flushes of two. Two callers share a chain of two
models (one named twice), with two attempts at a transient failure, one at a
timeout, and a breaker that opens at two failures; one of them, `Watched`, is
told about in full because they are alike. A reply asks for up to two of two
skills, or for one that does not exist. A local session has a queue of two,
three sends, two turns and two closes. Two bundles share a source, one lease is
released or taken by hand, and one sweep runs, at any time. Two recorded runs
share their input, and the event of one shares its value with the result of the
other; sweeps, attempts of egress and finalizations are not bounded. Two runs of
a worker, one of them inline, name two versions of one pure and the same of
another. The bodies of `TurnRules` are the 4,683 trees of two levels, with loops
of two rounds over two items. A DBOS chain has two segments and two submissions
of them, of three calls side by side in two slots or of three calls in a row,
with a limit of five and two crashes; any of the tools may raise. A CMA session
has two messages and a budget of five.

Deadlock is not checked: every part may come to its end.

### Fairness

Of collectors: that a worker runs their workflow, that time passes, and that
each poll goes on.  Of the coalescer: that its flush task runs and the calls
under it return.  Of model calls: that each call's task runs and that a cooldown
passes.  Of local sessions: that driver, closers and reader run.  Of CMA: that
the driver and its tools run, and that the vendor does while every tool use is
answered.  Each is a task of an event loop or a workflow of a worker that polls;
nothing is assumed of clients, cancellations or failures.

### Proofs

`ServiceProofs` proves the safety of the services, each by itself:

* `CallsFollowTheirPolicy`: `ModelCallsSpec => []WalkFaithful`, for any chain of
  models that is not empty, any budgets, threshold and cooldown, and any number
  of other callers, whatever the breaker holds.  `WalkInv` adds what the log has
  to do with the place of the call (`Ready`): the candidate it is about to try
  is the one behind the last that was told or, after a failure with budget, the
  same, and `attempt` counts the tries of it that the log holds.  That skipping
  open circuits keeps `Ready`, however many there are, takes a least
  counterexample (`SkipsReady`).
* `RunsComputeWithTheirPures`: `WorkerSpec => []RunsItsPures`, for any bundles,
  pures, sources and runs that meet `WorkerAssumption` (`Absent` is not a
  pure, and inline runs are runs).  It speaks of a run that goes on in the
  process that resolved its bundle, and of inline runs after restarts; of the
  others see Exceptions.  The invariant adds that what a run saw of the entry it
  is about to set still holds unless another thread set it in between (`LookStillHolds`).
* `SweepsSpareLeasedCode`: `ArtifactSpec => []LeasedStays`, for any number of
  sweeps.  `MarkProtects`: what the lease of a bundle holds that was whole is
  among what the sweep marked until it listed the store, and not among what it
  collects from then on.  A lease that is taken anew may hold more than the one
  before (`LeaseKeepsInv`).
* `SweepsSpareInputs` and `SweepsSpareReferences`:
  `ValueSpec => []InputsKept` and `ValueSpec => ReferencesHold`, for any sharing
  of values.  The invariant is that inputs are put for rows only, since a row
  that names its input before it is put is what protects the value, and that
  only references which the sweep deletes too, or which came late, are to a
  value that it has deleted and not yet committed (`DoomedUnused`): the input of
  a run whose row came late is put when the sweep is over, because its insert
  waits for it.

* `SweepsSpareTheUsed`: `ArtifactSpec /\ ValueSpec => SweepsSpare`, the
  conjunction of these three: the two sweeps share no state (`Sweeps`).

* `RecoveriesAreFaithful`: `DbosSpec => []ReplayFaithful`, for any shapes of
  flow, limit, number of segments and submissions, and any crashes
  (`DbosAssumption` asks for branches of at least one call).  It is about
  behaviours in which no tool raises in front of other calls of its branch
  (`NothingSkipped`); that the others are faithful as well is checked by TLC
  only, whose run lets any call raise.  Calls are numbered
  branch by branch (`Number`), and where the order of starts is fixed
  (`OrderFixed`) a process that interprets a segment is always as far as some
  number of branches (`AsFar`), whether it started afresh or replays what its
  predecessor recorded.  `ReplayInv` says that of the process (`EnvFollows`), of
  what is durable (`WorkflowsAgree`: records bear their own numbers and counts
  are those of the segments before) and of what the tools saw
  (`RanAsNumbered`).  The limit then bounds the calls because their numbers are
  distinct and below it (`CallsWithinLimit`).
* `CallsStayOneCall`: `ReasonerSpec => []OneCall`, for any skills, asks, re-asks
  and error budget that is not zero, without which an unknown skill would keep
  the tool open (the code fixes it to two, `llm.py:668`).  `RequestsPaid` is an
  account: each request is paid for by a skill that it loaded, by a part of the
  error budget, by a re-ask or by the one fallback of the response format.

* `SubmissionsAreKept` and `WindowsAreKept`: `CollectorSpec => []ItemsKept` and
  `CollectorSpec => WindowKept`, for any windows and any number of submissions
  (`CollectorAssumption` is what `BatchWindow.__post_init__` refuses to be
  without).  `Collected` says what leaves and what is held make up what was
  taken.  `ClocksKept` follows the clocks through the three places where a
  segment waits: ages fall along the items (`Aging`), and each clock is at least
  as old as a certain item and, for a debounced batch, no older than the batch
  (`Dates`): the carried one as old as the last that was carried (`BootClocks`),
  that of the segment's own first item as old as that item (`CollectClocks`),
  and what a surplus takes as old as its newest (`FiredClocks`).  That is all
  the code keeps: a clock is as old as the *first* item too only while no
  surplus made it slip (`slipped`), which the bounds of the run are too small
  to show: the invariant was checked with six submissions and a cap of three
  before it was proved.  `SubmissionsSettle` of the run is `ItemsKept` and what
  comes in the end.

* `NobodyIsForgotten`: `CoalescerSpec => []NobodyForgotten`, for any callers and
  any `MaxBatch` that `__init__` admits.  The invariant adds that a batch is kept
  only while it is dispatched (`BatchesInFlight`): its callers are then answered
  together, and the flush task goes on if others got in line meanwhile.
  `CallsReturn` is this and what comes in the end.
* `SessionsEndAsTheySay`: `LocalSpec => []EndTold`, for any capacity, limits and
  numbers of sends and closes.  `MessagesInLine` says the queue is what was
  accepted and not yet handed over, in order, with wake-ups anywhere between:
  that is why an empty queue behind a wake-up means that nothing is left, even
  with several closes and sends that race them.  `EmitsInOrder` says that the
  numbers of emits ascend from the reader to the end of its queue, so that
  evicting the one it had leaves the others.  `LocalSessionEnds` is this and
  what comes in the end.
* `TurnsStayInBounds`: `CmaSpec => []TurnsKeptInBounds`, for any limits and for
  costs that are not negative.  `PaidAhead`: what the running tool will be charged
  is left in the budget and in the rounds.  `UsesToAnswer`: the vendor waits for
  exactly the tool uses that are left to read, the one whose tool runs included,
  unless one was skipped; tools run only while the vendor does.  `CmaTurnsEnd` is
  this and what comes in the end.

`TurnRules` is model-checked only, since its operators are recursive, and so is
what comes in the end.

### Exceptions

* A `BatchCollector` whose segment was idle counts the maximal wait from the
  start of that segment (`reasoner_batch.py:231`), so that its first call may
  leave early; `WindowKept` does not hold it to its wait.
* A collector that keeps a surplus keeps the clock of its segment's own first
  item, `_first_at`, if there is one (`debounce.py:177`,
  `reasoner_batch.py:286`).  That item came while the segment booted and stands
  behind those that were carried.  If a burst was so large that carried items
  are left over a second time, they are carried on with the clock of an item
  younger than they are, and their `max_wait_s` begins anew, while the comment
  in `debounce.py:112` says that a carried batch keeps its times and fires at
  once when it is due.  TLC finds it with a cap of three and six submissions:
  one fires, four come while its flow runs, one comes while the next segment
  boots, three fire, and the fourth of the four waits for as long as the last.
  `slipped` remembers such a surplus, and `WindowKept` holds everything else to
  its wait.
* A refusal, a configuration error and bad model behaviour settle no probe, so
  that a provider that answers only so keeps an open circuit
  (`llm.py:1218-1248`); `ProviderRecovers` speaks of one that replies.
* A bundle that is leased while a sweep runs may be left incomplete, as a FIXME
  in `gc.py:159` says; `LeasedStays` holds the others.  So may one whose lease
  is replaced by one that names the signature while a sweep runs.
* A lease may name no signature (`LeaseByHand`; `Deployment.publish` always names
  it).  The closure of such a lease is without it (`gc.py:118`), a sweep deletes
  it, and the bundle, still leased, can no longer be resolved: FIXME(P5-2) in
  `gc.py:39`.  `LeasedStays` promises what the lease holds (`Kept`), and so not
  that bundle's signature.
* Egress puts a value before the event that refers to it, and
  `finalize_run` passes over a value that it finds (`projection_store.py:1887`,
  `1115`).  A sweep between the two deletes a value that only expired runs
  share, and the new reference has none.  Inputs are safe because the row names
  them first (`InputsKept`; with the order reversed TLC finds a lost input);
  of the others `ReferencesHold` says that what was found once stays, unless the
  reference came between the last statement of a sweep and its commit
  (`retention.late`): that statement looks for references in its own snapshot
  (`projection_store.py:1735`) and the transaction commits later, under READ
  COMMITTED and without a foreign key, so that an event or a row that is
  committed in between refers to a value that is there and then gone, though
  `db sweep` is said to delete unreferenced values only
  (`docs-site/content/docs/deploy/control-plane.md:429`).  The model splits the
  statement from the commit for this (`DeleteValues`, `Commit`).  A value whose
  event never came, or whose row was swept before the input was put, has no
  reference, and no later sweep lists it.
* Two threads that are both between their look at a pure's entry and its
  assignment both register it (`registry.py:429`, `470`): `RunsItsPures` leaves
  those out, so that this race is described here and not caught.  One worker
  cannot serve two versions of a pure at a time.
* `bundle_runner.py` populates the registry before replay, because activities are
  not executed again, but only for a `FlowWorkflow` with a bundle in its input
  (`bundle_runner.py:90`).  A session (`harness.py:2297`), and a flow whose bundle
  comes with the resolution of its ref (`harness.py:1518`), replay the recorded
  answer of `verifyPures` and compute with what a new image registered, or fail
  for want of it.  `Inline` are the runs that resolve again; the others are
  "replayed" after a restart, and `RunsItsPures` does not speak of them.
* On DBOS a step has the number of its start.  Where branches of several steps
  run in parallel, which step starts next depends on which ended first, and a
  recovery may order them otherwise: with two branches of two calls in two slots
  TLC finds keys that change, results that are swapped, and a limit of three
  that is exceeded.  `ReplayFaithful` therefore speaks of flows whose steps
  start in a fixed order (`OrderFixed`).
* In DEV mode a CMA session passes over a tool use that it denies, and sends no
  answer (`cma_session.py:275`), while the vendor pauses the session until it
  has one: the turn then never ends.  `CmaTurnsEnd` leaves such sessions out.
  Tools that raise cost no round, so that without a budget `max_rounds` does
  not end a turn of them.

Facts a reader may not expect: the docstring of the breaker says that others
stay blocked while a probe is out (`resilience.py:215`), which ends when the
probe outlasts the cooldown; a retry after its backoff does not look at the
circuit again; an invalid reply is returned once the re-asks are used up; an
attempt of submitBatch that lost its answer submits the batch again; a call
that the provider leaves out of its results is never answered
(`reasoner_batch.py:375`), and a result under an id nobody knows is retried for
ever; a wake-up counts as a pending message of a local session
(`session.py:936`); `max_turns` ends a session with an error (`:1063`); a caller
of `close()` that is canceled cancels the driver (`:1147`).

## Proofs

| Module | Theorems |
|---|---|
| `SessionProofs` | `TypeCorrect`, `InboxCorrect`, `SessionImplementsMailbox`, `CommitsAgree`, `WaitingMessagesNamed` |
| `SessionOutputProofs` | `NothingUnackedIsLost`, `BufferedOutputsReported`, `TurnsKeepTheirOrder`, `NoRecordSkipped` |
| `AgentProofs` | `SegmentsCarryTheState`, `WritesRunAlone` |
| `AgentAccountProofs` | `RunsEndProperly`, `TracesTellWhatHappened`, `AccountsAreKept`, `AgentImplementsLedger` |
| `FlowProofs` | `TasksAccountedFor`, `GroupsRefine`, `FlowLimits`, `AnswersReachTheirThink`, `ApprovalsComeFirst` |
| `ControlPlaneProofs` | `OneKeyOneWorkflow`, `EndedStreamsToldAll`, `StoredEndsStick` |
| `ServiceProofs` | `CallsFollowTheirPolicy`, `RunsComputeWithTheirPures`, `SweepsSpareLeasedCode`, `SweepsSpareInputs`, `SweepsSpareReferences`, `RecoveriesAreFaithful`, `CallsStayOneCall`, `SubmissionsAreKept`, `WindowsAreKept`, `SweepsSpareTheUsed`, `NobodyIsForgotten`, `SessionsEndAsTheySay`, `TurnsStayInBounds` |

Each is a theorem about the component's own specification, which the runs check
with values for the constants, and needs no fairness; of the constants it takes
what their assumptions say.  The bounds of the models (`MaxSends`,
`MaxMany`, `Budgets` and so on) are constants in them, so that they hold for
every bound.  What stays with TLC: liveness under fairness, which the prover
cannot reason about (ENABLED); `TurnsTakeOneMessage`, whose operators recurse
over bodies of any depth, which takes induction over data; and the properties
that the Plan lists as left.

## Not modelled

* Data transformations without protocol state: the authoring surface, freezing
  and the writing of deployments, schemas and shapes, prompts, the parsing of
  provider replies, snapshots of MCP surfaces, redaction.  A model of them would
  be the code again.  They are a large part of the source, which is why a small
  part of its lines is covered.
* Vendored code and sandboxes: the wheels under `_wasm`, the executors, which
  start processes and copy bytes.
* Commands and exporters: the CLI, which runs once and calls the parts above;
  tracing, which has no influence on a run.
* In-memory local runs: the interpreter over an environment without failures;
  its flows are those of `Interpreter`.
* The facade of agents, `turn.py` and staged plans: the round of
  `AgentWorkflow` without segments and activities.
* The client of the control plane: requests and retries, which `Requests` of
  `ControlPlane` stands for; its own choice of what to retry is left out.
* Trajectories: appended rows with no reader in a run.
* In modelled parts: agents, gates and sub-flows on DBOS; the one-shot loops of
  `cma.py`; S3 as an artifact store, which refuses to collect; signatures and
  native grants of bundles.
