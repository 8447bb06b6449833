---------------------------- MODULE AgentWorkflow ----------------------------
(***************************************************************************)
(* AgentWorkflow: one agent run.  Round by round a controller (a model     *)
(* behind the invokeReasoner activity) answers with one bounded action,    *)
(* which the workflow authorizes, validates, charges and carries out; the  *)
(* loop's state is carried through continue-as-new, in the workflow input  *)
(* or as a revision of the session store.                                  *)
(*                                                                         *)
(* One coroutine runs the loop, so an action is what happens between two   *)
(* awaits; only the reads of a CALL_MANY are awaited together.  Of values  *)
(* the model keeps what the loop decides on: the names of tools and the    *)
(* outcome of calls.  The controller may answer anything at any time.      *)
(***************************************************************************)
EXTENDS Naturals, Sequences, FiniteSets, FiniteSetsExt, Functions, SessionStore

CONSTANTS
  Tools,            \* provider-visible tool names
  Wire,             \* tool_aliases: the wire tool behind each name
  Limit, NoLimit,   \* maxCalls of each tool's contract, if any
  Granted,          \* tools the agent may call without approval
  Reads,            \* tools whose contract's effect is READ
  Retryable,        \* tools with an asserted contract that allows retries
  Budget, ThinkCost,          \* of AgentConfig, in units of a tool call
  MaxRounds, ContinueAfter,   \* of AgentConfig
  RequireToolCall,            \* of AgentConfig
  HasSchema, OutputRetries,   \* output_schema is set, and output_retries
  HasToolSchemas,   \* tool inputs are checked against frozen schemas
  UseStore,         \* use_session_store
  Attempts,         \* idempotent_max_attempts
  CommitAttempts,   \* maximum_attempts of the commitState activity
  MaxMany           \* bound: calls in one CALL_MANY

ToolCost == 1       \* DEFAULT_TOOL_COST
SubCost == 5        \* DEFAULT_SUB_COST
MaxReasks == 2      \* of require_tool_call

Rounds == 0..MaxRounds
Wires == Range(Wire)
Cids == ({"round", "call", "sub"} \X Rounds) \cup ({"call"} \X Rounds \X (1..MaxMany))

ASSUME AgentAssumption ==
  /\ NoLimit \notin Nat
  /\ DOMAIN Wire = Tools /\ Limit \in [Tools -> Nat \cup {NoLimit}]
  /\ Granted \subseteq Tools /\ Reads \subseteq Tools /\ Retryable \subseteq Tools
  /\ Budget \in Nat /\ ThinkCost \in Nat
  /\ MaxRounds \in Nat /\ ContinueAfter \in Nat /\ OutputRetries \in Nat
  /\ {RequireToolCall, HasSchema, HasToolSchemas, UseStore} \subseteq BOOLEAN
  /\ {Attempts, CommitAttempts, MaxMany} \subseteq Nat \ {0}

VARIABLES
  state,       \* AgentState: round, spent, trace, call_counts
  baseline,    \* baseline_round
  pc,          \* where the coroutine is
  many,        \* whether the action is a CALL_MANY
  calls,       \* the calls of the round's action
  outcome,     \* how the run settled
  finished,    \* _trajectory_finished
  inp, segment,                        \* AgentInput of this segment, and its segment_seq
  store, attempt, inflight, answer,    \* the commits of the loop state
  asked,       \* history: activities and children scheduled under each cid
  executed,    \* history: times the tool behind a cid ran
  late,        \* attempts given up that may still run
  bill,        \* history: cost of all that was asked for
  ended        \* history: statuses given to finishTrajectory

loop == <<state, baseline, pc, many, calls, outcome, finished>>
chain == <<inp, segment>>
commits == <<store, attempt, inflight, answer>>
world == <<asked, executed, late, bill, ended>>

vars == <<loop, chain, commits, world>>

Open == "open"
Failed == {"controller_error", "max_rounds", "over_budget", "denied",
           "output_validation_failed"}
Outcomes == Failed \cup {"done", "escalated", "activity_failed"}
NoAnswer == 0
NoTool == "none"

(* The loop state of a first segment; a state is its own fingerprint.      *)
Blank == [round |-> 0, spent |-> 0, trace |-> <<>>,
          counts |-> [k \in Tools \cup Wires |-> 0]]

(* Mutant of Carried: the cursor is not followed.                          *)
CarriedInline == inp.state

Carried == IF inp.cursor # 0 THEN store[inp.cursor].value ELSE inp.state

Init ==
  /\ state = Blank /\ baseline = 0
  /\ pc = "boot" /\ many = FALSE /\ calls = <<>>
  /\ outcome = Open /\ finished = FALSE
  /\ inp = [state |-> Blank, cursor |-> 0] /\ segment = 0
  /\ store = <<>> /\ attempt = 0 /\ inflight = {} /\ answer = NoAnswer
  /\ asked = [c \in Cids |-> 0] /\ executed = [c \in Cids |-> 0]
  /\ late = [c \in Cids |-> 0]
  /\ bill = 0 /\ ended = <<>>

(***************************************************************************)
(* Steps of the loop's accounts.                                           *)
(***************************************************************************)
WouldExceed(s, cost) == s.spent + cost > Budget

Thought == [state EXCEPT !.spent = @ + ThinkCost]

Entry(decision, ref, cid, failed) ==
  [decision |-> decision, ref |-> ref, cid |-> cid, failed |-> failed]

Recorded(s, entries) == [s EXCEPT !.trace = @ \o entries, !.round = @ + 1]

Recordings(s, decision) == Cardinality({i \in DOMAIN s.trace : s.trace[i].decision = decision})

CalledTool(s) == \E e \in Range(s.trace) : e.decision = "call" /\ ~e.failed

Ask(cids, cost) ==
  /\ asked' = [c \in Cids |-> asked[c] + (IF c \in cids THEN 1 ELSE 0)]
  /\ bill' = bill + cost

(* A terminal result: the trajectory is finished before it is returned.    *)
Finish(result, s) ==
  /\ state' = s
  /\ outcome' = result
  /\ finished' = TRUE
  /\ ended' = Append(ended, IF result \in Failed THEN "failed" ELSE "completed")
  /\ pc' = "return"
  /\ calls' = <<>>
  /\ UNCHANGED <<baseline, many, chain, commits, asked, executed, late, bill>>

(* An answer that led to no action: feedback for the next round.           *)
Reask(s, entries) ==
  /\ state' = Recorded(s, entries)
  /\ pc' = "round"
  /\ calls' = <<>>
  /\ UNCHANGED <<baseline, many, outcome, finished, chain, commits, world>>

Await(s, place) ==
  /\ state' = s /\ pc' = place
  /\ UNCHANGED <<baseline, outcome, finished, chain, commits, world>>

(***************************************************************************)
(* A round: the limits, the controller, and the answers that need no       *)
(* action.                                                                 *)
(***************************************************************************)
Boot ==
  /\ pc = "boot"
  /\ baseline' = Carried.round
  /\ state' = Carried /\ pc' = "round"
  /\ UNCHANGED <<many, calls, outcome, finished, chain, commits, world>>

RoundsExhausted == pc = "round" /\ state.round >= MaxRounds /\ Finish("max_rounds", state)

CannotThink ==
  /\ pc = "round" /\ state.round < MaxRounds /\ WouldExceed(state, ThinkCost)
  /\ Finish("over_budget", state)

AskController ==
  /\ pc = "round" /\ state.round < MaxRounds /\ ~WouldExceed(state, ThinkCost)
  /\ Ask({<<"round", state.round>>}, ThinkCost)
  /\ pc' = "think"
  /\ UNCHANGED <<state, baseline, many, calls, outcome, finished, chain, commits,
                 executed, late, ended>>

(* FINISH before any tool was called, although the agent must call one.    *)
FinishTooEarly ==
  /\ pc = "think" /\ RequireToolCall /\ ~CalledTool(state)
  /\ IF Recordings(state, "reask") >= MaxReasks
     THEN Finish("controller_error", Thought)
     ELSE Reask(Thought, <<Entry("reask", NoTool, <<"round", state.round>>, TRUE)>>)

MayFinish == pc = "think" /\ (RequireToolCall => CalledTool(state))

Done == MayFinish /\ ~HasSchema /\ Finish("done", Thought)

Output ==
  /\ MayFinish /\ HasSchema
  /\ Await(Thought, "output")
  /\ UNCHANGED <<many, calls>>

OutputValid == pc = "output" /\ Finish("done", state)

OutputInvalid ==
  /\ pc = "output"
  /\ IF Recordings(state, "output_reask") < OutputRetries
     THEN Reask(state, <<Entry("output_reask", NoTool, <<"round", state.round>>, TRUE)>>)
     ELSE Finish("output_validation_failed", state)

Escalate == pc = "think" /\ Finish("escalated", Thought)
Malformed == pc = "think" /\ Finish("controller_error", Thought)

(***************************************************************************)
(* CALL and CALL_MANY: budget, grants, input validation and call counters  *)
(* are passed before the first call is made.                               *)
(***************************************************************************)
Batches == UNION {[1..n -> Tools] : n \in 1..MaxMany}

ChooseCalls(tools, batch) ==
  /\ pc = "think"
  /\ batch \/ Len(tools) = 1
  /\ \/ /\ WouldExceed(Thought, ToolCost * Len(tools))
        /\ Finish("over_budget", Thought)
     \/ /\ ~WouldExceed(Thought, ToolCost * Len(tools))
        /\ ~(Range(tools) \subseteq Granted)
        /\ Finish("denied", Thought)
     \/ /\ ~WouldExceed(Thought, ToolCost * Len(tools))
        /\ Range(tools) \subseteq Granted
        /\ Await(Thought, "inputs")
        /\ many' = batch
        /\ calls' = [i \in DOMAIN tools |->
                       [tool |-> tools[i], status |-> "waiting", tries |-> 0]]

Cid(i) == IF many THEN <<"call", state.round, i>> ELSE <<"call", state.round>>

(* The calls whose input is refused, in the order of the batch.            *)
Rising == {bad \in UNION {[1..n -> 1..MaxMany] : n \in 1..MaxMany} :
             \A i, j \in DOMAIN bad : i < j => bad[i] < bad[j]}

InputsInvalid(bad) ==
  /\ pc = "inputs" /\ HasToolSchemas
  /\ Range(bad) \subseteq DOMAIN calls
  /\ Reask(state, [i \in DOMAIN bad |->
                     Entry("tool_input_reask", calls[bad[i]].tool, Cid(bad[i]), TRUE)])

(* The counter a call is charged to: that of the wire tool.                *)
CountKey(tool) == Wire[tool]

(* The counters once the first n calls were charged.                       *)
ChargedCounts(n) ==
  [k \in DOMAIN state.counts |->
     state.counts[k] +
       Cardinality({i \in 1..n : /\ CountKey(calls[i].tool) = k
                                 /\ Limit[calls[i].tool] # NoLimit})]

(* charge_tool_call refuses call i; the calls before it stay charged.      *)
Refused(i) ==
  /\ Limit[calls[i].tool] # NoLimit
  /\ ChargedCounts(i - 1)[CountKey(calls[i].tool)] >= Limit[calls[i].tool]

RefusedCalls == {i \in DOMAIN calls : Refused(i)}

ChargeCalls ==
  /\ pc = "inputs"
  /\ IF RefusedCalls # {}
     THEN Finish("denied",
                 [state EXCEPT !.counts = ChargedCounts(Min(RefusedCalls) - 1)])
     ELSE /\ Await([state EXCEPT !.counts = ChargedCounts(Len(calls))], "calls")
          /\ UNCHANGED <<many, calls>>

(***************************************************************************)
(* The calls.  The reads of a batch run together; the other calls follow   *)
(* one at a time, in order.  An attempt may run the tool whether or not    *)
(* its answer arrives, and even after it was given up; a call fails when   *)
(* its attempts are used up, and its failure is an answer to the loop.     *)
(***************************************************************************)
With(status) == {i \in DOMAIN calls : calls[i].status = status}
WaitingReads == {i \in With("waiting") : many /\ calls[i].tool \in Reads}

(* Mutant of Startable: all calls of a batch run together.                 *)
StartableTogether == With("waiting")

Startable ==
  IF WaitingReads # {} THEN WaitingReads
  ELSE {i \in With("waiting") : With("running") = {} /\ i = Min(With("waiting"))}

StartCalls ==
  /\ pc = "calls" /\ Startable # {}
  /\ calls' = [i \in DOMAIN calls |->
                 IF i \in Startable THEN [calls[i] EXCEPT !.status = "running"]
                 ELSE calls[i]]
  /\ Ask({Cid(i) : i \in Startable}, ToolCost * Cardinality(Startable))
  /\ UNCHANGED <<state, baseline, pc, many, outcome, finished, chain, commits,
                 executed, late, ended>>

MaxTries(tool) == IF tool \in Retryable THEN Attempts ELSE 1

Ran(cid) == executed' = [executed EXCEPT ![cid] = @ + 1]

CallAnswers(i) ==
  /\ pc = "calls" /\ i \in With("running")
  /\ calls' = [calls EXCEPT ![i].status = "ok"]
  /\ Ran(Cid(i))
  /\ UNCHANGED <<state, baseline, pc, many, outcome, finished, chain, commits,
                 asked, late, bill, ended>>

AttemptFails(i) ==
  /\ pc = "calls" /\ i \in With("running")
  /\ LET tries == calls[i].tries + 1
     IN  calls' = [calls EXCEPT
                     ![i].tries = tries,
                     ![i].status = IF tries < MaxTries(calls[i].tool)
                                   THEN "running" ELSE "failed"]
  /\ \/ UNCHANGED <<executed, late>>
     \/ Ran(Cid(i)) /\ UNCHANGED late
     \/ late' = [late EXCEPT ![Cid(i)] = @ + 1] /\ UNCHANGED executed
  /\ UNCHANGED <<state, baseline, pc, many, outcome, finished, chain, commits,
                 asked, bill, ended>>

LateAttemptRuns(cid) ==
  /\ late[cid] > 0
  /\ late' = [late EXCEPT ![cid] = @ - 1]
  /\ Ran(cid)
  /\ UNCHANGED <<loop, chain, commits, asked, bill, ended>>

(***************************************************************************)
(* The end of a round that acted.                                          *)
(***************************************************************************)
ShouldContinueAsNew(s) == ContinueAfter > 0 /\ s.round - baseline >= ContinueAfter

EndRound(s, cost, entries) ==
  LET after == Recorded([s EXCEPT !.spent = @ + cost], entries)
  IN  /\ Await(after, IF ShouldContinueAsNew(after) THEN "commit" ELSE "round")
      /\ calls' = <<>>
      /\ UNCHANGED many

(* Mutant of CallsDone: the round waits for failed calls to succeed.       *)
CallsDoneAllOk ==
  /\ pc = "calls" /\ With("ok") = DOMAIN calls
  /\ EndRound(state, ToolCost * Len(calls),
              [i \in DOMAIN calls |-> Entry("call", calls[i].tool, Cid(i), FALSE)])

(* Mutant of CallsDone: the batch is recorded as it completed, reads first.*)
CallsDoneReadsFirst ==
  /\ pc = "calls" /\ With("waiting") \cup With("running") = {}
  /\ LET entries == [i \in DOMAIN calls |->
                       Entry("call", calls[i].tool, Cid(i), calls[i].status = "failed")]
         isRead(e) == e.ref \in Reads
         isOther(e) == e.ref \notin Reads
     IN  EndRound(state, ToolCost * Len(calls),
                  SelectSeq(entries, isRead) \o SelectSeq(entries, isOther))

CallsDone ==
  /\ pc = "calls" /\ With("waiting") \cup With("running") = {}
  /\ EndRound(state, ToolCost * Len(calls),
              [i \in DOMAIN calls |->
                 Entry("call", calls[i].tool, Cid(i), calls[i].status = "failed")])

(* SUB: a sub-flow runs as a child workflow.                               *)
ChooseSub(granted) ==
  /\ pc = "think"
  /\ IF WouldExceed(Thought, SubCost) THEN Finish("over_budget", Thought)
     ELSE IF ~granted THEN Finish("denied", Thought)
     ELSE Await(Thought, "resolve") /\ UNCHANGED <<many, calls>>

StartSub ==
  /\ pc = "resolve"
  /\ Ask({<<"sub", state.round>>}, SubCost)
  /\ pc' = "sub"
  /\ UNCHANGED <<state, baseline, many, calls, outcome, finished, chain, commits,
                 executed, late, ended>>

SubReturns ==
  /\ pc = "sub"
  /\ EndRound(state, SubCost, <<Entry("sub", NoTool, <<"sub", state.round>>, FALSE)>>)

(***************************************************************************)
(* Continue-as-new, through the session store when it is used.  A commit   *)
(* attempt runs once, perhaps after it was given up, and only the answer   *)
(* of the latest one is heard, if it is not lost on the way.               *)
(***************************************************************************)
(* Mutant of IssueCommit: attempts are not counted.                        *)
IssueCommitForever ==
  /\ pc = "commit" /\ UseStore /\ answer = NoAnswer
  /\ attempt' = attempt + 1
  /\ inflight' = inflight \cup
       {[base |-> inp.cursor, value |-> state, try |-> attempt + 1]}
  /\ UNCHANGED <<loop, chain, store, answer, world>>

IssueCommit ==
  /\ pc = "commit" /\ UseStore /\ answer = NoAnswer /\ attempt < CommitAttempts
  /\ attempt' = attempt + 1
  /\ inflight' = inflight \cup
       {[base |-> inp.cursor, value |-> state, try |-> attempt + 1]}
  /\ UNCHANGED <<loop, chain, store, answer, world>>

Heard(request) ==
  /\ pc = "commit" /\ answer = NoAnswer
  /\ request = [base |-> inp.cursor, value |-> state, try |-> attempt]

RunCommit(request) ==
  /\ request \in inflight
  /\ inflight' = inflight \ {request}
  /\ store' = CommitLog(store, request.base, request.value)
  /\ \/ UNCHANGED answer
     \/ /\ Heard(request)
        /\ ~CommitConflicts(store, request.base, request.value)
        /\ answer' = CommitCursor(store, request.base, request.value)
  /\ UNCHANGED <<loop, chain, attempt, world>>

(* Mutant of CarriedInput: the cost starts anew with each segment.         *)
CarriedUnspent == [state |-> [state EXCEPT !.spent = 0], cursor |-> answer]

CarriedInput ==
  IF UseStore THEN [state |-> Blank, cursor |-> answer]
  ELSE [state |-> state, cursor |-> 0]

ContinueAsNew ==
  /\ pc = "commit"
  /\ UseStore => answer # NoAnswer
  /\ inp' = CarriedInput /\ segment' = segment + 1
  /\ state' = Blank /\ baseline' = 0
  /\ pc' = "boot" /\ finished' = FALSE
  /\ attempt' = 0 /\ answer' = NoAnswer
  /\ UNCHANGED <<many, calls, outcome, store, inflight, world>>

(***************************************************************************)
(* The ends of a run.  An activity or child failure that the loop does not *)
(* turn into an answer ends it, wherever it waits: tool surface drift and  *)
(* a lost blob do so while other calls of the batch are still running.     *)
(***************************************************************************)
CommitExhausted == UseStore /\ answer = NoAnswer /\ attempt = CommitAttempts

Fails(abandoned) ==
  /\ \/ pc \in {"boot", "think", "output", "inputs", "resolve", "sub"}
     \/ pc = "calls" /\ With("waiting") # DOMAIN calls
     \/ pc = "commit" /\ CommitExhausted
  /\ abandoned \subseteq With("running")
  /\ late' = [c \in Cids |-> late[c] + (IF c \in {Cid(i) : i \in abandoned} THEN 1 ELSE 0)]
  /\ outcome' = "activity_failed" /\ pc' = "raise" /\ calls' = <<>>
  /\ UNCHANGED <<state, baseline, many, finished, chain, commits, asked, executed,
                 bill, ended>>

(* raise_for_agent_terminal, on the way out of run().                      *)
Return ==
  /\ pc = "return"
  /\ pc' = IF outcome \in Failed THEN "raise" ELSE "completed"
  /\ UNCHANGED <<state, baseline, many, calls, outcome, finished, chain, commits, world>>

(* Mutant of Raise: whether the trajectory was finished is not asked.      *)
RaiseAgain ==
  /\ pc = "raise"
  /\ pc' = "failed"
  /\ finished' = TRUE
  /\ ended' = Append(ended, "failed")
  /\ UNCHANGED <<state, baseline, many, calls, outcome, chain, commits, asked,
                 executed, late, bill>>

Raise ==
  /\ pc = "raise"
  /\ pc' = "failed"
  /\ finished' = TRUE
  /\ ended' = IF finished THEN ended ELSE Append(ended, "failed")
  /\ UNCHANGED <<state, baseline, many, calls, outcome, chain, commits, asked,
                 executed, late, bill>>

Ended == pc \in {"completed", "failed"}

(* A run that ended does nothing more.                                     *)
Rest == Ended /\ UNCHANGED vars

ControllerStep ==
  \/ FinishTooEarly \/ Done \/ Output \/ Escalate \/ Malformed
  \/ \E tools \in Batches, batch \in BOOLEAN : ChooseCalls(tools, batch)
  \/ \E granted \in BOOLEAN : ChooseSub(granted)

LoopStep ==
  \/ Boot \/ RoundsExhausted \/ CannotThink \/ AskController
  \/ OutputValid \/ OutputInvalid
  \/ \E bad \in Rising : InputsInvalid(bad)
  \/ ChargeCalls \/ StartCalls \/ CallsDone \/ StartSub \/ SubReturns
  \/ ContinueAsNew \/ Return \/ Raise

ActivityStep ==
  \/ \E i \in DOMAIN calls : CallAnswers(i) \/ AttemptFails(i)
  \/ IssueCommit
  \/ \E request \in inflight : RunCommit(request)

Failure == \E abandoned \in SUBSET With("running") : Fails(abandoned)

Next ==
  \/ ControllerStep \/ LoopStep \/ ActivityStep \/ Failure
  \/ \E cid \in Cids : LateAttemptRuns(cid)
  \/ Rest

Spec == Init /\ [][Next]_vars

(* Workers poll and every activity has a timeout, so what waits gets on.   *)
(* Nothing has to fail, but a commit that used up its attempts did.        *)
FairSpec ==
  /\ Spec
  /\ WF_vars(ControllerStep) /\ WF_vars(LoopStep) /\ WF_vars(ActivityStep)
  /\ WF_vars(pc = "commit" /\ Fails({}))

(***************************************************************************)
(* Properties.                                                             *)
(***************************************************************************)
TraceEntry == [decision : {"call", "sub", "reask", "output_reask", "tool_input_reask"},
               ref : Tools \cup {NoTool}, cid : Cids, failed : BOOLEAN]
AgentState == [round : Nat, spent : Nat, trace : Seq(TraceEntry),
               counts : [Tools \cup Wires -> Nat]]
PCs == {"boot", "round", "think", "output", "inputs", "calls", "resolve", "sub",
        "commit", "return", "raise", "completed", "failed"}

(* The types of the state, live, carried and stored.                       *)
TypeOK ==
  /\ state \in AgentState /\ baseline \in Nat
  /\ pc \in PCs /\ many \in BOOLEAN
  /\ calls \in Seq([tool : Tools, tries : Nat,
                    status : {"waiting", "running", "ok", "failed"}])
  /\ outcome \in Outcomes \cup {Open} /\ finished \in BOOLEAN
  /\ inp \in [state : AgentState, cursor : Nat] /\ segment \in Nat
  /\ store \in Seq([base : Nat, value : AgentState])
  /\ attempt \in 0..CommitAttempts /\ answer \in Nat
  /\ inflight \subseteq [base : Nat, value : AgentState, try : Nat]
  /\ {asked, executed, late} \subseteq [Cids -> Nat]
  /\ bill \in Nat /\ ended \in Seq({"failed", "completed"})

(* The loop state wherever it is: carried, as long as the segment did not  *)
(* load it, or live.                                                       *)
Live == IF state = Blank THEN Carried ELSE state

(* No two activities of a run, in whatever segments, share a cid: it is the*)
(* idempotency key that tools and caches know a call by.                   *)
CidsUnique == \A c \in Cids : asked[c] <= 1

(* Nothing is asked for that the budget has no room for, also when calls   *)
(* run together, fail, or are split over segments.                         *)
BillWithinBudget == bill <= Budget

(* Whenever nothing is under way the account equals what was asked for.    *)
AccountExact ==
  outcome # "activity_failed" /\ pc \notin {"think", "calls", "sub"}
    => Live.spent = bill

(* Calls that reached a wire tool under any of its limited names are never *)
(* more than the largest of their limits, over all segments.               *)
Limited(tool, wire) == Wire[tool] = wire /\ Limit[tool] # NoLimit
CallEntries == {e \in Range(Live.trace) : e.decision = "call"}

CallsWithinLimit ==
  \A wire \in Wires :
    LET made == {e.cid : e \in {f \in CallEntries : Limited(f.ref, wire)}} \cup
                {Cid(i) : i \in {j \in DOMAIN calls \ With("waiting") :
                                   Limited(calls[j].tool, wire)}}
        limits == {Limit[t] : t \in {u \in Tools : Limited(u, wire)}}
    IN  made # {} => \E limit \in limits : Cardinality(made) <= limit

(* The account tells what the budget and the limits allow, across segments *)
(* and failures.                                                           *)
AccountsKept == BillWithinBudget /\ AccountExact /\ CallsWithinLimit

(* The trace tells what happened to the world: a call entry without error  *)
(* ran, a tool ran no more often than its contract allows retries, a       *)
(* refused input reached no tool, and no call of a past round is missing.  *)
TraceTellsEffects ==
  /\ \A e \in CallEntries :
       /\ e.failed \/ executed[e.cid] > 0
       /\ executed[e.cid] + late[e.cid] <= IF e.ref \in Retryable THEN Attempts ELSE 1
  /\ \A e \in Range(Live.trace) :
       e.decision = "tool_input_reask" => executed[e.cid] + late[e.cid] = 0
  /\ \A c \in Cids :
       c[1] = "call" /\ executed[c] > 0 /\ c[2] < Live.round
         => \E e \in CallEntries : e.cid = c

(* Entries appear in the order the controller asked for them.              *)
Precedes(c, d) == c[2] < d[2] \/ (c[2] = d[2] /\ Len(c) = 3 /\ Len(d) = 3 /\ c[3] < d[3])

TraceInOrder ==
  \A i \in 1..Len(Live.trace) - 1 : Precedes(Live.trace[i].cid, Live.trace[i + 1].cid)

(* What the caller reads of a run is what happened, in its order, by names *)
(* that are given once.                                                    *)
TraceFaithful == CidsUnique /\ TraceTellsEffects /\ TraceInOrder

(* A call that is not a read has the batch to itself while it runs, and    *)
(* every earlier call of the batch has settled.                            *)
WritesAlone ==
  \A i \in With("running") : calls[i].tool \notin Reads =>
    /\ With("running") = {i}
    /\ \A j \in 1..i - 1 : calls[j].status \in {"ok", "failed"}

(* An agent that must call a tool does not finish before a tool ran.       *)
DoneMeansCalled ==
  RequireToolCall /\ outcome = "done" => \E c \in Cids : c[1] = "call" /\ executed[c] > 0

(* The trajectory of a run is finished exactly once, by the segment that   *)
(* ends it, with the status that the run ends with.                        *)
TrajectoryClosed ==
  /\ Len(ended) <= 1
  /\ Ended => ended = <<pc>>

(* A run that ends has done what it had to, and says so once.              *)
EndsProperly == DoneMeansCalled /\ TrajectoryClosed

(* Each segment after the first starts from the revision its predecessor   *)
(* committed, and no late or repeated attempt adds a revision.             *)
CursorNamesState ==
  UseStore =>
    /\ inp.cursor = segment
    /\ Len(store) \in {segment, segment + 1}
    /\ \A i \in DOMAIN store : store[i].base = i - 1
    /\ (pc = "commit" /\ Len(store) > segment) => store[Len(store)].value = state

(* The state is well formed wherever it is: live, carried and stored.      *)
StateCarried == TypeOK /\ CursorNamesState

(* The accounts of a run implement AgentLedger, through every segment.     *)
Ledger == INSTANCE AgentLedger
            WITH round <- Live.round, spent <- Live.spent, trace <- Live.trace
ImplementsLedger == Ledger!Spec

(* Every run ends.                                                         *)
Settles == <>Ended
=============================================================================
