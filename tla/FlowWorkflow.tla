---------------------------- MODULE FlowWorkflow ---------------------------
(***************************************************************************)
(* One durable flow run (FlowWorkflow in execution/harness.py): the chain  *)
(* of segments that evaluate a flow, the human gates they hold, and the    *)
(* reasoner requests that go through a batch.                              *)
(***************************************************************************)
EXTENDS Interpreter

CONSTANTS
  MaxSegments   \* bound: segments of one run

ASSUME FlowAssumption == MaxSegments \in Nat \ {0}

VARIABLES
  pc,           \* where run() is: "boot", "interpret", "closing", "ended"
  seg,          \* segment_seq
  status,       \* what the closing of this segment will report
  inbox,        \* gate -> segment the decision in _human_inbox was made for, or None
  letters,      \* history: decisions <<gate, segment>> given, not yet delivered
  waits,        \* think node -> the answer it waits for: "none", "batch" or "sync"
  asked,        \* history: what the batches were asked, [id, origin]
  results,      \* _reasoner_inbox, each with the request it answers
  resolved      \* _resolved_reasoners

runVars   == <<pc, seg, status>>
gateVars  == <<inbox, letters>>
batchVars == <<waits, asked, results, resolved>>
vars == <<interpVars, runVars, gateVars, batchVars>>

None == -1
Gates == {n \in Nodes : Op(n) = "gate"}

Init ==
  /\ InterpInit
  /\ pc = "boot"
  /\ seg = 0
  /\ status = "running"
  /\ letters = {}
  /\ inbox = [n \in Nodes |-> None]
  /\ waits = [n \in Nodes |-> "none"]
  /\ asked = {} /\ results = {} /\ resolved = {}

------------------------------------------------------------------------------
(* run()                                                                   *)

Boot ==
  /\ pc = "boot"
  /\ pc' = "interpret"
  /\ phase' = [phase EXCEPT ![Root] = "queued"]
  /\ UNCHANGED <<prog, seed, winners, counts, used, seg, status, gateVars, batchVars>>

(* A failed preflight closes the projection; the checks after it (pures,   *)
(* capabilities, reserved operations) just raise.                          *)
BootFails ==
  /\ pc = "boot"
  /\ pc' \in {"closing", "ended"}
  /\ status' = "failed"
  /\ UNCHANGED <<interpVars, seg, gateVars, batchVars>>

(* Tasks run as long as the workflow does, also while it closes.           *)
Interpret ==
  /\ pc \in {"interpret", "closing"}
  /\ Evaluate
  /\ UNCHANGED <<runVars, gateVars, batchVars>>

Closes(how) ==
  /\ pc' = "closing"
  /\ status' = how
  /\ UNCHANGED <<seg, gateVars, batchVars>>

Result ==
  /\ pc = "interpret"
  /\ \/ phase[Root] = "ok" /\ \/ Closes("completed")
                              \/ seg + 1 < MaxSegments /\ Closes("continue")
     \/ phase[Root] = "fail" /\ Closes("failed")
  /\ UNCHANGED interpVars

Cancel ==
  /\ pc = "interpret"
  /\ phase[Root] \in Unfinished
  /\ LET awaited == Awaited({Root})
     IN  phase' = [n \in Nodes |-> IF n \in awaited THEN "gone" ELSE phase[n]]
  /\ Closes("canceled")
  /\ UNCHANGED <<prog, seed, winners, counts, used>>

(* The projection is drained and finalized, the trajectory finished.       *)
Return ==
  /\ pc = "closing" /\ status # "continue"
  /\ pc' = "ended"
  /\ UNCHANGED <<interpVars, seg, status, gateVars, batchVars>>

(* The call counts go on; the node ids, and with them the gates' cids,     *)
(* come again.                                                             *)
ContinueAsNew ==
  /\ pc = "closing" /\ status = "continue"
  /\ pc' = "boot"
  /\ seg' = seg + 1
  /\ status' = "running"
  /\ phase' = [n \in Nodes |-> "idle"]
  /\ winners' = [n \in Nodes |-> {}]
  /\ inbox' = [n \in Nodes |-> None]
  /\ waits' = [n \in Nodes |-> "none"]
  /\ results' = {} /\ resolved' = {}
  /\ UNCHANGED <<prog, seed, counts, used, letters, asked>>

------------------------------------------------------------------------------
(* Human gates                                                             *)

OpenGates == {n \in Gates : phase[n] = "run"}

(* A reviewer reads openGates and decides; the signal may take its time.   *)
Decide(n) ==
  /\ pc \in {"interpret", "closing"}
  /\ n \in OpenGates
  /\ inbox[n] = None
  /\ letters' = letters \cup {<<n, seg>>}
  /\ UNCHANGED <<interpVars, runVars, inbox, batchVars>>

SubmitHuman(letter) ==
  /\ pc # "ended"
  /\ letters' = letters \ {letter}
  /\ inbox' = [inbox EXCEPT ![letter[1]] = letter[2]]
  /\ UNCHANGED <<interpVars, runVars, batchVars>>

Released(n) == inbox[n] # None

GateOpens(n) ==
  /\ pc \in {"interpret", "closing"}
  /\ n \in OpenGates
  /\ Released(n)
  /\ Ends(n, "ok")
  /\ inbox' = [inbox EXCEPT ![n] = None]
  /\ UNCHANGED <<counts, used, letters, runVars, batchVars>>

GateTimesOut(n) ==
  /\ pc \in {"interpret", "closing"}
  /\ n \in OpenGates
  /\ Ends(n, "ok")
  /\ UNCHANGED <<counts, used, gateVars, runVars, batchVars>>

------------------------------------------------------------------------------
(* invoke_reasoner: synchronous, or through a batch with a timeout         *)

(* Mutant: the id does not name the segment.                               *)
CustomIdOfNode(n) == <<n, 0>>

CustomId(n) == <<n, seg>>

Thinking(n, how) ==
  /\ pc \in {"interpret", "closing"}
  /\ phase[n] = "run" /\ Op(n) = "think"
  /\ waits[n] = how

(* resolveQoS chose the tier; submitReasonerBatch delivered the request.   *)
ResolveQoS(n) ==
  /\ Thinking(n, "none")
  /\ \/ /\ waits' = [waits EXCEPT ![n] = "batch"]
        /\ asked' = asked \cup {[id |-> CustomId(n), origin |-> seg]}
     \/ /\ waits' = [waits EXCEPT ![n] = "sync"]
        /\ UNCHANGED asked
  /\ UNCHANGED <<interpVars, runVars, gateVars, results, resolved>>

(* The signal of a batch comes when it likes, also twice.                  *)
SubmitReasonerResult(q) ==
  /\ pc # "ended"
  /\ q.id \notin resolved
  /\ results' = {r \in results : r.id # q.id} \cup {q}
  /\ UNCHANGED <<interpVars, runVars, gateVars, waits, asked, resolved>>

TakesResult(n) ==
  /\ Thinking(n, "batch")
  /\ \E r \in results : r.id = CustomId(n)
  /\ results' = {r \in results : r.id # CustomId(n)}
  /\ resolved' = resolved \cup {CustomId(n)}
  /\ \/ Ends(n, "ok") /\ UNCHANGED waits
     \/ waits' = [waits EXCEPT ![n] = "sync"] /\ UNCHANGED <<prog, phase, seed, winners>>
  /\ UNCHANGED <<counts, used, runVars, gateVars, asked>>

BatchTimesOut(n) ==
  /\ Thinking(n, "batch")
  /\ resolved' = resolved \cup {CustomId(n)}
  /\ waits' = [waits EXCEPT ![n] = "sync"]
  /\ UNCHANGED <<interpVars, runVars, gateVars, asked, results>>

InvokeReasoner(n) ==
  /\ Thinking(n, "sync")
  /\ \E out \in {"ok", "fail"} : Ends(n, out)
  /\ UNCHANGED <<counts, used, runVars, gateVars, batchVars>>

------------------------------------------------------------------------------
Closing == Return \/ ContinueAsNew
Timeouts == \E n \in Nodes : GateTimesOut(n) \/ BatchTimesOut(n)
Thinks == \E n \in Nodes : ResolveQoS(n) \/ InvokeReasoner(n)

AtRest == pc = "ended" /\ UNCHANGED vars

(* What a run does without its reviewers and batches.                      *)
Progress == Boot \/ Interpret \/ Result \/ Closing \/ Timeouts \/ Thinks

Next ==
  \/ Progress \/ BootFails \/ Cancel \/ AtRest
  \/ \E n \in Nodes : Decide(n) \/ GateOpens(n) \/ TakesResult(n)
  \/ \E q \in asked : SubmitReasonerResult(q)
  \/ \E letter \in letters : SubmitHuman(letter)

Spec == Init /\ [][Next]_vars

(* A worker polls, activities and child workflows answer, timers fire;     *)
(* nothing is assumed of reviewers and batches.                            *)
FairSpec == Spec /\ WF_vars(Progress)

------------------------------------------------------------------------------
(* Properties                                                              *)

Segments == 0..(MaxSegments - 1)
Ids == Nodes \X Segments

(* Every variable keeps to its type and every count to its limit.          *)
TypeOK ==
  /\ prog \in Programs
  /\ phase \in [Nodes -> Phases]
  /\ winners \in [Nodes -> SUBSET Nodes]
  /\ counts \in [Tools -> Nat] /\ used \in [Tools -> Nat] /\ seed \in [Nodes -> Nat]
  /\ \A t \in Tools : counts[t] <= CallLimit[t]
  /\ pc \in {"boot", "interpret", "closing", "ended"}
  /\ seg \in Segments
  /\ status \in {"running", "continue", "completed", "failed", "canceled"}
  /\ inbox \in [Nodes -> Segments \cup {None}]
  /\ letters \subseteq Ids
  /\ waits \in [Nodes -> {"none", "batch", "sync"}]
  /\ asked \subseteq [id : Ids, origin : Segments]
  /\ results \subseteq asked
  /\ resolved \subseteq Ids

Below(n) ==
  LET under[k \in Nodes] == BranchSet(k) \cup UNION {under[b] : b \in BranchSet(k)}
  IN  under[n]

(* The par nodes of groups that interpret() meets.                         *)
Heads == {n \in Nodes \ Inner(prog) : Op(n) \in Races}

Contract(n) ==
  INSTANCE RaceGroup WITH
    need    <- Need(n),
    epoch   <- seg,
    branch  <- [b \in BranchSet(n) |->
                  CASE phase[b] = "idle" -> "waiting"
                    [] phase[b] \in Unfinished -> "running"
                    [] OTHER -> phase[b]],
    outcome <- CASE phase[n] = "ok" -> "won"
                 [] phase[n] = "fail" -> "lost"
                 [] phase[n] = "gone" -> "gone"
                 [] OTHER -> "open",
    winners <- winners[n]

(* A race, hedge or quorum settles once, on as many successes as it needs  *)
(* or when they are out of reach, however its branches' ends, its timer    *)
(* and its own cancellation interleave; its branches then stay as they are.*)
GroupsStart == \A n \in Heads : Contract(n)!Init
GroupStep(n) == UNCHANGED Contract(n)!vars \/ Contract(n)!Next
ImplementsGroups == GroupsStart /\ [][\A n \in Heads : GroupStep(n)]_vars

(* No tool is called more often than its maxCalls by the run and its       *)
(* agents, over races, retries of segments and orphaned branches.          *)
CallsWithinLimit == \A t \in Tools : used[t] <= CallLimit[t]

(* An each never has more items in flight than its wave, nor a gather more *)
(* than max_parallel, also after a failure; a wave waits for the whole of  *)
(* the one before.                                                         *)
WavesRespected ==
  \A n \in Nodes : phase[n] # "idle" /\ Op(n) \in {"all", "each"} =>
    /\ Cardinality(At(n, "run")) <= MaxParallel
    /\ Cardinality(At(n, "run")) + Cardinality(At(n, "queued")) <= Wave(n)
    /\ \A i, j \in DOMAIN Branches(n) :
         (i - 1) \div Wave(n) < (j - 1) \div Wave(n) /\ phase[Branches(n)[j]] # "idle"
           => phase[Branches(n)[i]] = "ok"

(* Neither calls nor tasks exceed what policy and contracts allow.         *)
LimitsKept == CallsWithinLimit /\ WavesRespected

(* Work outlives the node it was done for only through a gather that       *)
(* raised: nothing else is left behind by a settled race, a failed         *)
(* sequence or a cancelled run.                                            *)
OnlyGathersStrand ==
  \A n \in Nodes : phase[n] \in {"ok", "fail", "gone"} =>
    \/ \A b \in BranchSet(n) : phase[b] \notin Unfinished
    \/ Op(n) \in {"all", "each"} /\ phase[n] = "fail"

(* Every task of a run is where its flow says, or stranded by a gather.    *)
WorkAccountedFor == TypeOK /\ OnlyGathersStrand

(* A run ends, whatever its branches and gates do.                         *)
RunEnds == <>(pc = "ended")

(* A settled group leaves none of its losers' work running.                *)
LosersStop ==
  \A n \in Nodes : Op(n) \in Races /\ phase[n] \in {"ok", "fail"} =>
    \A d \in Below(n) : phase[d] \notin Unfinished

(* An answer of a batch reaches the think that asked for it, and not that  *)
(* of the same node in the next segment.                                   *)
ResultForItsQuestion ==
  [][\A r \in results : \A n \in Nodes :
       Thinking(n, "batch") /\ r.id = CustomId(n) /\ r \notin results' /\ pc' = pc
         => r.origin = seg]_vars

(* A gate is released by a decision made for it.                           *)
DecisionForItsGate ==
  [][\A n \in Nodes : inbox[n] # None /\ inbox'[n] = None /\ seg' = seg => inbox[n] = seg]_vars
=============================================================================
