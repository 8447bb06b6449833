---------------------------- MODULE AgentProofs ----------------------------
(***************************************************************************)
(* Proofs about AgentWorkflow, for every value of its constants.           *)
(***************************************************************************)
EXTENDS AgentWorkflow, DataLemmas

LEMMA Constants ==
  /\ Budget \in Nat /\ ThinkCost \in Nat /\ MaxRounds \in Nat
  /\ ContinueAfter \in Nat /\ OutputRetries \in Nat
  /\ Attempts \in Nat \ {0} /\ CommitAttempts \in Nat \ {0} /\ MaxMany \in Nat \ {0}
  /\ RequireToolCall \in BOOLEAN /\ UseStore \in BOOLEAN
  BY AgentAssumption

LEMMA WireType == \A t \in Tools : Wire[t] \in Wires /\ CountKey(t) \in Tools \cup Wires
  BY AgentAssumption DEF Wires, Range, CountKey

(***************************************************************************)
(* The types, in three parts, and the shape of the loop: when it has calls,*)
(* and that a round in which it works is one of the rounds it may take.    *)
(***************************************************************************)
Call == [tool : Tools, tries : Nat, status : {"waiting", "running", "ok", "failed"}]

LoopOK ==
  /\ state \in AgentState /\ baseline \in Nat
  /\ pc \in PCs /\ many \in BOOLEAN /\ calls \in Seq(Call)
  /\ outcome \in Outcomes \cup {Open} /\ finished \in BOOLEAN
CommitsOK ==
  /\ inp \in [state : AgentState, cursor : Nat] /\ segment \in Nat
  /\ store \in Seq([base : Nat, value : AgentState])
  /\ attempt \in 0..CommitAttempts /\ answer \in Nat
  /\ inflight \subseteq [base : Nat, value : AgentState, try : Nat]
WorldOK ==
  /\ asked \in [Cids -> Nat] /\ executed \in [Cids -> Nat] /\ late \in [Cids -> Nat]
  /\ bill \in Nat /\ ended \in Seq({"failed", "completed"})

LEMMA TypeParts == TypeOK <=> LoopOK /\ CommitsOK /\ WorldOK
  <1>1. {asked, executed, late} \subseteq [Cids -> Nat] <=>
          asked \in [Cids -> Nat] /\ executed \in [Cids -> Nat] /\ late \in [Cids -> Nat]
    OBVIOUS
  <1>. QED BY <1>1 DEF TypeOK, LoopOK, CommitsOK, WorldOK, Call

Busy == {"think", "output", "inputs", "calls", "resolve", "sub"}
Settled == {"return", "raise", "completed", "failed"}
Shape ==
  /\ pc \in Busy => state.round < MaxRounds
  /\ pc \in {"inputs", "calls"} <=> calls # <<>>
  /\ Len(calls) <= MaxMany
  /\ ~many => Len(calls) <= 1
  /\ outcome = Open <=> pc \notin Settled

TInv == LoopOK /\ CommitsOK /\ WorldOK /\ Shape

(***************************************************************************)
(* The operators on the loop's state.                                      *)
(***************************************************************************)
LEMMA BlankType == Blank \in AgentState /\ Blank.round = 0 /\ Blank.spent = 0
                   /\ Blank.trace = <<>>
  BY DEF Blank, AgentState

LEMMA SpendType ==
  ASSUME NEW s \in AgentState, NEW cost \in Nat
  PROVE  LET after == [s EXCEPT !.spent = @ + cost]
         IN  /\ after \in AgentState /\ after.spent = s.spent + cost
             /\ after.round = s.round /\ after.trace = s.trace
             /\ after.counts = s.counts
  BY DEF AgentState

LEMMA ThoughtType ==
  ASSUME state \in AgentState
  PROVE  /\ Thought \in AgentState /\ Thought.spent = state.spent + ThinkCost
         /\ Thought.round = state.round /\ Thought.trace = state.trace
         /\ Thought.counts = state.counts
  BY SpendType, Constants DEF Thought

LEMMA RecordedType ==
  ASSUME NEW s \in AgentState, NEW entries \in Seq(TraceEntry)
  PROVE  /\ Recorded(s, entries) \in AgentState
         /\ Recorded(s, entries).round = s.round + 1
         /\ Recorded(s, entries).spent = s.spent
         /\ Recorded(s, entries).trace = s.trace \o entries
         /\ Recorded(s, entries).counts = s.counts
  <1>1. s.trace \in Seq(TraceEntry) /\ s.round \in Nat
    BY DEF AgentState
  <1>2. s.trace \o entries \in Seq(TraceEntry) /\ s.round + 1 \in Nat
    BY <1>1, ConcatProperties
  <1>. QED BY <1>2 DEF Recorded, AgentState

LEMMA StateFields ==
  ASSUME NEW s \in AgentState
  PROVE  /\ s.round \in Nat /\ s.spent \in Nat /\ s.trace \in Seq(TraceEntry)
         /\ s.counts \in [Tools \cup Wires -> Nat]
  BY DEF AgentState

LEMMA CallFields ==
  ASSUME LoopOK
  PROVE  /\ Len(calls) \in Nat /\ DOMAIN calls = 1..Len(calls)
         /\ \A i \in 1..Len(calls) :
              /\ calls[i] \in Call /\ calls[i].tool \in Tools /\ calls[i].tries \in Nat
              /\ calls[i].status \in {"waiting", "running", "ok", "failed"}
  <1>1. calls \in Seq(Call)
    BY DEF LoopOK
  <1>2. Len(calls) \in Nat /\ DOMAIN calls = 1..Len(calls)
        /\ \A i \in 1..Len(calls) : calls[i] \in Call
    BY <1>1
  <1>3. \A x \in Call : /\ x.tool \in Tools /\ x.tries \in Nat
                        /\ x.status \in {"waiting", "running", "ok", "failed"}
    BY DEF Call
  <1>. QED BY <1>2, <1>3

LEMMA RoundType ==
  ASSUME LoopOK, Shape, pc \in Busy
  PROVE  /\ state.round \in Rounds /\ state.round + 1 \in Nat
         /\ <<"round", state.round>> \in Cids /\ <<"sub", state.round>> \in Cids
         /\ \A i \in 1..Len(calls) : Cid(i) \in Cids
         /\ \A i \in 1..MaxMany : <<"call", state.round, i>> \in Cids
  <1>1. state.round \in Nat
    BY StateFields DEF LoopOK
  <1>2. state.round \in Rounds
    BY <1>1, Constants DEF Rounds, Shape
  <1>3. \A i \in 1..Len(calls) : i \in 1..MaxMany
    BY CallFields, Constants DEF Shape
  <1>. QED BY <1>1, <1>2, <1>3 DEF Cids, Cid

LEMMA EntryType ==
  ASSUME NEW cid \in Cids, NEW failed \in BOOLEAN, NEW ref \in Tools \cup {NoTool},
         NEW decision \in {"call", "sub", "reask", "output_reask", "tool_input_reask"}
  PROVE  /\ Entry(decision, ref, cid, failed) \in TraceEntry
         /\ <<Entry(decision, ref, cid, failed)>> \in Seq(TraceEntry)
  BY DEF Entry, TraceEntry

LEMMA ChargedType ==
  ASSUME LoopOK, NEW n \in 0..Len(calls)
  PROVE  ChargedCounts(n) \in [Tools \cup Wires -> Nat]
  <1>1. /\ state.counts \in [Tools \cup Wires -> Nat]
        /\ Len(calls) \in Nat
    BY StateFields, CallFields DEF LoopOK
  <1>2. ASSUME NEW P, P \subseteq 1..n PROVE Cardinality(P) \in Nat
    <2>1. IsFiniteSet(1..n)
      BY <1>1, FS_Interval
    <2>. QED BY <1>2, <2>1, FS_Subset, FS_CardinalityType
  <1>3. \A k \in Tools \cup Wires :
          Cardinality({i \in 1..n : /\ CountKey(calls[i].tool) = k
                                    /\ Limit[calls[i].tool] # NoLimit}) \in Nat
    <2>. TAKE k \in Tools \cup Wires
    <2>. DEFINE P == {i \in 1..n : /\ CountKey(calls[i].tool) = k
                                   /\ Limit[calls[i].tool] # NoLimit}
    <2>1. P \subseteq 1..n
      OBVIOUS
    <2>. HIDE DEF P
    <2>2. Cardinality(P) \in Nat
      BY <1>2, <2>1
    <2>. QED BY <2>2 DEF P
  <1>. QED BY <1>1, <1>3 DEF ChargedCounts

(***************************************************************************)
(* The types are kept.                                                     *)
(***************************************************************************)
LEMMA InitTypes == Init => TInv
  <1>. SUFFICES ASSUME Init PROVE TInv
    OBVIOUS
  <1>1. [state |-> Blank, cursor |-> 0] \in [state : AgentState, cursor : Nat]
    BY BlankType
  <1>2. LoopOK
    <2>1. /\ state = Blank /\ baseline = 0 /\ pc = "boot" /\ many = FALSE
          /\ calls = <<>> /\ outcome = Open /\ finished = FALSE
      BY DEF Init
    <2>2. calls \in Seq(Call) /\ pc \in PCs /\ state \in AgentState
      BY <2>1, BlankType DEF PCs
    <2>. QED BY <2>1, <2>2 DEF LoopOK
  <1>3. CommitsOK
    BY <1>1, Constants DEF Init, CommitsOK, NoAnswer
  <1>4. WorldOK
    BY DEF Init, WorldOK
  <1>5. Shape
    <2>1. /\ pc = "boot" /\ many = FALSE /\ calls = <<>> /\ outcome = Open
          /\ Len(calls) = 0
      BY DEF Init
    <2>. QED BY <2>1, Constants DEF Shape, Busy, Settled
  <1>. QED BY <1>2, <1>3, <1>4, <1>5 DEF TInv

LEMMA AskType ==
  ASSUME WorldOK, NEW cids, NEW cost \in Nat, Ask(cids, cost)
  PROVE  asked' \in [Cids -> Nat] /\ bill' \in Nat /\ bill' = bill + cost
  BY DEF WorldOK, Ask

(* An action that ends the run's rounds.                                   *)
LEMMA FinishTypes ==
  ASSUME TInv, NEW result \in Outcomes, NEW s \in AgentState, Finish(result, s)
  PROVE  TInv'
  <1>1. /\ state' = s /\ outcome' = result /\ finished' = TRUE /\ pc' = "return"
        /\ calls' = <<>> /\ UNCHANGED <<baseline, many, chain, commits>>
        /\ UNCHANGED <<asked, executed, late, bill>>
        /\ ended' = Append(ended, IF result \in Failed THEN "failed" ELSE "completed")
    BY DEF Finish
  <1>2. LoopOK'
    BY <1>1 DEF TInv, LoopOK, PCs
  <1>3. CommitsOK'
    BY <1>1 DEF TInv, CommitsOK, chain, commits
  <1>4. WorldOK'
    BY <1>1 DEF TInv, WorldOK
  <1>5. Shape'
    BY <1>1, Constants DEF Shape, Busy, Settled, Outcomes, Failed, Open
  <1>. QED BY <1>2, <1>3, <1>4, <1>5 DEF TInv

LEMMA ReaskTypes ==
  ASSUME TInv, NEW s \in AgentState, NEW entries \in Seq(TraceEntry),
         Reask(s, entries), pc \notin Settled
  PROVE  TInv'
  <1>1. /\ state' = Recorded(s, entries) /\ pc' = "round" /\ calls' = <<>>
        /\ UNCHANGED <<baseline, many, outcome, finished, chain, commits, world>>
    BY DEF Reask
  <1>2. LoopOK'
    BY <1>1, RecordedType DEF TInv, LoopOK, PCs
  <1>3. CommitsOK' /\ WorldOK'
    BY <1>1 DEF TInv, CommitsOK, WorldOK, chain, commits, world
  <1>4. Shape'
    BY <1>1, Constants DEF TInv, Shape, Busy, Settled
  <1>. QED BY <1>2, <1>3, <1>4 DEF TInv

(* An action that goes on to another place of the loop.                    *)
LEMMA AwaitTypes ==
  ASSUME TInv, NEW s \in AgentState, NEW place \in PCs, Await(s, place),
         many' \in BOOLEAN, calls' \in Seq(Call), pc \notin Settled,
         place \notin Settled, place \in Busy => s.round < MaxRounds,
         place \in {"inputs", "calls"} <=> calls' # <<>>,
         Len(calls') <= MaxMany, ~many' => Len(calls') <= 1
  PROVE  TInv'
  <1>1. /\ state' = s /\ pc' = place
        /\ UNCHANGED <<baseline, outcome, finished, chain, commits, world>>
    BY DEF Await
  <1>2. LoopOK'
    BY <1>1 DEF TInv, LoopOK
  <1>3. CommitsOK' /\ WorldOK'
    BY <1>1 DEF TInv, CommitsOK, WorldOK, chain, commits, world
  <1>4. Shape'
    BY <1>1 DEF TInv, Shape
  <1>. QED BY <1>2, <1>3, <1>4 DEF TInv

LEMMA EndRoundTypes ==
  ASSUME TInv, NEW s \in AgentState, NEW cost \in Nat, NEW entries \in Seq(TraceEntry),
         EndRound(s, cost, entries), pc \notin Settled
  PROVE  TInv'
  <1>. DEFINE spent == [s EXCEPT !.spent = @ + cost]
              after == Recorded(spent, entries)
              place == IF ShouldContinueAsNew(after) THEN "commit" ELSE "round"
  <1>1. Await(after, place) /\ calls' = <<>> /\ many' = many
    BY DEF EndRound
  <1>2. spent \in AgentState
    BY SpendType
  <1>. HIDE DEF spent
  <1>3. after \in AgentState
    BY <1>2, RecordedType
  <1>4. place \in {"commit", "round"}
    OBVIOUS
  <1>. HIDE DEF after, place
  <1>5. place \in PCs /\ place \notin Settled /\ place \notin Busy
        /\ place \notin {"inputs", "calls"}
    BY <1>4 DEF PCs, Settled, Busy
  <1>6. Len(calls') = 0 /\ calls' \in Seq(Call) /\ many' \in BOOLEAN
    BY <1>1 DEF TInv, LoopOK
  <1>. QED BY <1>1, <1>3, <1>5, <1>6, Constants, AwaitTypes

(* The steps that keep the loop's state.                                   *)
LEMMA SameLoop ==
  ASSUME TInv, UNCHANGED <<state, baseline, many, calls, outcome, finished>>,
         pc' \in PCs, pc' \in Busy => state.round < MaxRounds,
         pc' \in Settled <=> pc \in Settled,
         pc' \in {"inputs", "calls"} <=> pc \in {"inputs", "calls"}
  PROVE  LoopOK' /\ Shape'
  <1>1. LoopOK'
    BY DEF TInv, LoopOK
  <1>2. Shape'
    BY DEF TInv, Shape
  <1>. QED BY <1>1, <1>2

LEMMA SameCommits ==
  ASSUME CommitsOK, UNCHANGED <<chain, commits>>
  PROVE  CommitsOK'
  BY DEF CommitsOK, chain, commits

LEMMA CarriedType ==
  ASSUME CommitsOK, inp.cursor # 0 => inp.cursor \in 1..Len(store)
  PROVE  Carried \in AgentState
  <1>1. /\ inp \in [state : AgentState, cursor : Nat]
        /\ store \in Seq([base : Nat, value : AgentState])
    BY DEF CommitsOK
  <1>2. inp.state \in AgentState
    BY <1>1
  <1>3. ASSUME inp.cursor \in 1..Len(store)
        PROVE  store[inp.cursor].value \in AgentState
    <2>1. store[inp.cursor] \in [base : Nat, value : AgentState]
      BY <1>1, <1>3, ElementOfSeq
    <2>. QED BY <2>1
  <1>. QED BY <1>2, <1>3 DEF Carried

(* The revision the segment starts from is in the store.                   *)
CursorStored == inp.cursor # 0 => inp.cursor \in 1..Len(store)

LEMMA ControllerTypes ==
  ASSUME TInv, ControllerStep
  PROVE  TInv'
  <1>a. /\ pc = "think" /\ pc \notin Settled /\ state \in AgentState
        /\ Thought \in AgentState /\ Thought.round < MaxRounds
        /\ calls = <<>> /\ many \in BOOLEAN
    <2>1. pc = "think"
      BY DEF ControllerStep, FinishTooEarly, Done, Output, Escalate, Malformed,
         MayFinish, ChooseCalls, ChooseSub
    <2>. QED BY <2>1, ThoughtType DEF TInv, LoopOK, Shape, Busy, Settled
  <1>b. /\ \A r \in Failed : r \in Outcomes
        /\ {"controller_error", "over_budget", "denied", "done", "escalated"}
             \subseteq Outcomes
    BY DEF Outcomes, Failed
  <1>c. LoopOK /\ Shape /\ pc \in Busy
    BY <1>a DEF TInv, Busy
  <1>1. CASE FinishTooEarly
    <2>1. CASE Finish("controller_error", Thought)
      BY <1>a, <1>b, <2>1, FinishTypes
    <2>2. CASE Reask(Thought, <<Entry("reask", NoTool, <<"round", state.round>>, TRUE)>>)
      <3>1. <<Entry("reask", NoTool, <<"round", state.round>>, TRUE)>> \in Seq(TraceEntry)
        BY <1>c, RoundType, EntryType
      <3>. QED BY <1>a, <2>2, <3>1, ReaskTypes
    <2>. QED BY <1>1, <2>1, <2>2 DEF FinishTooEarly
  <1>2. CASE Done \/ Escalate \/ Malformed
    BY <1>a, <1>b, <1>2, FinishTypes DEF Done, Escalate, Malformed
  <1>3. CASE Output
    <2>1. Await(Thought, "output") /\ many' = many /\ calls' = calls
      BY <1>3 DEF Output
    <2>2. /\ "output" \in PCs /\ "output" \notin Settled /\ calls' \in Seq(Call)
          /\ Len(calls') = 0
      BY <1>a, <2>1 DEF PCs, Settled
    <2>. QED BY <1>a, <2>1, <2>2, Constants, AwaitTypes
  <1>4. ASSUME NEW tools \in Batches, NEW batch \in BOOLEAN, ChooseCalls(tools, batch)
        PROVE  TInv'
    <2>1. CASE Finish("over_budget", Thought) \/ Finish("denied", Thought)
      BY <1>a, <1>b, <2>1, FinishTypes
    <2>2. CASE /\ Await(Thought, "inputs") /\ many' = batch
               /\ calls' = [i \in DOMAIN tools |->
                       [tool |-> tools[i], status |-> "waiting", tries |-> 0]]
      <3>1. PICK n \in 1..MaxMany : tools \in [1..n -> Tools]
        BY DEF Batches
      <3>2. n \in Nat /\ n > 0 /\ n <= MaxMany
        BY Constants
      <3>3. \A i \in 1..n : [tool |-> tools[i], status |-> "waiting", tries |-> 0] \in Call
        BY <3>1 DEF Call
      <3>4. calls' \in [1..n -> Call]
        BY <2>2, <3>1, <3>3
      <3>5. calls' \in Seq(Call) /\ Len(calls') = n /\ calls' # <<>>
        BY <3>2, <3>4
      <3>6. Len(tools) = n
        BY <3>1, <3>2
      <3>7. ~many' => Len(calls') <= 1
        BY <1>4, <2>2, <3>5, <3>6 DEF ChooseCalls
      <3>8. "inputs" \in PCs /\ "inputs" \notin Settled /\ many' \in BOOLEAN
        BY <2>2 DEF PCs, Settled
      <3>. QED BY <1>a, <2>2, <3>2, <3>5, <3>7, <3>8, AwaitTypes
    <2>. QED BY <1>4, <2>1, <2>2 DEF ChooseCalls
  <1>5. ASSUME NEW granted \in BOOLEAN, ChooseSub(granted)
        PROVE  TInv'
    <2>1. CASE Finish("over_budget", Thought) \/ Finish("denied", Thought)
      BY <1>a, <1>b, <2>1, FinishTypes
    <2>2. CASE Await(Thought, "resolve") /\ UNCHANGED <<many, calls>>
      <3>1. /\ "resolve" \in PCs /\ "resolve" \notin Settled /\ calls' \in Seq(Call)
            /\ Len(calls') = 0
        BY <1>a, <2>2 DEF PCs, Settled
      <3>. QED BY <1>a, <2>2, <3>1, Constants, AwaitTypes
    <2>. QED BY <1>5, <2>1, <2>2 DEF ChooseSub
  <1>. QED BY <1>1, <1>2, <1>3, <1>4, <1>5 DEF ControllerStep

LEMMA ReaskedInputs ==
  ASSUME TInv, NEW bad \in Rising, InputsInvalid(bad)
  PROVE  [i \in DOMAIN bad |->
            Entry("tool_input_reask", calls[bad[i]].tool, Cid(bad[i]), TRUE)]
           \in Seq(TraceEntry)
  <1>1. PICK n \in 1..MaxMany : bad \in [1..n -> 1..MaxMany]
    BY DEF Rising
  <1>2. n \in Nat /\ DOMAIN bad = 1..n
    BY <1>1, Constants
  <1>3. \A i \in 1..n : bad[i] \in 1..Len(calls)
    BY <1>2, CallFields DEF InputsInvalid, Range, TInv
  <1>4. LoopOK /\ Shape /\ pc \in Busy
    BY DEF TInv, Busy, InputsInvalid
  <1>. DEFINE E(i) == Entry("tool_input_reask", calls[bad[i]].tool, Cid(bad[i]), TRUE)
  <1>5. \A i \in 1..n : E(i) \in TraceEntry
    BY <1>3, <1>4, CallFields, RoundType, EntryType
  <1>. HIDE DEF E
  <1>6. [i \in 1..n |-> E(i)] \in Seq(TraceEntry)
    BY <1>2, <1>5
  <1>. QED BY <1>2, <1>6 DEF E

LEMMA CalledEntries ==
  ASSUME TInv, pc = "calls"
  PROVE  [i \in DOMAIN calls |->
            Entry("call", calls[i].tool, Cid(i), calls[i].status = "failed")]
           \in Seq(TraceEntry)
  <1>1. LoopOK /\ Shape /\ pc \in Busy
    BY DEF TInv, Busy
  <1>2. Len(calls) \in Nat /\ DOMAIN calls = 1..Len(calls)
    BY <1>1, CallFields
  <1>. DEFINE E(i) == Entry("call", calls[i].tool, Cid(i), calls[i].status = "failed")
  <1>3. \A i \in 1..Len(calls) : E(i) \in TraceEntry
    BY <1>1, CallFields, RoundType, EntryType
  <1>. HIDE DEF E
  <1>4. [i \in 1..Len(calls) |-> E(i)] \in Seq(TraceEntry)
    BY <1>2, <1>3
  <1>. QED BY <1>2, <1>4 DEF E

LEMMA LoopTypes ==
  ASSUME TInv, CursorStored, LoopStep
  PROVE  TInv'
  <1>a. /\ state \in AgentState /\ many \in BOOLEAN /\ calls \in Seq(Call)
        /\ LoopOK /\ CommitsOK /\ WorldOK /\ Shape
    BY DEF TInv, LoopOK
  <1>b. \A r \in Failed \cup {"done"} : r \in Outcomes
    BY DEF Outcomes
  <1>1. CASE Boot
    <2>1. Carried \in AgentState /\ Carried.round \in Nat
      BY <1>a, CarriedType, StateFields DEF CursorStored
    <2>2. /\ pc = "boot" /\ pc' = "round" /\ state' = Carried
          /\ baseline' = Carried.round
          /\ UNCHANGED <<many, calls, outcome, finished, chain, commits, world>>
      BY <1>1 DEF Boot
    <2>3. LoopOK'
      BY <1>a, <2>1, <2>2 DEF LoopOK, PCs
    <2>4. CommitsOK' /\ WorldOK'
      BY <1>a, <2>2 DEF CommitsOK, WorldOK, chain, commits, world
    <2>5. Shape'
      BY <1>a, <2>2 DEF Shape, Busy, Settled
    <2>. QED BY <2>3, <2>4, <2>5 DEF TInv
  <1>2. CASE RoundsExhausted \/ CannotThink
    BY <1>a, <1>b, <1>2, FinishTypes DEF RoundsExhausted, CannotThink, Failed
  <1>3. CASE AskController
    <2>1. /\ pc = "round" /\ pc' = "think" /\ state.round < MaxRounds
          /\ Ask({<<"round", state.round>>}, ThinkCost)
          /\ UNCHANGED <<state, baseline, many, calls, outcome, finished>>
          /\ UNCHANGED <<chain, commits, executed, late, ended>>
      BY <1>3 DEF AskController
    <2>2. LoopOK' /\ Shape'
      BY <2>1, SameLoop DEF PCs, Busy, Settled
    <2>3. WorldOK'
      BY <1>a, <2>1, AskType, Constants DEF WorldOK
    <2>. QED BY <1>a, <2>1, <2>2, <2>3, SameCommits DEF TInv
  <1>4. CASE OutputValid
    BY <1>a, <1>b, <1>4, FinishTypes DEF OutputValid
  <1>5. CASE OutputInvalid
    <2>1. pc = "output" /\ pc \in Busy /\ pc \notin Settled
      BY <1>5 DEF OutputInvalid, Busy, Settled
    <2>2. <<Entry("output_reask", NoTool, <<"round", state.round>>, TRUE)>>
            \in Seq(TraceEntry)
      BY <1>a, <2>1, RoundType, EntryType
    <2>3. "output_validation_failed" \in Outcomes
      BY DEF Outcomes, Failed
    <2>. QED BY <1>a, <1>5, <2>1, <2>2, <2>3, FinishTypes, ReaskTypes DEF OutputInvalid
  <1>6. ASSUME NEW bad \in Rising, InputsInvalid(bad) PROVE TInv'
    <2>1. pc \notin Settled
      BY <1>6 DEF InputsInvalid, Settled
    <2>. QED BY <1>a, <1>6, <2>1, ReaskedInputs, ReaskTypes DEF InputsInvalid
  <1>7. CASE ChargeCalls
    <2>1. pc = "inputs" /\ calls # <<>>
      BY <1>7, <1>a DEF ChargeCalls, Shape
    <2>2. \A n \in 0..Len(calls) :
            [state EXCEPT !.counts = ChargedCounts(n)] \in AgentState
            /\ [state EXCEPT !.counts = ChargedCounts(n)].round = state.round
      BY <1>a, ChargedType DEF AgentState
    <2>3. CASE RefusedCalls # {}
      <3>1. Min(RefusedCalls) - 1 \in 0..Len(calls)
        <4>1. RefusedCalls \subseteq 1..Len(calls) /\ Len(calls) \in Nat
              /\ RefusedCalls \subseteq Nat
          BY <1>a, CallFields DEF RefusedCalls
        <4>2. \E n \in RefusedCalls : \A m \in RefusedCalls : n <= m
          BY <2>3, <4>1, LeastNumber
        <4>3. Min(RefusedCalls) \in RefusedCalls
          BY <4>2 DEF Min
        <4>4. \A m \in 1..Len(calls) : m - 1 \in 0..Len(calls)
          BY <4>1
        <4>. HIDE DEF RefusedCalls
        <4>. QED BY <4>1, <4>3, <4>4
      <3>2. "denied" \in Outcomes
        BY DEF Outcomes, Failed
      <3>. QED BY <1>7, <2>2, <2>3, <3>1, <3>2, FinishTypes DEF ChargeCalls
    <2>4. CASE RefusedCalls = {}
      <3>1. Len(calls) \in 0..Len(calls) /\ Len(calls) <= MaxMany
            /\ (~many => Len(calls) <= 1)
        BY <1>a, CallFields DEF Shape
      <3>2. state.round < MaxRounds
        BY <1>a, <2>1 DEF Shape, Busy
      <3>3. /\ "calls" \in PCs /\ "calls" \notin Settled /\ pc \notin Settled
        BY <2>1 DEF PCs, Settled
      <3>. DEFINE s == [state EXCEPT !.counts = ChargedCounts(Len(calls))]
      <3>4. Await(s, "calls") /\ UNCHANGED <<many, calls>>
        BY <1>7, <2>4 DEF ChargeCalls
      <3>5. s \in AgentState /\ s.round = state.round
        BY <2>2, <3>1
      <3>. HIDE DEF s
      <3>. QED BY <1>a, <2>1, <3>1, <3>2, <3>3, <3>4, <3>5, AwaitTypes
    <2>. QED BY <2>3, <2>4
  <1>8. CASE StartCalls
    <2>1. /\ pc = "calls"
          /\ calls' = [i \in DOMAIN calls |->
                 IF i \in Startable THEN [calls[i] EXCEPT !.status = "running"]
                 ELSE calls[i]]
          /\ Ask({Cid(i) : i \in Startable}, ToolCost * Cardinality(Startable))
          /\ UNCHANGED <<state, baseline, pc, many, outcome, finished>>
          /\ UNCHANGED <<chain, commits, executed, late, ended>>
      BY <1>8 DEF StartCalls
    <2>2. calls' \in Seq(Call) /\ Len(calls') = Len(calls)
      <3>1. \A x \in Call : [x EXCEPT !.status = "running"] \in Call
        BY DEF Call
      <3>2. calls' \in [1..Len(calls) -> Call] /\ Len(calls) \in Nat
        BY <1>a, <2>1, <3>1, CallFields
      <3>. QED BY <3>2
    <2>3. Cardinality(Startable) \in Nat
      <3>1. Startable \subseteq DOMAIN calls
        <4>1. With("waiting") \subseteq DOMAIN calls
          BY DEF With
        <4>. QED BY <4>1 DEF Startable, WaitingReads
      <3>. QED BY <1>a, <3>1, CountIn
    <2>4. WorldOK'
      BY <1>a, <2>1, <2>3, AskType DEF WorldOK, ToolCost
    <2>5. LoopOK'
      BY <1>a, <2>1, <2>2 DEF LoopOK
    <2>6. Shape'
      BY <1>a, <2>1, <2>2, EmptySeq DEF Shape, Busy, Settled
    <2>. QED BY <1>a, <2>1, <2>4, <2>5, <2>6, SameCommits DEF TInv
  <1>9. CASE CallsDone
    <2>1. pc = "calls" /\ pc \notin Settled
      BY <1>9 DEF CallsDone, Settled
    <2>2. ToolCost * Len(calls) \in Nat
      BY <1>a, CallFields DEF ToolCost
    <2>. QED BY <1>a, <1>9, <2>1, <2>2, CalledEntries, EndRoundTypes DEF CallsDone
  <1>10. CASE StartSub
    <2>1. /\ pc = "resolve" /\ pc' = "sub" /\ Ask({<<"sub", state.round>>}, SubCost)
          /\ UNCHANGED <<state, baseline, many, calls, outcome, finished>>
          /\ UNCHANGED <<chain, commits, executed, late, ended>>
      BY <1>10 DEF StartSub
    <2>2. LoopOK' /\ Shape'
      BY <1>a, <2>1, SameLoop DEF PCs, Busy, Settled, Shape
    <2>3. WorldOK'
      BY <1>a, <2>1, AskType DEF WorldOK, SubCost
    <2>. QED BY <1>a, <2>1, <2>2, <2>3, SameCommits DEF TInv
  <1>11. CASE SubReturns
    <2>1. pc = "sub" /\ pc \in Busy /\ pc \notin Settled
      BY <1>11 DEF SubReturns, Busy, Settled
    <2>2. <<Entry("sub", NoTool, <<"sub", state.round>>, FALSE)>> \in Seq(TraceEntry)
          /\ SubCost \in Nat
      BY <1>a, <2>1, RoundType, EntryType DEF SubCost
    <2>. QED BY <1>a, <1>11, <2>1, <2>2, EndRoundTypes DEF SubReturns
  <1>12. CASE ContinueAsNew
    <2>1. /\ pc = "commit" /\ pc' = "boot" /\ state' = Blank /\ baseline' = 0
          /\ finished' = FALSE /\ inp' = CarriedInput /\ segment' = segment + 1
          /\ attempt' = 0 /\ answer' = NoAnswer
          /\ UNCHANGED <<many, calls, outcome, store, inflight, world>>
      BY <1>12 DEF ContinueAsNew
    <2>2. LoopOK'
      BY <1>a, <2>1, BlankType DEF LoopOK, PCs
    <2>3. WorldOK'
      BY <1>a, <2>1 DEF WorldOK, world
    <2>4. Shape'
      BY <1>a, <2>1 DEF Shape, Busy, Settled
    <2>5. inp' \in [state : AgentState, cursor : Nat]
      BY <1>a, <2>1, BlankType DEF CarriedInput, CommitsOK
    <2>6. CommitsOK'
      BY <1>a, <2>1, <2>5, Constants DEF CommitsOK, NoAnswer
    <2>. QED BY <2>2, <2>3, <2>4, <2>6 DEF TInv
  <1>13. CASE Return
    <2>1. /\ pc = "return" /\ pc' \in {"raise", "completed"}
          /\ UNCHANGED <<state, baseline, many, calls, outcome, finished>>
          /\ UNCHANGED <<chain, commits, world>>
      BY <1>13 DEF Return
    <2>2. LoopOK' /\ Shape'
      BY <1>a, <2>1, SameLoop DEF PCs, Busy, Settled
    <2>. QED BY <1>a, <2>1, <2>2, SameCommits DEF TInv, WorldOK, world
  <1>14. CASE Raise
    <2>1. /\ pc = "raise" /\ pc' = "failed" /\ finished' = TRUE
          /\ ended' = IF finished THEN ended ELSE Append(ended, "failed")
          /\ UNCHANGED <<state, baseline, many, calls, outcome>>
          /\ UNCHANGED <<chain, commits, asked, executed, late, bill>>
      BY <1>14 DEF Raise
    <2>2. LoopOK'
      BY <1>a, <2>1 DEF LoopOK, PCs
    <2>3. Shape'
      BY <1>a, <2>1 DEF Shape, Busy, Settled
    <2>4. WorldOK'
      BY <1>a, <2>1 DEF WorldOK
    <2>. QED BY <1>a, <2>1, <2>2, <2>3, <2>4, SameCommits DEF TInv
  <1>. QED BY <1>1, <1>2, <1>3, <1>4, <1>5, <1>6, <1>7, <1>8, <1>9, <1>10, <1>11,
              <1>12, <1>13, <1>14 DEF LoopStep

LEMMA CountedUp ==
  ASSUME NEW f \in [Cids -> Nat], NEW c \in Cids
  PROVE  [f EXCEPT ![c] = @ + 1] \in [Cids -> Nat]
  OBVIOUS

LEMMA ActivityTypes ==
  ASSUME TInv, ActivityStep
  PROVE  TInv'
  <1>a. /\ state \in AgentState /\ many \in BOOLEAN /\ calls \in Seq(Call)
        /\ LoopOK /\ CommitsOK /\ WorldOK /\ Shape
    BY DEF TInv, LoopOK
  <1>b. Len(calls) \in Nat /\ DOMAIN calls = 1..Len(calls)
    BY <1>a, CallFields
  <1>1. ASSUME NEW i \in DOMAIN calls, CallAnswers(i) \/ AttemptFails(i)
        PROVE  TInv'
    <2>1. /\ UNCHANGED <<state, baseline, pc, many, outcome, finished>>
          /\ UNCHANGED <<chain, commits, asked, bill, ended>>
      BY <1>1 DEF CallAnswers, AttemptFails
    <2>2. calls' \in Seq(Call) /\ Len(calls') = Len(calls)
      <3>1. calls[i] \in Call /\ calls[i].tries \in Nat
        BY <1>a, <1>b, <1>1, CallFields
      <3>2. CASE CallAnswers(i)
        <4>1. [calls[i] EXCEPT !.status = "ok"] \in Call
          BY <3>1 DEF Call
        <4>2. calls' = [calls EXCEPT ![i] = [calls[i] EXCEPT !.status = "ok"]]
          BY <1>b, <3>2 DEF CallAnswers
        <4>. QED BY <1>a, <1>b, <4>1, <4>2, ExceptSeq
      <3>3. CASE AttemptFails(i)
        <4>. DEFINE tries == calls[i].tries + 1
                    status == IF tries < MaxTries(calls[i].tool)
                              THEN "running" ELSE "failed"
        <4>0. tries \in Nat /\ status \in {"waiting", "running", "ok", "failed"}
          BY <3>1
        <4>2. calls' = [calls EXCEPT
                          ![i] = [calls[i] EXCEPT !.tries = tries, !.status = status]]
          BY <1>b, <3>3 DEF AttemptFails
        <4>. HIDE DEF tries, status
        <4>1. [calls[i] EXCEPT !.tries = tries, !.status = status] \in Call
          BY <3>1, <4>0 DEF Call
        <4>. QED BY <1>a, <1>b, <4>1, <4>2, ExceptSeq
      <3>. QED BY <1>1, <3>2, <3>3
    <2>3. executed' \in [Cids -> Nat] /\ late' \in [Cids -> Nat]
      <3>1. executed' = executed \/ executed' = [executed EXCEPT ![Cid(i)] = @ + 1]
        BY <1>1 DEF CallAnswers, AttemptFails, Ran
      <3>2. late' = late \/ late' = [late EXCEPT ![Cid(i)] = @ + 1]
        BY <1>1 DEF CallAnswers, AttemptFails
      <3>3. Cid(i) \in Cids
        <4>1. pc \in Busy
          BY <1>1 DEF CallAnswers, AttemptFails, Busy
        <4>. QED BY <1>a, <1>b, <4>1, RoundType
      <3>. DEFINE cid == Cid(i)
      <3>. HIDE DEF cid
      <3>4. \A f \in [Cids -> Nat] : [f EXCEPT ![cid] = f[cid] + 1] \in [Cids -> Nat]
        BY <3>3, CountedUp DEF cid
      <3>5. executed \in [Cids -> Nat] /\ late \in [Cids -> Nat]
        BY <1>a DEF WorldOK
      <3>. QED BY <3>1, <3>2, <3>4, <3>5 DEF cid
    <2>4. LoopOK'
      BY <1>a, <2>1, <2>2 DEF LoopOK
    <2>5. Shape'
      BY <1>a, <1>b, <2>1, <2>2, EmptySeq DEF Shape
    <2>. QED BY <1>a, <2>1, <2>3, <2>4, <2>5, SameCommits DEF TInv, WorldOK
  <1>2. ASSUME IssueCommit \/ (\E request \in inflight : RunCommit(request))
        PROVE  LoopOK' /\ WorldOK' /\ Shape' /\ UNCHANGED chain
    <2>1. UNCHANGED <<loop, chain, world>>
      BY <1>2 DEF IssueCommit, RunCommit
    <2>2. UNCHANGED <<state, baseline, pc, many, calls, outcome, finished>>
      BY <2>1 DEF loop
    <2>. QED BY <1>a, <2>1, <2>2 DEF LoopOK, WorldOK, world, Shape
  <1>3. CASE IssueCommit
    <2>. DEFINE new == [base |-> inp.cursor, value |-> state, try |-> attempt + 1]
    <2>1. /\ attempt' = attempt + 1 /\ attempt < CommitAttempts
          /\ inflight' = inflight \cup {new}
          /\ UNCHANGED <<chain, store, answer>>
      BY <1>3 DEF IssueCommit
    <2>2. attempt' \in 0..CommitAttempts /\ attempt \in Nat
      BY <1>a, <2>1, Constants DEF CommitsOK
    <2>3. new \in [base : Nat, value : AgentState, try : Nat]
      BY <1>a, <2>2 DEF CommitsOK
    <2>. HIDE DEF new
    <2>4. CommitsOK'
      BY <1>a, <2>1, <2>2, <2>3 DEF CommitsOK, chain
    <2>. QED BY <1>2, <1>3, <2>4 DEF TInv
  <1>4. ASSUME NEW request \in inflight, RunCommit(request)
        PROVE  TInv'
    <2>1. /\ UNCHANGED <<chain, attempt>> /\ inflight' \subseteq inflight
          /\ store' = CommitLog(store, request.base, request.value)
          /\ \/ UNCHANGED answer
             \/ /\ ~CommitConflicts(store, request.base, request.value)
                /\ answer' = CommitCursor(store, request.base, request.value)
      BY <1>4 DEF RunCommit
    <2>2. request.base \in Nat /\ request.value \in AgentState
          /\ store \in Seq([base : Nat, value : AgentState])
      BY <1>a DEF CommitsOK
    <2>3. store' \in Seq([base : Nat, value : AgentState])
      <3>1. [base |-> request.base, value |-> request.value]
              \in [base : Nat, value : AgentState]
        BY <2>2
      <3>. QED BY <2>1, <2>2, <3>1, AppendProperties DEF CommitLog
    <2>4. CommitCursor(store, request.base, request.value) \in Nat
      <3>. DEFINE R == Replays(store, request.base, request.value)
      <3>1. R \subseteq Nat /\ Len(store) \in Nat
        BY <2>2, LenProperties DEF Replays
      <3>2. CASE R # {}
        <4>1. CommitCursor(store, request.base, request.value)
                = CHOOSE i \in R : \A j \in R : i <= j
          BY <3>2 DEF CommitCursor
        <4>. HIDE DEF R
        <4>2. \E i \in R : \A j \in R : i <= j
          BY <3>1, <3>2, LeastNumber
        <4>3. (CHOOSE i \in R : \A j \in R : i <= j) \in R
          BY <4>2
        <4>. QED BY <3>1, <4>1, <4>3
      <3>3. CASE R = {}
        BY <3>1, <3>3 DEF CommitCursor, Head0
      <3>. QED BY <3>2, <3>3
    <2>5. CommitsOK'
      BY <1>a, <2>1, <2>3, <2>4 DEF CommitsOK, chain
    <2>. QED BY <1>2, <1>4, <2>5 DEF TInv
  <1>. QED BY <1>1, <1>3, <1>4 DEF ActivityStep

LEMMA FailureTypes ==
  ASSUME TInv, Failure
  PROVE  TInv'
  <1>1. PICK abandoned \in SUBSET With("running") : Fails(abandoned)
    BY DEF Failure
  <1>2. /\ late' = [c \in Cids |-> late[c] +
                      (IF c \in {Cid(i) : i \in abandoned} THEN 1 ELSE 0)]
        /\ outcome' = "activity_failed" /\ pc' = "raise" /\ calls' = <<>>
        /\ UNCHANGED <<state, baseline, many, finished>>
        /\ UNCHANGED <<chain, commits, asked, executed, bill, ended>>
    BY <1>1 DEF Fails
  <1>3. late' \in [Cids -> Nat]
    BY <1>2 DEF TInv, WorldOK
  <1>4. LoopOK'
    BY <1>2 DEF TInv, LoopOK, PCs, Outcomes
  <1>5. Shape'
    BY <1>2, Constants DEF Shape, Busy, Settled, Open
  <1>. QED BY <1>2, <1>3, <1>4, <1>5, SameCommits DEF TInv, WorldOK

LEMMA NextTypes ==
  ASSUME TInv, CursorStored, [Next]_vars
  PROVE  TInv'
  <1>1. CASE UNCHANGED vars
    BY <1>1 DEF vars, loop, chain, commits, world, TInv, LoopOK, CommitsOK, WorldOK, Shape
  <1>2. ASSUME NEW cid \in Cids, LateAttemptRuns(cid) PROVE TInv'
    <2>1. /\ late[cid] > 0 /\ late' = [late EXCEPT ![cid] = @ - 1]
          /\ executed' = [executed EXCEPT ![cid] = @ + 1]
          /\ UNCHANGED <<loop, chain, commits, asked, bill, ended>>
      BY <1>2 DEF LateAttemptRuns, Ran
    <2>2. late' \in [Cids -> Nat]
      <3>1. late \in [Cids -> Nat] /\ late[cid] \in Nat
        BY DEF TInv, WorldOK
      <3>2. late[cid] - 1 \in Nat
        BY <2>1, <3>1
      <3>. QED BY <2>1, <3>1, <3>2
    <2>3. executed' \in [Cids -> Nat]
      BY <2>1, CountedUp DEF TInv, WorldOK
    <2>4. LoopOK' /\ Shape'
      BY <2>1 DEF loop, TInv, LoopOK, Shape
    <2>. QED BY <2>1, <2>2, <2>3, <2>4, SameCommits DEF TInv, WorldOK
  <1>3. CASE Rest
    BY <1>1, <1>3 DEF Rest
  <1>. QED BY <1>1, <1>2, <1>3, ControllerTypes, LoopTypes, ActivityTypes,
              FailureTypes DEF Next

-----------------------------------------------------------------------------
(* While a call that is not a read runs, nothing else runs, what comes     *)
(* before it has settled, and no read waits to be started beside it.       *)
AloneInv ==
  \A i \in 1..Len(calls) :
    calls[i].status = "running" /\ calls[i].tool \notin Reads =>
      /\ \A j \in 1..Len(calls) : calls[j].status = "running" => j = i
      /\ \A j \in 1..i - 1 : calls[j].status \in {"ok", "failed"}
      /\ \A j \in 1..Len(calls) :
           many /\ calls[j].status = "waiting" => calls[j].tool \notin Reads

LEMMA OtherCalls ==
  ASSUME TInv, [Next]_vars, ~StartCalls,
         \A i \in DOMAIN calls : ~CallAnswers(i) /\ ~AttemptFails(i)
  PROVE  \/ calls' = <<>>
         \/ UNCHANGED <<calls, many>>
         \/ \A i \in DOMAIN calls' : calls'[i].status = "waiting"
  <1>1. CASE UNCHANGED vars
    BY <1>1 DEF vars, loop
  <1>2. CASE ControllerStep
    <2>1. ASSUME NEW tools \in Batches, NEW batch \in BOOLEAN, ChooseCalls(tools, batch)
          PROVE  calls' = <<>> \/ \A i \in DOMAIN calls' : calls'[i].status = "waiting"
      BY <2>1 DEF ChooseCalls, Finish
    <2>2. CASE \E granted \in BOOLEAN : ChooseSub(granted)
      BY <2>2 DEF ChooseSub, Finish
    <2>3. CASE FinishTooEarly \/ Done \/ Output \/ Escalate \/ Malformed
      BY <2>3 DEF FinishTooEarly, Done, Output, Escalate, Malformed, Finish, Reask
    <2>. QED BY <1>2, <2>1, <2>2, <2>3 DEF ControllerStep
  <1>3. CASE LoopStep
    BY <1>3 DEF LoopStep, Boot, RoundsExhausted, CannotThink, AskController,
       OutputValid, OutputInvalid, InputsInvalid, ChargeCalls, CallsDone, StartSub,
       SubReturns, ContinueAsNew, Return, Raise, Finish, Reask, EndRound
  <1>4. CASE ActivityStep
    BY <1>4 DEF ActivityStep, IssueCommit, RunCommit, loop
  <1>5. CASE Failure
    BY <1>5 DEF Failure, Fails
  <1>6. CASE (\E cid \in Cids : LateAttemptRuns(cid)) \/ Rest
    BY <1>6 DEF LateAttemptRuns, Rest, loop, vars
  <1>. QED BY <1>1, <1>2, <1>3, <1>4, <1>5, <1>6 DEF Next

(* A step of one call: it stops running, or runs again.                    *)
LEMMA OneCallAlone ==
  ASSUME TInv, AloneInv, NEW i \in DOMAIN calls, CallAnswers(i) \/ AttemptFails(i)
  PROVE  AloneInv'
  <1>1. /\ Len(calls) \in Nat /\ DOMAIN calls = 1..Len(calls) /\ calls \in Seq(Call)
        /\ \A j \in 1..Len(calls) : calls[j] \in Call
    BY CallFields DEF TInv, LoopOK
  <1>2. calls[i].status = "running" /\ many' = many
    BY DEF CallAnswers, AttemptFails, With
  <1>3. /\ Len(calls') = Len(calls)
        /\ \A j \in 1..Len(calls) : j # i => calls'[j] = calls[j]
        /\ calls'[i].tool = calls[i].tool
        /\ calls'[i].status \in {"running", "ok", "failed"}
    <2>1. CASE CallAnswers(i)
      <3>1. calls' = [calls EXCEPT ![i] = [calls[i] EXCEPT !.status = "ok"]]
        BY <1>1, <2>1 DEF CallAnswers
      <3>2. [calls[i] EXCEPT !.status = "ok"] \in Call
            /\ [calls[i] EXCEPT !.status = "ok"].status = "ok"
            /\ [calls[i] EXCEPT !.status = "ok"].tool = calls[i].tool
        BY <1>1 DEF Call
      <3>. QED BY <1>1, <3>1, <3>2, ExceptSeq
    <2>2. CASE AttemptFails(i)
      <3>. DEFINE tries == calls[i].tries + 1
                  status == IF tries < MaxTries(calls[i].tool)
                            THEN "running" ELSE "failed"
                  new == [calls[i] EXCEPT !.tries = tries, !.status = status]
      <3>1. calls' = [calls EXCEPT ![i] = new]
        BY <1>1, <2>2 DEF AttemptFails
      <3>2. tries \in Nat /\ status \in {"running", "failed"}
        BY CallFields, <1>1 DEF TInv
      <3>. HIDE DEF tries, status
      <3>3. new \in Call /\ new.status = status /\ new.tool = calls[i].tool
        BY <1>1, <3>2 DEF Call
      <3>. HIDE DEF new
      <3>. QED BY <1>1, <3>1, <3>2, <3>3, ExceptSeq
    <2>. QED BY <2>1, <2>2
  <1>4. ASSUME NEW k \in 1..Len(calls), calls'[k].status = "running",
               calls'[k].tool \notin Reads
        PROVE  /\ \A j \in 1..Len(calls) : calls'[j].status = "running" => j = k
               /\ \A j \in 1..k - 1 : calls'[j].status \in {"ok", "failed"}
               /\ \A j \in 1..Len(calls) :
                    many /\ calls'[j].status = "waiting" => calls'[j].tool \notin Reads
    <2>1. calls[k].status = "running" /\ calls[k].tool \notin Reads
      BY <1>2, <1>3, <1>4
    <2>2. /\ \A j \in 1..Len(calls) : calls[j].status = "running" => j = k
          /\ \A j \in 1..k - 1 : calls[j].status \in {"ok", "failed"}
          /\ \A j \in 1..Len(calls) :
               many /\ calls[j].status = "waiting" => calls[j].tool \notin Reads
      BY <2>1 DEF AloneInv
    <2>3. i = k /\ \A j \in 1..k - 1 : j \in 1..Len(calls) /\ j # k
      BY <1>1, <1>2, <2>2
    <2>. QED BY <1>3, <2>2, <2>3
  <1>. QED BY <1>2, <1>3, <1>4 DEF AloneInv

LEMMA StartAlone ==
  ASSUME TInv, AloneInv, StartCalls
  PROVE  AloneInv'
  <1>1. /\ Len(calls) \in Nat /\ DOMAIN calls = 1..Len(calls)
        /\ \A j \in 1..Len(calls) : calls[j] \in Call
    BY CallFields DEF TInv
  <1>2. /\ calls' = [i \in 1..Len(calls) |->
                 IF i \in Startable THEN [calls[i] EXCEPT !.status = "running"]
                 ELSE calls[i]]
        /\ many' = many /\ Startable # {}
    BY <1>1 DEF StartCalls
  <1>3. /\ Len(calls') = Len(calls)
        /\ \A i \in 1..Len(calls) :
             /\ calls'[i].tool = calls[i].tool
             /\ i \in Startable => calls'[i].status = "running"
             /\ i \notin Startable => calls'[i].status = calls[i].status
    BY <1>1, <1>2 DEF Call
  <1>4. \A i \in Startable : i \in 1..Len(calls) /\ calls[i].status = "waiting"
    BY <1>1 DEF Startable, WaitingReads, With
  <1>5. CASE WaitingReads # {}
    <2>1. Startable = WaitingReads
      BY <1>5 DEF Startable
    <2>2. \A i \in 1..Len(calls) :
            calls[i].status = "running" => calls[i].tool \in Reads
      BY <1>1, <1>5 DEF AloneInv, WaitingReads, With
    <2>3. \A i \in Startable : calls[i].tool \in Reads
      BY <2>1 DEF WaitingReads
    <2>. QED BY <1>3, <1>4, <2>2, <2>3 DEF AloneInv
  <1>6. CASE WaitingReads = {}
    <2>1. PICK i \in With("waiting") : i \in Startable
      BY <1>2, <1>6 DEF Startable
    <2>2. /\ With("running") = {} /\ i = Min(With("waiting"))
          /\ Startable = {i}
      BY <1>6, <2>1 DEF Startable
    <2>3. \A j \in With("waiting") : i <= j
      <3>1. With("waiting") \subseteq Nat
        BY <1>1 DEF With
      <3>2. \E n \in With("waiting") : \A m \in With("waiting") : n <= m
        BY <2>1, <3>1, LeastNumber
      <3>. QED BY <2>2, <3>2 DEF Min
    <2>4. i \in 1..Len(calls)
      BY <1>4, <2>1
    <2>5. \A j \in 1..i - 1 : j \in 1..Len(calls) /\ ~(i <= j) /\ j # i
      BY <1>1, <2>4
    <2>6. \A j \in 1..i - 1 : calls[j].status \in {"ok", "failed"}
      <3>. TAKE j \in 1..i - 1
      <3>1. j \notin With("waiting") /\ j \notin With("running") /\ j \in 1..Len(calls)
        BY <2>2, <2>3, <2>5
      <3>2. calls[j].status \in {"waiting", "running", "ok", "failed"}
        BY <3>1, CallFields DEF TInv
      <3>. QED BY <1>1, <3>1, <3>2 DEF With
    <2>7. \A j \in 1..Len(calls) : calls'[j].status = "running" => j = i
      BY <1>1, <1>3, <2>2 DEF With
    <2>8. \A j \in 1..Len(calls) :
            many /\ calls'[j].status = "waiting" => calls'[j].tool \notin Reads
      BY <1>1, <1>3, <1>6, <2>2 DEF WaitingReads, With
    <2>9. \A j \in 1..i - 1 : calls'[j].status \in {"ok", "failed"}
      BY <1>3, <2>2, <2>5, <2>6
    <2>10. ASSUME NEW k \in 1..Len(calls'), calls'[k].status = "running"
           PROVE  /\ \A j \in 1..Len(calls') : calls'[j].status = "running" => j = k
                  /\ \A j \in 1..k - 1 : calls'[j].status \in {"ok", "failed"}
                  /\ \A j \in 1..Len(calls') : many' /\ calls'[j].status = "waiting"
                       => calls'[j].tool \notin Reads
      <3>1. k = i
        BY <1>3, <2>7, <2>10
      <3>. QED BY <1>2, <1>3, <2>7, <2>8, <2>9, <3>1
    <2>. QED BY <2>10 DEF AloneInv
  <1>. QED BY <1>5, <1>6

LEMMA NextAlone ==
  ASSUME TInv, TInv', AloneInv, [Next]_vars
  PROVE  AloneInv'
  <1>1. CASE StartCalls
    BY <1>1, StartAlone
  <1>2. ASSUME NEW i \in DOMAIN calls, CallAnswers(i) \/ AttemptFails(i) PROVE AloneInv'
    BY <1>2, OneCallAlone
  <1>3. CASE calls' = <<>>
    BY <1>3 DEF AloneInv
  <1>4. CASE UNCHANGED <<calls, many>>
    BY <1>4 DEF AloneInv
  <1>5. CASE \A i \in DOMAIN calls' : calls'[i].status = "waiting"
    <2>1. DOMAIN calls' = 1..Len(calls')
      BY CallFields DEF TInv, LoopOK
    <2>. QED BY <1>5, <2>1 DEF AloneInv
  <1>. QED BY <1>1, <1>2, <1>3, <1>4, <1>5, OtherCalls

-----------------------------------------------------------------------------
(* The commits of the loop's state.  A segment starts from the revision    *)
(* whose number is its own; until one of its attempts is applied that is   *)
(* the head of the store, and attempts of earlier segments come too late.  *)
Committing == pc \in {"commit", "raise", "failed"}
StoreInv ==
  /\ UseStore =>
       /\ inp.cursor = segment
       /\ Len(store) \in {segment, segment + 1}
       /\ \A i \in 1..Len(store) : store[i].base = i - 1
       /\ Len(store) = segment + 1 => Committing /\ store[Len(store)].value = state
       /\ answer # NoAnswer => answer = segment + 1 /\ Len(store) = answer
       /\ \A r \in inflight :
            /\ r.base <= segment
            /\ r.base = segment => Committing /\ r.value = state
  /\ ~UseStore => Len(store) = 0 /\ inflight = {} /\ inp.cursor = 0
  /\ pc # "commit" => answer = NoAnswer

(* A segment that carries on has a round behind it, and so has its state   *)
(* once it is loaded: no loaded state is mistaken for an empty one.        *)
RoundInv ==
  /\ segment = 0 => Carried = Blank
  /\ segment > 0 => Carried.round > 0
  /\ pc = "boot" => state = Blank
  /\ pc \notin {"boot", "raise", "failed"} /\ segment > 0 => state.round > 0
  /\ pc = "commit" => state.round > 0

CInv == StoreInv /\ RoundInv

LEMMA InitCommits == Init => CInv
  <1>. SUFFICES ASSUME Init PROVE CInv
    OBVIOUS
  <1>1. /\ state = Blank /\ pc = "boot" /\ inp.state = Blank /\ inp.cursor = 0
        /\ segment = 0 /\ Len(store) = 0 /\ inflight = {} /\ answer = NoAnswer
    BY DEF Init
  <1>. QED BY <1>1 DEF CInv, StoreInv, RoundInv, Carried

LEMMA StoredCursor == TInv /\ StoreInv => CursorStored
  <1>. SUFFICES ASSUME TInv, StoreInv PROVE CursorStored
    OBVIOUS
  <1>1. /\ inp.cursor \in Nat /\ segment \in Nat /\ Len(store) \in Nat
        /\ UseStore \in BOOLEAN
    BY LenProperties, Constants DEF TInv, CommitsOK
  <1>2. CASE UseStore
    BY <1>1, <1>2 DEF StoreInv, CursorStored
  <1>3. CASE ~UseStore
    BY <1>1, <1>3 DEF StoreInv, CursorStored
  <1>. QED BY <1>2, <1>3

(* Steps that leave the store and what the segment started from.           *)
LEMMA CommitsLeft ==
  ASSUME TInv, CInv, UNCHANGED <<inp, segment, store, inflight, answer>>,
         Committing => Committing' /\ state' = state,
         pc' # "commit" => pc # "commit" \/ answer = NoAnswer,
         pc' # "boot", pc' = "commit" => state'.round > 0,
         pc' \notin {"raise", "failed"} /\ segment > 0 => state'.round > 0
  PROVE  CInv'
  <1>1. Carried' = Carried
    BY DEF Carried
  <1>2. StoreInv'
    BY DEF CInv, StoreInv
  <1>3. RoundInv'
    BY <1>1 DEF CInv, RoundInv
  <1>. QED BY <1>2, <1>3 DEF CInv

(* Those of them that the loop takes in a round.                           *)
LEMMA RoundsLeft ==
  ASSUME TInv, CInv, UNCHANGED <<inp, segment, store, inflight, answer>>,
         pc \notin {"boot", "raise", "failed", "commit"}, state' \in AgentState,
         \/ state'.round = state.round /\ pc' \notin {"boot", "commit"}
         \/ state'.round = state.round + 1 /\ pc' # "boot"
  PROVE  CInv'
  <1>1. state.round \in Nat /\ state'.round \in Nat
    BY StateFields DEF TInv, LoopOK
  <1>2. ~Committing
    BY DEF Committing
  <1>3. segment > 0 => state.round > 0
    BY DEF CInv, RoundInv
  <1>4. pc' = "commit" => state'.round > 0
    BY <1>1
  <1>5. segment > 0 => state'.round > 0
    BY <1>1, <1>3
  <1>. QED BY <1>2, <1>4, <1>5, CommitsLeft

LEMMA FinishLeft ==
  ASSUME TInv, CInv, NEW result, NEW s \in AgentState, Finish(result, s),
         s.round = state.round, pc \notin {"boot", "raise", "failed", "commit"}
  PROVE  CInv'
  <1>1. /\ state' = s /\ pc' = "return"
        /\ UNCHANGED <<inp, segment, store, inflight, answer>>
    BY DEF Finish, chain, commits
  <1>. QED BY <1>1, RoundsLeft

LEMMA ReaskLeft ==
  ASSUME TInv, CInv, NEW s \in AgentState, NEW entries \in Seq(TraceEntry),
         Reask(s, entries), s.round = state.round,
         pc \notin {"boot", "raise", "failed", "commit"}
  PROVE  CInv'
  <1>1. /\ state' = Recorded(s, entries) /\ pc' = "round"
        /\ UNCHANGED <<inp, segment, store, inflight, answer>>
    BY DEF Reask, chain, commits
  <1>2. state' \in AgentState /\ state'.round = state.round + 1
    BY <1>1, RecordedType
  <1>. QED BY <1>1, <1>2, RoundsLeft

LEMMA EndRoundLeft ==
  ASSUME TInv, CInv, NEW cost \in Nat, NEW entries \in Seq(TraceEntry),
         EndRound(state, cost, entries), pc \notin {"boot", "raise", "failed", "commit"}
  PROVE  CInv'
  <1>. DEFINE spent == [state EXCEPT !.spent = @ + cost]
  <1>1. spent \in AgentState /\ spent.round = state.round
    BY SpendType DEF TInv, LoopOK
  <1>2. /\ state' = Recorded(spent, entries) /\ pc' \in {"commit", "round"}
        /\ UNCHANGED <<inp, segment, store, inflight, answer>>
    BY DEF EndRound, Await, chain, commits
  <1>. HIDE DEF spent
  <1>3. state' \in AgentState /\ state'.round = state.round + 1
    BY <1>1, <1>2, RecordedType
  <1>. QED BY <1>2, <1>3, RoundsLeft

(* An attempt that is run.                                                 *)
LEMMA RunCommits ==
  ASSUME TInv, CInv, NEW r \in inflight, RunCommit(r)
  PROVE  CInv'
  <1>1. /\ store \in Seq([base : Nat, value : AgentState]) /\ Len(store) \in Nat
        /\ DOMAIN store = 1..Len(store) /\ segment \in Nat /\ inp.cursor \in Nat
        /\ r.base \in Nat /\ r.value \in AgentState /\ answer \in Nat
        /\ [base |-> r.base, value |-> r.value] \in [base : Nat, value : AgentState]
    <2>1. /\ store \in Seq([base : Nat, value : AgentState]) /\ segment \in Nat
          /\ inp \in [state : AgentState, cursor : Nat] /\ answer \in Nat
          /\ r \in [base : Nat, value : AgentState, try : Nat]
      BY DEF TInv, CommitsOK
    <2>. QED BY <2>1, LenProperties
  <1>2. /\ UNCHANGED <<inp, segment, state, pc>> /\ inflight' \subseteq inflight
        /\ store' = CommitLog(store, r.base, r.value)
    BY DEF RunCommit, loop, chain
  <1>3. UseStore /\ inflight # {}
    BY DEF CInv, StoreInv
  <1>4. /\ inp.cursor = segment
        /\ \A i \in 1..Len(store) : store[i].base = i - 1
        /\ Len(store) \in {segment, segment + 1}
        /\ r.base <= segment
        /\ r.base = segment => Committing /\ r.value = state
    BY <1>3 DEF CInv, StoreInv
  <1>a. /\ segment \in Nat /\ Len(store) \in Nat /\ r.base \in Nat
        /\ Len(store) = segment \/ Len(store) = segment + 1
        /\ r.base <= segment
    BY <1>1, <1>4
  <1>5. \A i \in Replays(store, r.base, r.value) :
          i = r.base + 1 /\ i \in 1..Len(store)
    <2>. TAKE i \in Replays(store, r.base, r.value)
    <2>1. i \in 1..Len(store) /\ store[i].base = r.base
      BY <1>1 DEF Replays
    <2>2. r.base = i - 1
      BY <1>4, <2>1
    <2>. QED BY <1>1, <2>1, <2>2
  <1>6. ASSUME store' # store
        PROVE  /\ r.base = segment /\ Len(store) = segment
               /\ store' = Append(store, [base |-> r.base, value |-> r.value])
    <2>1. r.base = Len(store)
      BY <1>2, <1>6 DEF CommitLog, Head0
    <2>2. Len(store) = segment
      BY <1>a, <2>1
    <2>3. store' = Append(store, [base |-> r.base, value |-> r.value])
      BY <1>2, <1>6 DEF CommitLog
    <2>. QED BY <2>1, <2>2, <2>3
  <1>7. /\ \A i \in 1..Len(store') : store'[i].base = i - 1
        /\ Len(store') \in {segment, segment + 1}
        /\ Len(store') = segment + 1 => Committing /\ store'[Len(store')].value = state
        /\ \A i \in 1..Len(store) : store'[i] = store[i]
        /\ Len(store) = segment + 1 => store' = store
    <2>1. CASE store' = store
      BY <1>3, <1>4, <2>1 DEF CInv, StoreInv
    <2>2. CASE store' # store
      <3>. DEFINE new == [base |-> r.base, value |-> r.value]
      <3>1. /\ new \in [base : Nat, value : AgentState]
            /\ new.base = r.base /\ new.value = r.value
        BY <1>1
      <3>2. r.base = segment /\ Len(store) = segment /\ store' = Append(store, new)
        BY <1>6, <2>2
      <3>. HIDE DEF new
      <3>3. /\ Len(store') = segment + 1
            /\ \A i \in 1..Len(store) : store'[i] = store[i]
            /\ store'[Len(store) + 1] = new
        BY <1>1, <3>1, <3>2, AppendProperties
      <3>4. \A i \in 1..Len(store') : store'[i].base = i - 1
        <4>. TAKE i \in 1..Len(store')
        <4>1. CASE i \in 1..Len(store)
          BY <1>4, <3>3, <4>1
        <4>2. CASE i = Len(store) + 1
          BY <1>1, <3>1, <3>2, <3>3, <4>2
        <4>. QED BY <1>1, <3>2, <3>3, <4>1, <4>2
      <3>5. store'[Len(store')].value = state /\ Committing
        BY <1>4, <3>1, <3>2, <3>3
      <3>. QED BY <1>1, <3>2, <3>3, <3>4, <3>5
    <2>. QED BY <2>1, <2>2
  <1>8. ASSUME answer' # NoAnswer
        PROVE  answer' = segment + 1 /\ Len(store') = answer' /\ pc = "commit"
    <2>1. CASE answer' = answer
      <3>1. answer = segment + 1 /\ Len(store) = answer /\ pc = "commit"
        BY <1>3, <1>8, <2>1 DEF CInv, StoreInv
      <3>. QED BY <1>7, <2>1, <3>1
    <2>2. CASE answer' # answer
      <3>1. /\ Heard(r) /\ ~CommitConflicts(store, r.base, r.value)
            /\ answer' = CommitCursor(store, r.base, r.value)
        BY <2>2 DEF RunCommit
      <3>2. r.base = segment /\ pc = "commit"
        <4>1. r.base = inp.cursor /\ pc = "commit"
          BY <3>1 DEF Heard
        <4>. QED BY <1>4, <4>1
      <3>3. CASE Replays(store, r.base, r.value) = {}
        <4>1. r.base = Len(store) /\ answer' = Len(store) + 1
          BY <3>1, <3>3 DEF CommitConflicts, CommitCursor, Head0
        <4>2. store' = Append(store, [base |-> r.base, value |-> r.value])
          BY <1>2, <3>3, <4>1 DEF CommitLog, Head0
        <4>3. Len(store') = Len(store) + 1
          BY <1>1, <4>2, AppendProperties
        <4>. QED BY <3>2, <4>1, <4>3
      <3>4. CASE Replays(store, r.base, r.value) # {}
        <4>. DEFINE R == Replays(store, r.base, r.value)
        <4>1. R \subseteq Nat /\ R # {} /\ \A i \in R : i = r.base + 1 /\ i <= Len(store)
          BY <1>1, <1>5, <3>4
        <4>2. answer' = CHOOSE i \in R : \A j \in R : i <= j
          BY <3>1, <3>4 DEF CommitCursor
        <4>. HIDE DEF R
        <4>3. \E i \in R : \A j \in R : i <= j
          BY <4>1, LeastNumber
        <4>4. answer' \in R
          BY <4>2, <4>3
        <4>5. answer' = segment + 1 /\ answer' <= Len(store)
          BY <3>2, <4>1, <4>4
        <4>6. Len(store) = segment + 1
          BY <1>a, <4>5
        <4>. QED BY <1>7, <3>2, <4>5, <4>6
      <3>. QED BY <3>3, <3>4
    <2>. QED BY <2>1, <2>2
  <1>9. Committing' = Committing
    BY <1>2 DEF Committing
  <1>10. StoreInv'
    BY <1>2, <1>3, <1>4, <1>7, <1>8, <1>9 DEF CInv, StoreInv
  <1>11. Carried' = Carried
    <2>1. inp.cursor # 0 => inp.cursor \in 1..Len(store)
      BY <1>1, <1>4
    <2>. QED BY <1>2, <1>7, <2>1 DEF Carried
  <1>12. RoundInv'
    BY <1>2, <1>11 DEF CInv, RoundInv
  <1>. QED BY <1>10, <1>12 DEF CInv

LEMMA ContinueCommits ==
  ASSUME TInv, CInv, ContinueAsNew
  PROVE  CInv'
  <1>1. /\ pc = "commit" /\ pc' = "boot" /\ state' = Blank /\ answer' = NoAnswer
        /\ UseStore => answer # NoAnswer
        /\ inp' = CarriedInput /\ segment' = segment + 1
        /\ UNCHANGED <<store, inflight>>
    BY DEF ContinueAsNew
  <1>2. /\ segment \in Nat /\ Len(store) \in Nat /\ UseStore \in BOOLEAN
        /\ \A q \in inflight : q.base \in Nat
    <2>1. /\ inflight \subseteq [base : Nat, value : AgentState, try : Nat]
          /\ store \in Seq([base : Nat, value : AgentState]) /\ segment \in Nat
      BY DEF TInv, CommitsOK
    <2>. QED BY <2>1, LenProperties, Constants
  <1>3. state.round > 0
    BY <1>1 DEF CInv, RoundInv
  <1>4. CASE UseStore
    <2>1. /\ answer = segment + 1 /\ Len(store) = answer
          /\ store[Len(store)].value = state
          /\ \A i \in 1..Len(store) : store[i].base = i - 1
          /\ \A q \in inflight : q.base <= segment
      BY <1>1, <1>4 DEF CInv, StoreInv
    <2>2. inp'.cursor = segment' /\ Len(store') = segment' /\ inp'.cursor # 0
          /\ Len(store') # segment' + 1
      BY <1>1, <1>2, <1>4, <2>1 DEF CarriedInput
    <2>3. \A q \in inflight' : q.base <= segment' /\ q.base # segment'
      BY <1>1, <1>2, <2>1
    <2>4. StoreInv'
      BY <1>1, <1>4, <2>1, <2>2, <2>3 DEF StoreInv
    <2>5. Carried' = state
      BY <1>1, <2>1, <2>2 DEF Carried
    <2>6. segment' > 0 /\ segment' # 0
      BY <1>1, <1>2
    <2>7. RoundInv'
      BY <1>1, <1>3, <2>5, <2>6 DEF RoundInv
    <2>. QED BY <2>4, <2>7 DEF CInv
  <1>5. CASE ~UseStore
    <2>1. inp'.cursor = 0 /\ inp'.state = state
      BY <1>1, <1>5 DEF CarriedInput
    <2>2. StoreInv'
      BY <1>1, <1>5, <2>1 DEF CInv, StoreInv
    <2>3. Carried' = state /\ segment' # 0
      BY <1>1, <1>2, <2>1 DEF Carried
    <2>4. RoundInv'
      BY <1>1, <1>3, <2>3 DEF RoundInv
    <2>. QED BY <2>2, <2>4 DEF CInv
  <1>. QED BY <1>2, <1>4, <1>5

LEMMA NextCommits ==
  ASSUME TInv, CInv, [Next]_vars
  PROVE  CInv'
  <1>. USE DEF chain, commits
  <1>a. /\ state \in AgentState /\ LoopOK /\ Shape /\ state.round \in Nat
        /\ Thought \in AgentState /\ Thought.round = state.round
    BY StateFields, ThoughtType DEF TInv, LoopOK
  <1>b. ASSUME UNCHANGED <<state, pc, inp, segment, store, inflight, answer>>
        PROVE  CInv'
    BY <1>b DEF CInv, StoreInv, RoundInv, Carried, Committing
  <1>c. ASSUME UNCHANGED <<state, inp, segment, store, inflight, answer>>,
               pc \notin {"boot", "raise", "failed", "commit"}, pc' \notin {"boot", "commit"}
        PROVE  CInv'
    BY <1>a, <1>c, RoundsLeft
  <1>1. CASE UNCHANGED vars
    BY <1>1, <1>b DEF vars, loop
  <1>2. CASE ControllerStep
    <2>1. pc = "think"
      BY <1>2 DEF ControllerStep, FinishTooEarly, Done, Output, Escalate, Malformed,
         MayFinish, ChooseCalls, ChooseSub
    <2>2. ASSUME NEW result, Finish(result, Thought) PROVE CInv'
      BY <1>a, <2>1, <2>2, FinishLeft
    <2>3. ASSUME NEW place \in {"output", "inputs", "resolve"}, Await(Thought, place)
          PROVE  CInv'
      BY <1>a, <2>1, <2>3, RoundsLeft DEF Await
    <2>4. CASE Reask(Thought, <<Entry("reask", NoTool, <<"round", state.round>>, TRUE)>>)
      <3>1. pc \in Busy
        BY <2>1 DEF Busy
      <3>2. <<Entry("reask", NoTool, <<"round", state.round>>, TRUE)>> \in Seq(TraceEntry)
        BY <1>a, <3>1, RoundType, EntryType
      <3>. QED BY <1>a, <2>1, <2>4, <3>2, ReaskLeft
    <2>5. ASSUME NEW tools \in Batches, NEW batch \in BOOLEAN, ChooseCalls(tools, batch)
          PROVE  CInv'
      BY <2>2, <2>3, <2>5 DEF ChooseCalls
    <2>6. ASSUME NEW granted \in BOOLEAN, ChooseSub(granted)
          PROVE  CInv'
      BY <2>2, <2>3, <2>6 DEF ChooseSub
    <2>7. CASE FinishTooEarly
      BY <2>2, <2>4, <2>7 DEF FinishTooEarly
    <2>8. CASE Done \/ Escalate \/ Malformed \/ Output
      BY <2>2, <2>3, <2>8 DEF Done, Escalate, Malformed, Output
    <2>. QED BY <1>2, <2>5, <2>6, <2>7, <2>8 DEF ControllerStep
  <1>3. CASE LoopStep
    <2>1. CASE Boot
      <3>1. /\ pc = "boot" /\ pc' = "round" /\ state' = Carried
            /\ UNCHANGED <<inp, segment, store, inflight, answer>>
        BY <2>1 DEF Boot
      <3>2. segment \in Nat
        BY DEF TInv, CommitsOK
      <3>3. segment > 0 => state'.round > 0
        BY <3>1 DEF CInv, RoundInv
      <3>4. ~Committing
        BY <3>1 DEF Committing
      <3>. QED BY <3>1, <3>3, <3>4, CommitsLeft
    <2>2. CASE RoundsExhausted \/ CannotThink \/ OutputValid
      BY <1>a, <2>2, FinishLeft DEF RoundsExhausted, CannotThink, OutputValid
    <2>3. CASE AskController \/ StartSub
      BY <2>3, <1>c DEF AskController, StartSub
    <2>4. CASE OutputInvalid
      <3>1. pc = "output" /\ pc \in Busy
        BY <2>4 DEF OutputInvalid, Busy
      <3>2. <<Entry("output_reask", NoTool, <<"round", state.round>>, TRUE)>>
              \in Seq(TraceEntry)
        BY <1>a, <3>1, RoundType, EntryType
      <3>. QED BY <1>a, <2>4, <3>1, <3>2, ReaskLeft, FinishLeft DEF OutputInvalid
    <2>5. ASSUME NEW bad \in Rising, InputsInvalid(bad) PROVE CInv'
      <3>1. pc = "inputs"
        BY <2>5 DEF InputsInvalid
      <3>. QED BY <1>a, <2>5, <3>1, ReaskedInputs, ReaskLeft DEF InputsInvalid
    <2>6. CASE ChargeCalls
      <3>1. /\ pc = "inputs" /\ pc' \in {"return", "calls"}
            /\ \E counts : state' = [state EXCEPT !.counts = counts]
            /\ UNCHANGED <<inp, segment, store, inflight, answer>>
        BY <2>6 DEF ChargeCalls, Finish, Await
      <3>2. state'.round = state.round
        BY <1>a, <3>1 DEF AgentState
      <3>3. state' \in AgentState
        BY <2>6, LoopTypes, StoredCursor DEF CInv, LoopStep, TInv, LoopOK
      <3>. QED BY <3>1, <3>2, <3>3, RoundsLeft
    <2>7. CASE StartCalls
      BY <2>7, <1>b DEF StartCalls
    <2>8. CASE CallsDone
      <3>1. pc = "calls" /\ ToolCost * Len(calls) \in Nat
        BY <1>a, <2>8, CallFields DEF CallsDone, ToolCost
      <3>. QED BY <2>8, <3>1, CalledEntries, EndRoundLeft DEF CallsDone
    <2>9. CASE SubReturns
      <3>1. pc = "sub" /\ pc \in Busy
        BY <2>9 DEF SubReturns, Busy
      <3>2. <<Entry("sub", NoTool, <<"sub", state.round>>, FALSE)>> \in Seq(TraceEntry)
            /\ SubCost \in Nat
        BY <1>a, <3>1, RoundType, EntryType DEF SubCost
      <3>. QED BY <2>9, <3>1, <3>2, EndRoundLeft DEF SubReturns
    <2>10. CASE ContinueAsNew
      BY <2>10, ContinueCommits
    <2>11. CASE Return
      BY <2>11, <1>c DEF Return
    <2>12. CASE Raise
      <3>1. /\ pc = "raise" /\ pc' = "failed"
            /\ UNCHANGED <<state, inp, segment, store, inflight, answer>>
        BY <2>12 DEF Raise
      <3>. QED BY <3>1, CommitsLeft DEF Committing
    <2>. QED BY <1>3, <2>1, <2>2, <2>3, <2>4, <2>5, <2>6, <2>7, <2>8, <2>9, <2>10,
                <2>11, <2>12 DEF LoopStep
  <1>4. CASE ActivityStep
    <2>1. ASSUME NEW i \in DOMAIN calls, CallAnswers(i) \/ AttemptFails(i) PROVE CInv'
      BY <2>1, <1>b DEF CallAnswers, AttemptFails
    <2>2. CASE IssueCommit
      <3>. DEFINE new == [base |-> inp.cursor, value |-> state, try |-> attempt + 1]
      <3>1. /\ pc = "commit" /\ UseStore /\ inflight' = inflight \cup {new}
            /\ UNCHANGED <<state, pc, inp, segment, store, answer>>
        BY <2>2 DEF IssueCommit, loop
      <3>2. new.base = segment /\ new.value = state /\ segment \in Nat
        BY <3>1 DEF CInv, StoreInv, TInv, CommitsOK
      <3>. HIDE DEF new
      <3>3. \A q \in inflight' : q.base <= segment /\ (q.base = segment => q.value = state)
        BY <3>1, <3>2 DEF CInv, StoreInv
      <3>4. Carried' = Carried /\ Committing /\ Committing'
        BY <3>1 DEF Carried, Committing
      <3>5. StoreInv'
        BY <3>1, <3>3, <3>4 DEF CInv, StoreInv
      <3>. QED BY <3>1, <3>4, <3>5 DEF CInv, RoundInv
    <2>3. ASSUME NEW r \in inflight, RunCommit(r) PROVE CInv'
      BY <2>3, RunCommits
    <2>. QED BY <1>4, <2>1, <2>2, <2>3 DEF ActivityStep
  <1>5. CASE Failure
    <2>1. PICK abandoned \in SUBSET With("running") : Fails(abandoned)
      BY <1>5 DEF Failure
    <2>2. /\ pc' = "raise" /\ UNCHANGED <<state, inp, segment, store, inflight, answer>>
          /\ pc = "commit" => answer = NoAnswer
      BY <2>1 DEF Fails, CommitExhausted
    <2>. QED BY <2>2, CommitsLeft DEF Committing
  <1>6. CASE (\E cid \in Cids : LateAttemptRuns(cid)) \/ Rest
    BY <1>1, <1>6, <1>b DEF LateAttemptRuns, Rest, loop
  <1>. QED BY <1>1, <1>2, <1>3, <1>4, <1>5, <1>6 DEF Next

-----------------------------------------------------------------------------
(* The invariant so far, and what it says of the loop's state wherever that*)
(* is: carried, as long as the segment has not loaded it, or live.         *)
BInv == TInv /\ CInv

LEMMA InitBase == Init => BInv
  BY InitTypes, InitCommits DEF BInv

LEMMA NextBase == BInv /\ [Next]_vars => BInv'
  BY NextTypes, NextCommits, StoredCursor DEF BInv, CInv

Loaded == pc \notin {"boot", "raise", "failed"}

LEMMA LiveType ==
  ASSUME BInv
  PROVE  /\ Live \in AgentState /\ Carried \in AgentState
         /\ Live.round \in Nat /\ Live.spent \in Nat /\ Live.trace \in Seq(TraceEntry)
         /\ Live.counts \in [Tools \cup Wires -> Nat]
         /\ Loaded => Live = state
         /\ pc = "boot" => Live = Carried
  <1>1. Carried \in AgentState /\ state \in AgentState
    BY StoredCursor, CarriedType DEF BInv, CInv, TInv, LoopOK, CursorStored
  <1>2. Live \in AgentState
    BY <1>1 DEF Live
  <1>3. ASSUME Loaded PROVE Live = state
    <2>1. segment \in Nat
      BY DEF BInv, TInv, CommitsOK
    <2>2. CASE segment = 0
      BY <2>2 DEF BInv, CInv, RoundInv, Live
    <2>3. CASE segment > 0
      <3>1. state.round > 0
        BY <1>3, <2>3 DEF BInv, CInv, RoundInv, Loaded
      <3>2. state # Blank
        BY <3>1, BlankType
      <3>. QED BY <3>2 DEF Live
    <2>. QED BY <2>1, <2>2, <2>3
  <1>4. pc = "boot" => Live = Carried
    BY DEF BInv, CInv, RoundInv, Live
  <1>. QED BY <1>1, <1>2, <1>3, <1>4, StateFields

LiveOK ==
  /\ Live \in AgentState
  /\ Live.round \in Nat /\ Live.spent \in Nat /\ Live.trace \in Seq(TraceEntry)
  /\ Live.counts \in [Tools \cup Wires -> Nat]
  /\ Loaded => Live = state
LEMMA LiveNow == BInv => LiveOK
  BY LiveType DEF LiveOK
LEMMA LiveNext == BInv' => LiveOK'
  BY LiveNow, PTL

LEMMA CarriedKept ==
  ASSUME BInv, [Next]_vars, ~ContinueAsNew
  PROVE  Carried' = Carried
  <1>1. ASSUME NEW r \in inflight, RunCommit(r) PROVE Carried' = Carried
    <2>1. inp' = inp /\ store' = CommitLog(store, r.base, r.value)
      BY <1>1 DEF RunCommit, chain
    <2>2. /\ store \in Seq([base : Nat, value : AgentState])
          /\ r \in [base : Nat, value : AgentState, try : Nat]
      BY DEF BInv, TInv, CommitsOK
    <2>3. [base |-> r.base, value |-> r.value] \in [base : Nat, value : AgentState]
      BY <2>2
    <2>4. \A i \in 1..Len(store) : store'[i] = store[i]
      BY <2>1, <2>2, <2>3, AppendProperties DEF CommitLog
    <2>5. inp.cursor # 0 => inp.cursor \in 1..Len(store)
      BY StoredCursor DEF BInv, CInv, CursorStored
    <2>. QED BY <2>1, <2>4, <2>5 DEF Carried
  <1>2. UNCHANGED <<inp, store>> \/ \E r \in inflight : RunCommit(r)
    <2>. USE DEF chain, commits
    <2>1. CASE ControllerStep
      BY <2>1 DEF ControllerStep, FinishTooEarly, Done, Output, Escalate, Malformed,
         ChooseCalls, ChooseSub, Finish, Reask, Await
    <2>2. CASE LoopStep
      BY <2>2 DEF LoopStep, Boot, RoundsExhausted, CannotThink, AskController,
         OutputValid, OutputInvalid, InputsInvalid, ChargeCalls, StartCalls,
         CallsDone, StartSub, SubReturns, Return, Raise, Finish, Reask, Await, EndRound
    <2>3. CASE ActivityStep
      BY <2>3 DEF ActivityStep, CallAnswers, AttemptFails, IssueCommit
    <2>4. CASE Failure
      BY <2>4 DEF Failure, Fails
    <2>5. CASE (\E cid \in Cids : LateAttemptRuns(cid)) \/ Rest \/ UNCHANGED vars
      BY <2>5 DEF LateAttemptRuns, Rest, vars
    <2>. QED BY <2>1, <2>2, <2>3, <2>4, <2>5 DEF Next
  <1>. QED BY <1>1, <1>2 DEF Carried

(* Continue-as-new and the load of what it carried change nothing.         *)
LEMMA HandoverLive ==
  ASSUME BInv, ContinueAsNew \/ Boot, [Next]_vars
  PROVE  Live' = Live
  <1>1. CASE ContinueAsNew
    <2>1. pc = "commit" /\ pc' = "boot"
      BY <1>1 DEF ContinueAsNew
    <2>2. Live = state /\ Live' = Carried'
      BY <1>1, <2>1, LiveType DEF Loaded, ContinueAsNew, Live
    <2>3. CASE UseStore
      <3>1. /\ answer # NoAnswer /\ answer = segment + 1 /\ Len(store) = answer
            /\ store[Len(store)].value = state /\ store' = store
            /\ inp'.cursor = answer
        BY <1>1, <2>3 DEF ContinueAsNew, BInv, CInv, StoreInv, CarriedInput
      <3>. QED BY <2>2, <3>1 DEF Carried, NoAnswer
    <2>4. CASE ~UseStore
      BY <1>1, <2>2, <2>4 DEF ContinueAsNew, CarriedInput, Carried
    <2>. QED BY <2>3, <2>4
  <1>2. CASE Boot
    <2>1. pc = "boot" /\ state' = Carried /\ Carried' = Carried
      BY <1>2, CarriedKept DEF Boot, ContinueAsNew
    <2>. QED BY <2>1, LiveType DEF Live
  <1>. QED BY <1>1, <1>2

-----------------------------------------------------------------------------
(* What the steps do to the run's accounts, wherever the loop's state is.  *)
Thinking == IF pc = "think" THEN ThinkCost ELSE 0
SameWorld == UNCHANGED <<asked, executed, late, bill>>
Spends(cost) ==
  /\ Live'.round = Live.round /\ Live'.spent = Live.spent + cost
  /\ Live'.trace = Live.trace
Moves(cost, entries) ==
  /\ Live'.round = Live.round + 1 /\ Live'.spent = Live.spent + cost
  /\ Live'.trace = Live.trace \o entries /\ Live'.counts = Live.counts
InOrder(entries) ==
  \A i \in 1..Len(entries) - 1 : Precedes(entries[i].cid, entries[i + 1].cid)
OfRound(entries) == \A i \in 1..Len(entries) : entries[i].cid[2] = Live.round
MayEnd == RequireToolCall => CalledTool(Live)

QuietStep ==
  /\ Live' = Live /\ SameWorld /\ UNCHANGED <<many, calls, outcome>>
  /\ \/ pc' = pc
     \/ pc = "boot" /\ pc' = "round"
     \/ pc = "commit" /\ pc' = "boot"
     \/ pc = "return" /\ pc' \in {"raise", "completed"}
     \/ pc = "raise" /\ pc' = "failed"

AskStep ==
  /\ pc = "round" /\ pc' = "think" /\ Live' = Live
  /\ Live.round < MaxRounds /\ Live.spent + ThinkCost <= Budget
  /\ Ask({<<"round", Live.round>>}, ThinkCost)
  /\ UNCHANGED <<many, calls, outcome, executed, late>>

SettleStep ==
  /\ pc \in {"round", "think", "output", "inputs"} /\ pc' = "return" /\ calls' = <<>>
  /\ outcome' \in Outcomes /\ outcome' # "activity_failed"
  /\ outcome' = "done" => pc = "output" \/ MayEnd
  /\ Spends(Thinking)
  /\ IF pc = "inputs"
     THEN /\ RefusedCalls # {}
          /\ Live'.counts = ChargedCounts(Min(RefusedCalls) - 1)
     ELSE Live'.counts = Live.counts
  /\ SameWorld

ReaskStep(entries) ==
  /\ pc \in {"think", "output", "inputs"} /\ pc' = "round" /\ calls' = <<>>
  /\ Moves(Thinking, entries) /\ Len(entries) > 0
  /\ InOrder(entries) /\ OfRound(entries)
  /\ \A i \in 1..Len(entries) : entries[i].decision # "call"
  /\ SameWorld /\ UNCHANGED outcome

PlanStep ==
  /\ pc = "think" /\ pc' \in {"output", "resolve", "inputs"}
  /\ Spends(ThinkCost) /\ Live'.counts = Live.counts
  /\ pc' = "output" => MayEnd
  /\ pc' = "resolve" => Live'.spent + SubCost <= Budget
  /\ pc' = "inputs" =>
       /\ Live'.spent + Len(calls') <= Budget
       /\ \A i \in 1..Len(calls') : calls'[i].status = "waiting" /\ calls'[i].tries = 0
  /\ SameWorld /\ UNCHANGED outcome

ChargeStep ==
  /\ pc = "inputs" /\ pc' = "calls" /\ RefusedCalls = {}
  /\ Spends(0) /\ Live'.counts = ChargedCounts(Len(calls))
  /\ SameWorld /\ UNCHANGED <<many, calls, outcome>>

SubStep ==
  /\ pc = "resolve" /\ pc' = "sub" /\ Live' = Live
  /\ Ask({<<"sub", Live.round>>}, SubCost)
  /\ UNCHANGED <<many, calls, outcome, executed, late>>

EndStep(entries) ==
  /\ pc' \in {"round", "commit"} /\ calls' = <<>>
  /\ \/ /\ pc = "calls" /\ With("waiting") \cup With("running") = {}
        /\ entries = [i \in 1..Len(calls) |->
                       Entry("call", calls[i].tool, Cid(i), calls[i].status = "failed")]
        /\ Moves(Len(calls), entries)
     \/ /\ pc = "sub"
        /\ entries = <<Entry("sub", NoTool, <<"sub", Live.round>>, FALSE)>>
        /\ Moves(SubCost, entries)
  /\ Len(entries) > 0 /\ InOrder(entries) /\ OfRound(entries)
  /\ SameWorld /\ UNCHANGED outcome

Kinds ==
  \/ QuietStep \/ AskStep \/ SettleStep \/ PlanStep \/ ChargeStep \/ SubStep
  \/ \E entries \in Seq(TraceEntry) : ReaskStep(entries) \/ EndStep(entries)
  \/ /\ Live' = Live
     /\ \/ StartCalls \/ Failure
        \/ \E i \in DOMAIN calls : CallAnswers(i) \/ AttemptFails(i)
        \/ \E cid \in Cids : LateAttemptRuns(cid)

(* The cids of a batch tell its calls apart, and follow each other.        *)
LEMMA CidFacts ==
  ASSUME TInv
  PROVE  /\ \A i \in 1..Len(calls) : /\ Cid(i)[1] = "call" /\ Cid(i)[2] = state.round
         /\ \A i, j \in 1..Len(calls) : Cid(i) = Cid(j) => i = j
         /\ \A i, j \in 1..Len(calls) : i < j => Precedes(Cid(i), Cid(j))
  <1>1. Len(calls) \in Nat /\ many \in BOOLEAN /\ (~many => Len(calls) <= 1)
    BY CallFields DEF TInv, LoopOK, Shape
  <1>2. CASE many
    <2>1. \A i \in 1..Len(calls) : Cid(i) = <<"call", state.round, i>>
      BY <1>2 DEF Cid
    <2>2. \A i \in 1..Len(calls) : /\ Cid(i)[1] = "call" /\ Cid(i)[2] = state.round
                                   /\ Cid(i)[3] = i /\ Len(Cid(i)) = 3
      BY <2>1
    <2>. QED BY <2>2 DEF Precedes
  <1>3. CASE ~many
    <2>1. \A i, j \in 1..Len(calls) : i = j /\ ~(i < j)
      BY <1>1, <1>3
    <2>2. \A i \in 1..Len(calls) : /\ Cid(i)[1] = "call" /\ Cid(i)[2] = state.round
      BY <1>3 DEF Cid
    <2>. QED BY <2>1, <2>2
  <1>. QED BY <1>1, <1>2, <1>3

LEMMA QuietKinds ==
  ASSUME BInv, BInv', [Next]_vars,
         UNCHANGED vars \/ Boot \/ ContinueAsNew \/ Return \/ Raise \/ IssueCommit
           \/ (\E r \in inflight : RunCommit(r)) \/ Rest
  PROVE  QuietStep
  <1>1. CASE Boot \/ ContinueAsNew
    <2>1. Live' = Live
      BY <1>1, HandoverLive
    <2>. QED BY <1>1, <2>1 DEF Boot, ContinueAsNew, QuietStep, SameWorld, world
  <1>2. CASE ~ContinueAsNew /\ state' = state
    <2>1. Live' = Live
      BY <1>2, CarriedKept DEF Live
    <2>2. CASE Return \/ Raise
      BY <2>1, <2>2 DEF Return, Raise, QuietStep, SameWorld, world
    <2>3. CASE UNCHANGED vars \/ IssueCommit \/ (\E r \in inflight : RunCommit(r)) \/ Rest
      <3>1. UNCHANGED <<loop, world>>
        BY <2>3 DEF vars, IssueCommit, RunCommit, Rest
      <3>. QED BY <2>1, <3>1 DEF QuietStep, SameWorld, loop, world
    <2>4. CASE Boot
      BY <1>1, <2>4
    <2>. QED BY <1>2, <2>2, <2>3, <2>4
  <1>3. ContinueAsNew \/ Boot \/ state' = state
    BY DEF vars, Return, Raise, IssueCommit, RunCommit, Rest, loop
  <1>. QED BY <1>1, <1>2, <1>3

LEMMA LoadedStep ==
  ASSUME BInv, BInv', pc \notin {"boot", "raise", "failed"},
         pc' \notin {"boot", "raise", "failed"}
  PROVE  /\ Live = state /\ Live' = state'
         /\ state \in AgentState /\ state' \in AgentState
         /\ state.spent \in Nat /\ state.round \in Nat
         /\ state.trace \in Seq(TraceEntry)
  BY LiveNow, LiveNext, StateFields DEF LiveOK, Loaded, BInv, TInv, LoopOK

LEMMA FinishKinds ==
  ASSUME BInv, BInv', NEW result \in Outcomes, result # "activity_failed",
         NEW s \in AgentState, Finish(result, s),
         pc \in {"round", "think", "output", "inputs"},
         s.round = state.round, s.spent = state.spent + Thinking, s.trace = state.trace,
         result = "done" => pc = "output" \/ MayEnd,
         IF pc = "inputs"
         THEN RefusedCalls # {} /\ s.counts = ChargedCounts(Min(RefusedCalls) - 1)
         ELSE s.counts = state.counts
  PROVE  SettleStep
  <1>1. /\ state' = s /\ outcome' = result /\ pc' = "return" /\ calls' = <<>>
        /\ SameWorld
    BY DEF Finish, SameWorld
  <1>2. Live = state /\ Live' = s
    BY <1>1, LoadedStep
  <1>. QED BY <1>1, <1>2 DEF SettleStep, Spends

LEMMA ReaskKinds ==
  ASSUME BInv, BInv', NEW s \in AgentState, NEW entries \in Seq(TraceEntry),
         Reask(s, entries), pc \in {"think", "output", "inputs"},
         s.round = state.round, s.spent = state.spent + Thinking,
         s.trace = state.trace, s.counts = state.counts,
         Len(entries) > 0, InOrder(entries), OfRound(entries),
         \A i \in 1..Len(entries) : entries[i].decision # "call"
  PROVE  ReaskStep(entries)
  <1>1. /\ state' = Recorded(s, entries) /\ pc' = "round" /\ calls' = <<>>
        /\ SameWorld /\ UNCHANGED outcome
    BY DEF Reask, SameWorld, world
  <1>2. Live = state /\ Live' = Recorded(s, entries)
    BY <1>1, LoadedStep
  <1>3. Moves(Thinking, entries)
    BY <1>2, RecordedType DEF Moves
  <1>. QED BY <1>1, <1>3 DEF ReaskStep

LEMMA OneEntry ==
  ASSUME NEW decision \in {"sub", "reask", "output_reask"}, NEW x, NEW failed,
         BInv, Loaded
  PROVE  LET entries == <<Entry(decision, NoTool, <<x, state.round>>, failed)>>
         IN  /\ Len(entries) = 1 /\ InOrder(entries) /\ OfRound(entries)
             /\ \A i \in 1..Len(entries) : entries[i].decision # "call"
  <1>. DEFINE e == Entry(decision, NoTool, <<x, state.round>>, failed)
  <1>1. e.cid[2] = state.round /\ e.decision = decision
    BY DEF Entry
  <1>2. Live = state
    BY LiveNow DEF LiveOK
  <1>. HIDE DEF e
  <1>3. /\ Len(<<e>>) = 1 /\ InOrder(<<e>>) /\ OfRound(<<e>>)
        /\ \A i \in 1..Len(<<e>>) : <<e>>[i].decision # "call"
    BY <1>1, <1>2 DEF InOrder, OfRound
  <1>. QED BY <1>3 DEF e

LEMMA ControllerKinds ==
  ASSUME BInv, BInv', ControllerStep
  PROVE  Kinds
  <1>1. /\ pc = "think" /\ pc \in Busy /\ Thinking = ThinkCost /\ ThinkCost \in Nat
    BY Constants DEF ControllerStep, FinishTooEarly, Done, Output, Escalate, Malformed,
       MayFinish, ChooseCalls, ChooseSub, Busy, Thinking
  <1>2. /\ LoopOK /\ Shape /\ state \in AgentState /\ Live = state /\ Loaded
    BY <1>1, LiveNow DEF BInv, TInv, LoopOK, LiveOK, Loaded
  <1>3. /\ Thought \in AgentState /\ Thought.spent = state.spent + ThinkCost
        /\ Thought.round = state.round /\ Thought.trace = state.trace
        /\ Thought.counts = state.counts
    BY <1>2, ThoughtType
  <1>4. ASSUME NEW result \in Outcomes, result # "activity_failed",
               result = "done" => MayEnd, Finish(result, Thought)
        PROVE  Kinds
    BY <1>1, <1>2, <1>3, <1>4, FinishKinds DEF Kinds
  <1>5. ASSUME NEW place \in {"output", "resolve", "inputs"}, Await(Thought, place),
               place = "output" => MayEnd,
               place = "resolve" => ~WouldExceed(Thought, SubCost),
               place = "inputs" =>
                 /\ ~WouldExceed(Thought, Len(calls'))
                 /\ \A i \in 1..Len(calls') : calls'[i].status = "waiting"
                                              /\ calls'[i].tries = 0
        PROVE  Kinds
    <2>1. pc' = place /\ state' = Thought /\ SameWorld /\ outcome' = outcome
      BY <1>5 DEF Await, SameWorld, world
    <2>2. Live' = Thought
      BY <1>1, <2>1, LoadedStep
    <2>3. /\ Thought.spent \in Nat /\ SubCost \in Nat /\ Budget \in Nat
          /\ (calls' \in Seq(Call) /\ Len(calls') \in Nat)
      BY <1>3, StateFields, Constants, LenProperties DEF SubCost, BInv, TInv, LoopOK
    <2>4. Spends(ThinkCost) /\ Live'.counts = Live.counts
      BY <1>2, <1>3, <2>2 DEF Spends
    <2>5. PlanStep
      BY <1>1, <1>5, <2>1, <2>2, <2>3, <2>4 DEF PlanStep, WouldExceed
    <2>. QED BY <2>5 DEF Kinds
  <1>6. /\ {"controller_error", "over_budget", "denied", "done", "escalated"}
             \subseteq Outcomes
    BY DEF Outcomes, Failed
  <1>7. CASE FinishTooEarly
    <2>1. CASE Finish("controller_error", Thought)
      BY <1>4, <1>6, <2>1
    <2>. DEFINE entries == <<Entry("reask", NoTool, <<"round", state.round>>, TRUE)>>
    <2>2. CASE Reask(Thought, entries)
      <3>1. entries \in Seq(TraceEntry)
        BY <1>1, <1>2, RoundType, EntryType
      <3>2. /\ Len(entries) = 1 /\ InOrder(entries) /\ OfRound(entries)
            /\ \A i \in 1..Len(entries) : entries[i].decision # "call"
        BY <1>2, OneEntry
      <3>. HIDE DEF entries
      <3>3. /\ Thought.spent = state.spent + Thinking /\ Len(entries) > 0
            /\ pc \in {"think", "output", "inputs"}
        BY <1>1, <1>3, <3>2
      <3>4. ReaskStep(entries)
        BY <1>3, <2>2, <3>1, <3>2, <3>3, ReaskKinds
      <3>. QED BY <3>1, <3>4 DEF Kinds
    <2>. QED BY <1>7, <2>1, <2>2 DEF FinishTooEarly
  <1>8. CASE Done \/ Escalate \/ Malformed
    BY <1>2, <1>4, <1>6, <1>8 DEF Done, MayFinish, MayEnd, Escalate, Malformed
  <1>9. CASE Output
    BY <1>2, <1>5, <1>9 DEF Output, MayFinish, MayEnd
  <1>10. ASSUME NEW tools \in Batches, NEW batch \in BOOLEAN, ChooseCalls(tools, batch)
         PROVE  Kinds
    <2>1. CASE Finish("over_budget", Thought) \/ Finish("denied", Thought)
      BY <1>4, <1>6, <2>1
    <2>2. CASE /\ ~WouldExceed(Thought, ToolCost * Len(tools))
               /\ Await(Thought, "inputs")
               /\ calls' = [i \in DOMAIN tools |->
                       [tool |-> tools[i], status |-> "waiting", tries |-> 0]]
      <3>1. PICK n \in 1..MaxMany : tools \in [1..n -> Tools]
        BY DEF Batches
      <3>2. n \in Nat /\ Len(tools) = n /\ ToolCost * n = n
        BY <3>1, Constants DEF ToolCost
      <3>3. Len(calls') = n
        BY <2>2, <3>1, <3>2
      <3>4. \A i \in 1..n : calls'[i].status = "waiting" /\ calls'[i].tries = 0
        BY <2>2, <3>1
      <3>5. ~WouldExceed(Thought, Len(calls'))
        BY <2>2, <3>2, <3>3
      <3>. QED BY <1>5, <2>2, <3>3, <3>4, <3>5
    <2>. QED BY <1>10, <2>1, <2>2 DEF ChooseCalls
  <1>11. ASSUME NEW granted \in BOOLEAN, ChooseSub(granted)
         PROVE  Kinds
    <2>1. CASE Finish("over_budget", Thought) \/ Finish("denied", Thought)
      BY <1>4, <1>6, <2>1
    <2>2. CASE ~WouldExceed(Thought, SubCost) /\ Await(Thought, "resolve")
      BY <1>5, <2>2
    <2>. QED BY <1>11, <2>1, <2>2 DEF ChooseSub
  <1>. QED BY <1>7, <1>8, <1>9, <1>10, <1>11 DEF ControllerStep, ControllerStep


LEMMA ReaskedInOrder ==
  ASSUME BInv, NEW bad \in Rising, InputsInvalid(bad)
  PROVE  LET entries == [i \in DOMAIN bad |->
                Entry("tool_input_reask", calls[bad[i]].tool, Cid(bad[i]), TRUE)]
         IN  /\ Len(entries) > 0 /\ InOrder(entries) /\ OfRound(entries)
             /\ \A i \in 1..Len(entries) : entries[i].decision = "tool_input_reask"
  <1>1. PICK n \in 1..MaxMany : bad \in [1..n -> 1..MaxMany]
    BY DEF Rising
  <1>2. /\ n \in Nat /\ n > 0 /\ DOMAIN bad = 1..n
        /\ \A i \in 1..n : bad[i] \in 1..Len(calls)
    BY <1>1, Constants, CallFields DEF InputsInvalid, Range, BInv, TInv
  <1>3. \A i \in 1..n - 1 : i \in 1..n /\ i + 1 \in 1..n /\ bad[i] < bad[i + 1]
    <2>1. \A i \in 1..n - 1 : i \in 1..n /\ i + 1 \in 1..n /\ i < i + 1
      BY <1>2
    <2>2. \A i, j \in 1..n : i < j => bad[i] < bad[j]
      BY <1>2 DEF Rising
    <2>. QED BY <2>1, <2>2
  <1>4. TInv /\ Live = state
    BY LiveNow DEF LiveOK, Loaded, InputsInvalid, BInv
  <1>5. \A i \in 1..n - 1 : Precedes(Cid(bad[i]), Cid(bad[i + 1]))
    BY <1>2, <1>3, <1>4, CidFacts
  <1>6. \A i \in 1..n : Cid(bad[i])[2] = Live.round
    BY <1>2, <1>4, CidFacts
  <1>. DEFINE E(i) == Entry("tool_input_reask", calls[bad[i]].tool, Cid(bad[i]), TRUE)
              entries == [i \in 1..n |-> E(i)]
  <1>7. \A i \in 1..n : E(i).cid = Cid(bad[i]) /\ E(i).decision = "tool_input_reask"
    BY DEF Entry
  <1>. HIDE DEF E
  <1>8. Len(entries) = n /\ \A i \in 1..n : entries[i] = E(i)
    BY <1>2
  <1>. HIDE DEF entries
  <1>9. InOrder(entries)
    <2>. SUFFICES ASSUME NEW i \in 1..n - 1
                  PROVE  Precedes(entries[i].cid, entries[i + 1].cid)
      BY <1>8 DEF InOrder
    <2>1. entries[i].cid = Cid(bad[i]) /\ entries[i + 1].cid = Cid(bad[i + 1])
      BY <1>3, <1>7, <1>8
    <2>. QED BY <1>5, <2>1
  <1>10. OfRound(entries)
    BY <1>6, <1>7, <1>8 DEF OfRound
  <1>. QED BY <1>2, <1>7, <1>8, <1>9, <1>10 DEF entries, E

LEMMA CalledInOrder ==
  ASSUME BInv, pc = "calls"
  PROVE  LET entries == [i \in 1..Len(calls) |->
                Entry("call", calls[i].tool, Cid(i), calls[i].status = "failed")]
         IN  Len(entries) > 0 /\ InOrder(entries) /\ OfRound(entries)
  <1>1. TInv /\ Live = state
    BY LiveNow DEF LiveOK, Loaded, BInv
  <1>2. Len(calls) \in Nat /\ Len(calls) > 0
    <2>1. calls \in Seq(Call) /\ calls # <<>>
      BY <1>1 DEF TInv, LoopOK, Shape
    <2>. QED BY <2>1, EmptySeq
  <1>. DEFINE n == Len(calls)
              E(i) == Entry("call", calls[i].tool, Cid(i), calls[i].status = "failed")
              entries == [i \in 1..n |-> E(i)]
  <1>3. \A i \in 1..n : E(i).cid = Cid(i)
    BY DEF Entry
  <1>4. /\ \A i \in 1..n : Cid(i)[2] = Live.round
        /\ \A i, j \in 1..n : i < j => Precedes(Cid(i), Cid(j))
    BY <1>1, CidFacts
  <1>5. n \in Nat /\ \A i \in 1..n - 1 : i \in 1..n /\ i + 1 \in 1..n /\ i < i + 1
    BY <1>2
  <1>. HIDE DEF E
  <1>6. Len(entries) = n /\ \A i \in 1..n : entries[i] = E(i)
    BY <1>2
  <1>. HIDE DEF entries
  <1>7. InOrder(entries)
    <2>. SUFFICES ASSUME NEW i \in 1..n - 1
                  PROVE  Precedes(entries[i].cid, entries[i + 1].cid)
      BY <1>6 DEF InOrder
    <2>1. entries[i].cid = Cid(i) /\ entries[i + 1].cid = Cid(i + 1)
      BY <1>3, <1>5, <1>6
    <2>. QED BY <1>4, <1>5, <2>1
  <1>8. OfRound(entries)
    BY <1>3, <1>4, <1>6 DEF OfRound
  <1>. QED BY <1>2, <1>6, <1>7, <1>8 DEF entries, E

(* The end of a round that acted.                                          *)
LEMMA EndKinds ==
  ASSUME BInv, BInv', NEW cost \in Nat, NEW entries \in Seq(TraceEntry),
         EndRound(state, cost, entries), pc \in {"calls", "sub"}
  PROVE  /\ pc' \in {"round", "commit"} /\ calls' = <<>>
         /\ Moves(cost, entries) /\ SameWorld /\ UNCHANGED outcome
  <1>. DEFINE spent == [state EXCEPT !.spent = @ + cost]
              after == Recorded(spent, entries)
  <1>1. state \in AgentState
    BY DEF BInv, TInv, LoopOK
  <1>2. /\ state' = after /\ calls' = <<>> /\ pc' \in {"round", "commit"}
        /\ UNCHANGED <<world, outcome>>
    BY DEF EndRound, Await
  <1>3. /\ spent \in AgentState /\ spent.spent = state.spent + cost
        /\ spent.round = state.round /\ spent.trace = state.trace
        /\ spent.counts = state.counts
    BY <1>1, SpendType
  <1>. HIDE DEF spent
  <1>4. /\ after.spent = state.spent + cost /\ after.round = state.round + 1
        /\ after.trace = state.trace \o entries /\ after.counts = state.counts
    <2>1. /\ after.spent = spent.spent /\ after.round = spent.round + 1
          /\ after.trace = spent.trace \o entries /\ after.counts = spent.counts
      BY <1>3, RecordedType, ZenonT(30)
    <2>. HIDE DEF after
    <2>. QED BY <1>3, <2>1
  <1>5. Live = state /\ Live' = state'
    BY <1>2, LoadedStep
  <1>6. Moves(cost, entries)
    BY <1>2, <1>4, <1>5 DEF Moves
  <1>. QED BY <1>2, <1>6 DEF SameWorld, world

LEMMA LoopKinds ==
  ASSUME BInv, BInv', [Next]_vars, LoopStep
  PROVE  Kinds
  <1>1. /\ LoopOK /\ Shape /\ state \in AgentState /\ state.spent \in Nat
        /\ state.round \in Nat /\ TInv
    BY StateFields DEF BInv, TInv, LoopOK
  <1>2. /\ {"max_rounds", "over_budget", "done", "output_validation_failed", "denied"}
             \subseteq Outcomes
        /\ ThinkCost \in Nat /\ Budget \in Nat
    BY Constants DEF Outcomes, Failed
  <1>3. pc # "think" => Thinking = 0 /\ state.spent = state.spent + Thinking
    BY <1>1 DEF Thinking
  <1>4. CASE Boot \/ ContinueAsNew \/ Return \/ Raise
    BY <1>4, QuietKinds DEF Kinds
  <1>5. CASE RoundsExhausted \/ CannotThink
    BY <1>1, <1>2, <1>3, <1>5, FinishKinds DEF RoundsExhausted, CannotThink, Kinds
  <1>6. CASE AskController
    <2>1. /\ pc = "round" /\ pc' = "think" /\ state.round < MaxRounds
          /\ ~WouldExceed(state, ThinkCost)
          /\ Ask({<<"round", state.round>>}, ThinkCost)
          /\ UNCHANGED <<state, many, calls, outcome, executed, late>>
      BY <1>6 DEF AskController
    <2>2. Live = state /\ Live' = state'
      BY <2>1, LoadedStep
    <2>3. state.spent + ThinkCost <= Budget
      BY <1>1, <1>2, <2>1 DEF WouldExceed
    <2>. QED BY <2>1, <2>2, <2>3 DEF AskStep, Kinds
  <1>7. CASE OutputValid
    BY <1>1, <1>2, <1>3, <1>7, FinishKinds DEF OutputValid, Kinds
  <1>8. CASE OutputInvalid
    <2>1. pc = "output" /\ pc \in Busy /\ Loaded
      BY <1>8 DEF OutputInvalid, Busy, Loaded
    <2>. DEFINE entries == <<Entry("output_reask", NoTool, <<"round", state.round>>, TRUE)>>
    <2>2. CASE Reask(state, entries)
      <3>1. entries \in Seq(TraceEntry)
        BY <1>1, <2>1, RoundType, EntryType
      <3>2. /\ Len(entries) = 1 /\ InOrder(entries) /\ OfRound(entries)
            /\ \A i \in 1..Len(entries) : entries[i].decision # "call"
        BY <2>1, OneEntry
      <3>. HIDE DEF entries
      <3>3. /\ state.spent = state.spent + Thinking /\ Len(entries) > 0
            /\ pc \in {"think", "output", "inputs"}
        BY <1>3, <2>1, <3>2
      <3>4. ReaskStep(entries)
        BY <1>1, <2>2, <3>1, <3>2, <3>3, ReaskKinds
      <3>. QED BY <3>1, <3>4 DEF Kinds
    <2>3. CASE Finish("output_validation_failed", state)
      BY <1>1, <1>2, <1>3, <2>1, <2>3, FinishKinds DEF Kinds
    <2>. QED BY <1>8, <2>2, <2>3 DEF OutputInvalid
  <1>9. ASSUME NEW bad \in Rising, InputsInvalid(bad) PROVE Kinds
    <2>. DEFINE entries == [i \in DOMAIN bad |->
                  Entry("tool_input_reask", calls[bad[i]].tool, Cid(bad[i]), TRUE)]
    <2>1. pc = "inputs" /\ Reask(state, entries)
      BY <1>9 DEF InputsInvalid
    <2>2. entries \in Seq(TraceEntry)
      BY <1>1, <1>9, ReaskedInputs
    <2>3. /\ Len(entries) > 0 /\ InOrder(entries) /\ OfRound(entries)
          /\ \A i \in 1..Len(entries) : entries[i].decision = "tool_input_reask"
      BY <1>9, ReaskedInOrder
    <2>. HIDE DEF entries
    <2>4. state.spent = state.spent + Thinking
      BY <1>3, <2>1
    <2>5. ReaskStep(entries)
      BY <1>1, <2>1, <2>2, <2>3, <2>4, ReaskKinds
    <2>. QED BY <2>2, <2>5 DEF Kinds
  <1>10. CASE ChargeCalls
    <2>0. pc = "inputs"
      BY <1>10 DEF ChargeCalls
    <2>1. \A counts : LET s == [state EXCEPT !.counts = counts]
                      IN  /\ s.round = state.round /\ s.spent = state.spent
                          /\ s.trace = state.trace /\ s.counts = counts
      BY <1>1 DEF AgentState
    <2>2. CASE RefusedCalls # {}
      <3>. DEFINE counts == ChargedCounts(Min(RefusedCalls) - 1)
                  s == [state EXCEPT !.counts = counts]
      <3>1. Finish("denied", s)
        BY <1>10, <2>2 DEF ChargeCalls
      <3>2. /\ s.round = state.round /\ s.spent = state.spent + Thinking
            /\ s.trace = state.trace /\ s.counts = counts
        BY <1>3, <2>0, <2>1
      <3>. HIDE DEF s
      <3>3. s \in AgentState
        <4>1. state' = s
          BY <3>1 DEF Finish
        <4>. QED BY <4>1 DEF BInv, TInv, LoopOK
      <3>. QED BY <1>2, <2>0, <2>2, <3>1, <3>2, <3>3, FinishKinds DEF Kinds
    <2>3. CASE RefusedCalls = {}
      <3>1. /\ Await([state EXCEPT !.counts = ChargedCounts(Len(calls))], "calls")
            /\ UNCHANGED <<many, calls>>
        BY <1>10, <2>3 DEF ChargeCalls
      <3>2. /\ pc' = "calls" /\ SameWorld /\ UNCHANGED <<many, calls, outcome>>
            /\ state' = [state EXCEPT !.counts = ChargedCounts(Len(calls))]
        BY <3>1 DEF Await, SameWorld, world
      <3>3. Live = state /\ Live' = state'
        BY <2>0, <3>2, LoadedStep
      <3>4. Spends(0) /\ Live'.counts = ChargedCounts(Len(calls))
        BY <1>1, <2>1, <3>2, <3>3 DEF Spends
      <3>. QED BY <2>0, <2>3, <3>2, <3>4 DEF ChargeStep, Kinds
    <2>. QED BY <2>2, <2>3
  <1>11. CASE StartCalls
    <2>1. pc = "calls" /\ pc' = "calls" /\ state' = state
      BY <1>11 DEF StartCalls
    <2>2. Live' = Live
      BY <2>1, LoadedStep
    <2>. QED BY <1>11, <2>2 DEF Kinds
  <1>12. CASE CallsDone
    <2>. DEFINE entries == [i \in 1..Len(calls) |->
                Entry("call", calls[i].tool, Cid(i), calls[i].status = "failed")]
    <2>1. /\ pc = "calls" /\ With("waiting") \cup With("running") = {}
          /\ EndRound(state, Len(calls), entries)
      BY <1>1, <1>12, CallFields DEF CallsDone, ToolCost
    <2>2. entries \in Seq(TraceEntry) /\ Len(calls) \in Nat
      BY <1>1, <2>1, CalledEntries, CallFields
    <2>3. Len(entries) > 0 /\ InOrder(entries) /\ OfRound(entries)
      BY <2>1, CalledInOrder
    <2>4. /\ pc' \in {"round", "commit"} /\ calls' = <<>>
          /\ Moves(Len(calls), entries) /\ SameWorld /\ UNCHANGED outcome
      BY <2>1, <2>2, EndKinds
    <2>5. EndStep(entries)
      BY <2>1, <2>3, <2>4 DEF EndStep
    <2>. QED BY <2>2, <2>5 DEF Kinds
  <1>13. CASE StartSub
    <2>1. /\ pc = "resolve" /\ pc' = "sub" /\ Ask({<<"sub", state.round>>}, SubCost)
          /\ UNCHANGED <<state, many, calls, outcome, executed, late>>
      BY <1>13 DEF StartSub
    <2>2. Live = state /\ Live' = state'
      BY <2>1, LoadedStep
    <2>. QED BY <2>1, <2>2 DEF SubStep, Kinds
  <1>14. CASE SubReturns
    <2>. DEFINE entries == <<Entry("sub", NoTool, <<"sub", state.round>>, FALSE)>>
    <2>1. pc = "sub" /\ pc \in Busy /\ Loaded /\ EndRound(state, SubCost, entries)
      BY <1>14 DEF SubReturns, Busy, Loaded
    <2>2. entries \in Seq(TraceEntry) /\ SubCost \in Nat
      BY <1>1, <2>1, RoundType, EntryType DEF SubCost
    <2>3. Len(entries) = 1 /\ InOrder(entries) /\ OfRound(entries)
      BY <2>1, OneEntry
    <2>4. Live = state
      BY <2>1, LiveNow DEF LiveOK
    <2>5. entries = <<Entry("sub", NoTool, <<"sub", Live.round>>, FALSE)>>
      BY <2>4
    <2>. HIDE DEF entries
    <2>6. /\ pc' \in {"round", "commit"} /\ calls' = <<>>
          /\ Moves(SubCost, entries) /\ SameWorld /\ UNCHANGED outcome
      BY <2>1, <2>2, EndKinds
    <2>7. EndStep(entries)
      BY <2>1, <2>3, <2>5, <2>6 DEF EndStep
    <2>. QED BY <2>2, <2>7 DEF Kinds
  <1>. QED BY <1>4, <1>5, <1>6, <1>7, <1>8, <1>9, <1>10, <1>11, <1>12, <1>13, <1>14
           DEF LoopStep

LEMMA NextKinds ==
  ASSUME BInv, BInv', [Next]_vars
  PROVE  Kinds
  <1>1. CASE UNCHANGED vars \/ Rest
    BY <1>1, QuietKinds DEF Kinds
  <1>2. CASE IssueCommit \/ \E r \in inflight : RunCommit(r)
    BY <1>2, QuietKinds DEF Kinds
  <1>3. CASE \/ Failure
             \/ \E i \in DOMAIN calls : CallAnswers(i) \/ AttemptFails(i)
             \/ \E cid \in Cids : LateAttemptRuns(cid)
    <2>1. state' = state /\ UNCHANGED <<inp, store>>
      BY <1>3 DEF Failure, Fails, CallAnswers, AttemptFails, LateAttemptRuns, loop,
         chain, commits
    <2>2. Live' = Live
      BY <2>1 DEF Live, Carried
    <2>. QED BY <1>3, <2>2 DEF Kinds
  <1>. QED BY <1>1, <1>2, <1>3, ControllerKinds, LoopKinds DEF Next, ActivityStep


-----------------------------------------------------------------------------
LEMMA BaseHolds == Spec => []BInv
  BY InitBase, NextBase, PTL DEF Spec

(* The loop's state is well formed in every segment of a run, and each     *)
(* segment after the first starts from the one revision its predecessor    *)
(* committed, whatever commits are repeated, lost or late.                 *)
THEOREM SegmentsCarryTheState == Spec => []StateCarried
  <1>1. ASSUME BInv PROVE StateCarried
    <2>1. TypeOK
      BY <1>1, TypeParts DEF BInv, TInv
    <2>2. \A i \in DOMAIN store : i \in 1..Len(store)
      <3>1. store \in Seq([base : Nat, value : AgentState])
        BY <1>1 DEF BInv, TInv, CommitsOK
      <3>. QED BY <3>1
    <2>3. UseStore /\ Len(store) > segment => Len(store) = segment + 1
      BY <1>1 DEF BInv, CInv, StoreInv, TInv, CommitsOK
    <2>4. CursorNamesState
      BY <1>1, <2>2, <2>3 DEF CursorNamesState, BInv, CInv, StoreInv
    <2>. QED BY <2>1, <2>4 DEF StateCarried
  <1>. QED BY <1>1, BaseHolds, PTL

(* A call that is not a read runs alone, after all calls before it in its  *)
(* batch have settled, however the attempts of the other calls go.         *)
THEOREM WritesRunAlone == Spec => []WritesAlone
  <1>1. Init => AloneInv
    <2>1. Init => calls = <<>>
      BY DEF Init
    <2>. QED BY <2>1 DEF AloneInv
  <1>2. BInv /\ BInv' /\ AloneInv /\ [Next]_vars => AloneInv'
    BY NextAlone DEF BInv
  <1>3. ASSUME BInv, AloneInv PROVE WritesAlone
    <2>1. DOMAIN calls = 1..Len(calls)
      BY <1>3, CallFields DEF BInv, TInv
    <2>2. With("running") = {i \in 1..Len(calls) : calls[i].status = "running"}
      BY <2>1 DEF With
    <2>. SUFFICES ASSUME NEW i \in With("running"), calls[i].tool \notin Reads
                  PROVE  /\ With("running") = {i}
                         /\ \A j \in 1..i - 1 : calls[j].status \in {"ok", "failed"}
      BY DEF WritesAlone
    <2>. QED BY <1>3, <2>2 DEF AloneInv
  <1>. QED BY <1>1, <1>2, <1>3, BaseHolds, PTL DEF Spec
=============================================================================
