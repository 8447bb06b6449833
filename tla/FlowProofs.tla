----------------------------- MODULE FlowProofs -----------------------------
(***************************************************************************)
(* Proofs about flow runs (FlowWorkflow), for any set of frozen flows, any *)
(* limits and any number of segments.  A frozen flow is a tree (IsFlow).   *)
(***************************************************************************)
EXTENDS FlowWorkflow, Admission, DataLemmas

(* The nodes that interpret() is called for.                               *)
Alone == Nodes \ Inner(prog)

(* A node begins before its branches, and what is flattened never does.    *)
Placed ==
  /\ \A n \in Nodes : phase[n] # "idle" => n \in Alone
  /\ \A n \in Alone : phase[n] \in {"idle", "queued"} => \A b \in BranchSet(n) : phase[b] = "idle"
  /\ pc = "boot" => \A n \in Nodes : phase[n] = "idle"

(* In a sequence, an alt or a loop all is done but the last that began.    *)
Serial ==
  \A n \in Alone : Op(n) \in {"seq", "alt", "iter"} =>
    \A b, c \in Launched(n) : b # c => phase[b] = "ok" \/ phase[c] = "ok"

SlotsKept ==
  \A n \in Alone : Op(n) \in {"all", "each"} => Cardinality(At(n, "run")) <= MaxParallel

(* Of an each, e items have begun, which are whole waves, or all there are;*)
(* and those before the last wave are done.                                *)
WaveAt(n, e) ==
  \A i \in DOMAIN Branches(n) :
    /\ phase[Branches(n)[i]] # "idle" <=> i <= e
    /\ i + prog[n].wave <= e => phase[Branches(n)[i]] = "ok"

InWaves ==
  \A n \in Alone : Op(n) = "each" => \E q \in Nat : WaveAt(n, q * prog[n].wave)

ContinueFits == status = "continue" => seg + 1 < MaxSegments

FlowInv == TypeOK /\ Placed /\ OnlyGathersStrand /\ Serial /\ ContinueFits

-----------------------------------------------------------------------------
(* The tree.                                                               *)
LEMMA Tree ==
  ASSUME prog \in Programs
  PROVE  /\ prog \in [Nodes -> NodeRecord] /\ Root \in Alone
         /\ \A n \in Alone : /\ Branches(n) \in Seq(Alone \ {Root})
                             /\ IsInjective(Branches(n))
                             /\ Op(n) \in Leaves => Branches(n) = <<>>
                             /\ Op(n) = "alt" => Branches(n) # <<>>
         /\ \A n, k \in Alone : \A b \in BranchSet(n) : b \in BranchSet(k) => n = k
         /\ \A S \in SUBSET Alone : S # {} => \E n \in S : \A k \in S : n \notin BranchSet(k)
  <1>. DEFINE p == prog
  <1>1. IsFlow(p)
    BY InterpreterAssumption
  <1>2. \A n \in Alone : /\ Op(n) \in Leaves => Branches(n) = <<>>
                         /\ Op(n) = "alt" => Branches(n) # <<>>
    BY <1>1 DEF IsFlow, Branches, BranchesOf, Op, Alone, Leaves, Groups, Races
  <1>. QED BY <1>1, <1>2 DEF IsFlow, Branches, BranchSet, Alone

LEMMA NotItself ==
  ASSUME prog \in Programs, NEW n \in Alone
  PROVE  n \notin BranchSet(n)
  <1>1. {n} \in SUBSET Alone /\ {n} # {}
    OBVIOUS
  <1>2. \E x \in {n} : \A k \in {n} : x \notin BranchSet(k)
    BY <1>1, Tree
  <1>. QED BY <1>2

LEMMA BranchFacts ==
  ASSUME prog \in Programs, NEW n \in Alone
  PROVE  /\ DOMAIN Branches(n) = 1..Len(Branches(n)) /\ Len(Branches(n)) \in Nat
         /\ BranchSet(n) = {Branches(n)[i] : i \in 1..Len(Branches(n))}
         /\ BranchSet(n) \subseteq Alone \ {Root} /\ BranchSet(n) \subseteq Nodes
         /\ \A i, j \in 1..Len(Branches(n)) : Branches(n)[i] = Branches(n)[j] => i = j
  <1>1. Branches(n) \in Seq(Alone \ {Root}) /\ IsInjective(Branches(n))
    BY Tree
  <1>2. DOMAIN Branches(n) = 1..Len(Branches(n)) /\ Len(Branches(n)) \in Nat
    BY <1>1
  <1>3. \A i \in 1..Len(Branches(n)) : Branches(n)[i] \in Alone \ {Root}
    BY <1>1
  <1>4. BranchSet(n) = {Branches(n)[i] : i \in 1..Len(Branches(n))}
    BY <1>2 DEF BranchSet, BranchSetOf, Branches, Range
  <1>5. \A i, j \in 1..Len(Branches(n)) : Branches(n)[i] = Branches(n)[j] => i = j
    BY <1>1, <1>2 DEF IsInjective
  <1>. QED BY <1>2, <1>3, <1>4, <1>5 DEF Alone

LEMMA AtFacts ==
  ASSUME prog \in Programs, NEW n \in Alone, NEW s
  PROVE  /\ At(n, s) = {i \in 1..Len(Branches(n)) : phase[Branches(n)[i]] = s}
         /\ IsFiniteSet(At(n, s)) /\ Cardinality(At(n, s)) \in Nat
  <1>1. At(n, s) = {i \in 1..Len(Branches(n)) : phase[Branches(n)[i]] = s}
    BY BranchFacts DEF At
  <1>2. IsFiniteSet(1..Len(Branches(n)))
    <2>1. Len(Branches(n)) \in Nat
      BY BranchFacts
    <2>. QED BY <2>1, FS_Interval
  <1>. QED BY <1>1, <1>2, FS_Subset, FS_CardinalityType

(* The first k of a finite set of positions.                               *)
LEMMA FirstFacts ==
  ASSUME NEW at \in SUBSET Nat, NEW k \in Nat
  PROVE  /\ First(k, at) \subseteq at
         /\ k > 0 /\ at # {} => First(k, at) # {}
         /\ k = 1 => \A i, j \in First(k, at) : i = j
  <1>1. ASSUME k > 0, at # {}
        PROVE  First(k, at) # {}
    <2>1. PICK i \in at : \A j \in at : i <= j
      BY <1>1, LeastNumber
    <2>. DEFINE below == {j \in at : j < i}
    <2>2. below = {}
      <3>. SUFFICES ASSUME NEW j \in below PROVE FALSE
        OBVIOUS
      <3>1. j \in Nat /\ i \in Nat /\ i <= j /\ j < i
        BY <2>1
      <3>. QED BY <3>1
    <2>3. Cardinality({j \in at : j < i}) = 0
      BY <2>2, FS_EmptySet
    <2>. QED BY <1>1, <2>3 DEF First
  <1>2. ASSUME k = 1, NEW i \in First(k, at), NEW j \in First(k, at), i < j
        PROVE  FALSE
    <2>. DEFINE below == {l \in at : l < j}
    <2>1. i \in below /\ i \in Nat /\ j \in Nat
      BY <1>2 DEF First
    <2>2. IsFiniteSet(below)
      <3>1. IsFiniteSet(0..j)
        BY <2>1, FS_Interval
      <3>2. below \subseteq 0..j
        <4>. SUFFICES ASSUME NEW l \in below PROVE l \in 0..j
          OBVIOUS
        <4>1. l \in Nat /\ l < j
          OBVIOUS
        <4>. QED BY <2>1, <4>1
      <3>. QED BY <3>1, <3>2, FS_Subset
    <2>3. Cardinality(below) \in Nat /\ Cardinality(below) # 0
      <3>. HIDE DEF below
      <3>. QED BY <2>1, <2>2, FS_CardinalityType, FS_EmptySet
    <2>4. Cardinality(below) < 1
      BY <1>2 DEF First
    <2>. QED BY <2>3, <2>4
  <1>3. k = 1 => \A i, j \in First(k, at) : i = j
    <2>. SUFFICES ASSUME k = 1, NEW i \in First(k, at), NEW j \in First(k, at)
                  PROVE  i = j
      OBVIOUS
    <2>1. i \in Nat /\ j \in Nat
      BY DEF First
    <2>. QED BY <1>2, <2>1
  <1>. QED BY <1>1, <1>3 DEF First

-----------------------------------------------------------------------------
(* What a cancellation reaches: tasks, those it began with, the unfinished *)
(* branches of what it reached, and nothing else.                          *)
LEMMA AwaitedClosed ==
  ASSUME NEW from
  PROVE  /\ Awaited(from) \subseteq Tasks
         /\ from \cap Tasks \subseteq Awaited(from)
         /\ \A n \in Awaited(from) : BranchSet(n) \cap Tasks \subseteq Awaited(from)
  BY DEF Awaited

LEMMA AwaitedLeast ==
  ASSUME NEW from, NEW b \in Awaited(from)
  PROVE  b \in from \/ \E n \in Awaited(from) : b \in BranchSet(n)
  <1>. DEFINE S == {k \in Awaited(from) : k \in from \/ \E n \in Awaited(from) : k \in BranchSet(n)}
  <1>1. S \subseteq Tasks /\ S \in SUBSET Tasks
    BY AwaitedClosed
  <1>2. from \cap Tasks \subseteq S
    BY AwaitedClosed
  <1>3. \A n \in S : BranchSet(n) \cap Tasks \subseteq S
    BY AwaitedClosed
  <1>4. b \in S
    <2>. HIDE DEF S
    <2>. QED BY <1>1, <1>2, <1>3 DEF Awaited
  <1>. QED BY <1>4

-----------------------------------------------------------------------------
(* The steps by what they do to the tasks: one begins or ends (Turn), a    *)
(* node starts branches (Launch), a race settles, a run is cancelled or    *)
(* begins.                                                                 *)
MayEnd(k, v) ==
  \/ phase[k] = "queued"
  \/ Op(k) \in Leaves
  \/ \A b \in Launched(k) : phase[b] = "ok"
  \/ v = "fail" /\ \E b \in Launched(k) : phase[b] = "fail"

AllDone(k) == phase[k] = "run" /\ Over(k) /\ \A b \in Launched(k) : phase[b] = "ok"

Turn(k, v) ==
  /\ k \in Nodes /\ Op(k) \notin Races
  /\ phase' = [phase EXCEPT ![k] = v] /\ winners' = winners
  /\ phase[k] = "run" \/ (phase[k] = "queued" /\ MayBegin(k))
  /\ \/ v = "run" /\ phase[k] = "queued" /\ Op(k) \in Leaves
     \/ v \in {"ok", "fail"} /\ MayEnd(k, v)
  /\ v = "ok" /\ Op(k) \in {"seq", "all", "alt"} => AllDone(k)

Launch(k, B) ==
  /\ k \in Nodes /\ Op(k) \notin Leaves
  /\ phase' = [j \in Nodes |-> IF j = k THEN "run" ELSE IF j \in B THEN "queued" ELSE phase[j]]
  /\ winners' = winners
  /\ \A b \in B : b \in BranchSet(k) /\ phase[b] = "idle"
  /\ \/ phase[k] = "queued" /\ MayBegin(k)
     \/ phase[k] = "run" /\ (Op(k) \in Races \/ \A b \in Launched(k) : phase[b] = "ok")
  /\ Op(k) \in {"all", "each", "seq"} => B = NextWave(k)
  /\ Op(k) = "alt" => B # {}
  /\ Op(k) \in {"seq", "alt", "iter"} => \A b, c \in B : b = c

Works(k) ==
  \/ \E v \in Phases : Turn(k, v)
  \/ \E B \in SUBSET Nodes : Launch(k, B)
  \/ Settle(k) \/ GiveUp(k)

LEMMA TypesHere ==
  ASSUME TypeOK
  PROVE  /\ prog \in Programs /\ prog \in [Nodes -> NodeRecord]
         /\ phase \in [Nodes -> Phases]
         /\ \A n \in Nodes : Op(n) \in Leaves \cup Groups \cup {"seq", "alt", "each", "iter"}
  <1>1. prog \in Programs /\ phase \in [Nodes -> Phases]
    BY DEF TypeOK
  <1>2. prog \in [Nodes -> NodeRecord]
    BY <1>1, Tree
  <1>. QED BY <1>1, <1>2 DEF Op, NodeRecord

(* The next branches are some that have not begun.                         *)
LEMMA IdleBranches ==
  ASSUME TypeOK, NEW n \in Alone, NEW j \in Nat \ {0}, NEW B, B = Those(n, First(j, At(n, "idle")))
  PROVE  /\ B \subseteq Nodes /\ \A b \in B : b \in BranchSet(n) /\ phase[b] = "idle"
         /\ j = 1 => \A b, c \in B : b = c
  <1>1. /\ At(n, "idle") = {i \in 1..Len(Branches(n)) : phase[Branches(n)[i]] = "idle"}
        /\ BranchSet(n) = {Branches(n)[i] : i \in 1..Len(Branches(n))}
        /\ BranchSet(n) \subseteq Nodes
    BY TypesHere, AtFacts, BranchFacts
  <1>2. At(n, "idle") \in SUBSET Nat
    BY <1>1
  <1>3. /\ First(j, At(n, "idle")) \subseteq At(n, "idle")
        /\ j = 1 => \A a, b \in First(j, At(n, "idle")) : a = b
    BY <1>2, FirstFacts
  <1>. QED BY <1>1, <1>3 DEF Those

LEMMA WaveIsPositive ==
  ASSUME TypeOK, NEW n \in Alone, Len(Branches(n)) > 0
  PROVE  /\ Wave(n) \in Nat \ {0}
         /\ Op(n) \in {"seq", "alt", "iter"} => Wave(n) = 1
  <1>1. Len(Branches(n)) \in Nat /\ prog[n].wave \in Nat \ {0}
    BY TypesHere, BranchFacts DEF NodeRecord, Alone
  <1>. QED BY <1>1 DEF Wave

LEMMA WorkKinds ==
  ASSUME TypeOK, Placed, NEW k \in Nodes,
         Begin(k) \/ Answer(k) \/ ChildReturns(k) \/ Group(k)
  PROVE  Works(k) /\ prog' = prog
  <1>0. phase \in [Nodes -> Phases] /\ Op(k) \in Leaves \cup Groups \cup {"seq", "alt", "each", "iter"}
    BY TypesHere
  <1>1. CASE BeginLeaf(k) \/ BeginChild(k) \/ BeginCall(k)
    <2>1. Turn(k, "run") /\ prog' = prog
      BY <1>1 DEF BeginLeaf, BeginChild, BeginCall, Enters, Turn, MayBegin, Leaves, Races
    <2>. QED BY <2>1 DEF Works, Phases
  <1>2. CASE Passes(k)
    <2>1. PICK out \in {"ok", "fail"} :
            /\ Op(k) \in {"call", "pure", "each"} /\ phase' = [phase EXCEPT ![k] = out]
      BY <1>2 DEF Passes
    <2>2. Turn(k, out) /\ prog' = prog
      BY <1>2, <2>1 DEF Passes, Turn, MayEnd, MayBegin, Races
    <2>. QED BY <2>2 DEF Works, Phases
  <1>3. CASE Answer(k) \/ ChildReturns(k)
    <2>1. PICK out \in {"ok", "fail"} : Ends(k, out)
      BY <1>3 DEF Answer, ChildReturns
    <2>2. Turn(k, out) /\ prog' = prog
      BY <1>3, <2>1 DEF Answer, ChildReturns, Ends, Turn, MayEnd, Leaves, Races
    <2>. QED BY <2>2 DEF Works, Phases
  <1>4. k \in Alone \/ ~ (BeginGroup(k) \/ BeginAlt(k) \/ Group(k))
    BY DEF Placed, BeginGroup, BeginAlt, MayBegin, Group, WaveDone, WaveFails, Waves, Settle,
           GiveUp, TimerFires, Racing
  <1>5. ASSUME k \in Alone, BeginGroup(k)
        PROVE  Launch(k, NextWave(k)) /\ NextWave(k) \in SUBSET Nodes /\ prog' = prog
    <2>1. Len(Branches(k)) > 0
      <3>1. Branches(k) \in Seq(Alone \ {Root}) /\ Branches(k) # <<>>
        BY <1>5, TypesHere, Tree DEF BeginGroup
      <3>. QED BY <3>1
    <2>2. /\ NextWave(k) \subseteq Nodes
          /\ \A b \in NextWave(k) : b \in BranchSet(k) /\ phase[b] = "idle"
          /\ Op(k) \in {"seq", "alt", "iter"} => \A b, c \in NextWave(k) : b = c
      BY <1>5, <2>1, WaveIsPositive, IdleBranches DEF NextWave
    <2>. QED BY <1>5, <2>2 DEF BeginGroup, MayBegin, Launch
  <1>6. ASSUME k \in Alone, BeginAlt(k)
        PROVE  Works(k) /\ prog' = prog
    <2>1. CASE phase' = [phase EXCEPT ![k] = "fail"]
      <3>1. Turn(k, "fail") /\ prog' = prog
        BY <1>6, <2>1 DEF BeginAlt, Turn, MayEnd, MayBegin, Races
      <3>. QED BY <3>1 DEF Works, Phases
    <2>2. ASSUME NEW b \in BranchSet(k), phase' = [phase EXCEPT ![k] = "run", ![b] = "queued"]
          PROVE  Works(k) /\ prog' = prog
      <3>1. phase[k] = "queued" /\ phase[b] = "idle" /\ b \in Nodes
        BY <1>6, TypesHere, BranchFacts DEF BeginAlt, MayBegin, Placed
      <3>2. phase' = [j \in Nodes |-> IF j = k THEN "run" ELSE IF j \in {b} THEN "queued"
                                      ELSE phase[j]]
        BY <1>0, <2>2, <3>1
      <3>3. Launch(k, {b}) /\ prog' = prog
        BY <1>6, <3>1, <3>2 DEF BeginAlt, MayBegin, Launch, Leaves
      <3>. QED BY <3>1, <3>3 DEF Works
    <2>. QED BY <1>6, <2>1, <2>2 DEF BeginAlt
  <1>7. ASSUME k \in Alone, WaveDone(k)
        PROVE  Works(k) /\ prog' = prog
    <2>1. ASSUME NEW out \in {"ok", "fail"}, Ends(k, out), Over(k) \/ Op(k) = "iter"
          PROVE  Works(k) /\ prog' = prog
      <3>1. Turn(k, out) /\ prog' = prog
        BY <1>7, <2>1 DEF WaveDone, Waves, Ends, Turn, MayEnd, AllDone
      <3>. QED BY <3>1 DEF Works, Phases
    <2>2. CASE ~Over(k) /\ phase' = [j \in Nodes |-> IF j \in NextWave(k) THEN "queued"
                                                      ELSE phase[j]]
      <3>1. Len(Branches(k)) > 0
        <4>1. At(k, "idle") \subseteq 1..Len(Branches(k)) /\ At(k, "idle") # {}
          BY <1>7, <2>2, TypesHere, AtFacts DEF Over
        <4>2. Len(Branches(k)) \in Nat
          BY <1>7, TypesHere, BranchFacts
        <4>. QED BY <4>1, <4>2
      <3>2. /\ NextWave(k) \subseteq Nodes
            /\ \A b \in NextWave(k) : b \in BranchSet(k) /\ phase[b] = "idle"
            /\ Op(k) \in {"seq", "alt", "iter"} => \A b, c \in NextWave(k) : b = c
        BY <1>7, <3>1, WaveIsPositive, IdleBranches DEF NextWave
      <3>3. phase' = [j \in Nodes |-> IF j = k THEN "run"
                                      ELSE IF j \in NextWave(k) THEN "queued" ELSE phase[j]]
        BY <1>7, <2>2, <3>2 DEF WaveDone, Waves
      <3>4. Launch(k, NextWave(k)) /\ prog' = prog
        BY <1>7, <2>2, <3>2, <3>3 DEF WaveDone, Waves, Over, Launch, Ends
      <3>. QED BY <3>2, <3>4 DEF Works
    <2>. QED BY <1>7, <2>1, <2>2 DEF WaveDone, Outcomes
  <1>8. ASSUME k \in Alone, WaveFails(k)
        PROVE  Works(k) /\ prog' = prog
    <2>1. Turn(k, "fail") /\ prog' = prog
      BY <1>8 DEF WaveFails, Waves, Ends, Turn, MayEnd
    <2>. QED BY <2>1 DEF Works, Phases
  <1>9. ASSUME k \in Alone, TimerFires(k)
        PROVE  Works(k) /\ prog' = prog
    <2>. DEFINE B == Those(k, First(1, At(k, "idle")))
    <2>1. B \subseteq Nodes /\ \A b \in B : b \in BranchSet(k) /\ phase[b] = "idle"
      BY <1>9, IdleBranches
    <2>2. phase' = [j \in Nodes |-> IF j \in B THEN "queued" ELSE phase[j]]
      BY <1>9 DEF TimerFires
    <2>3. /\ Op(k) \in Races /\ phase[k] = "run" /\ winners' = winners /\ prog' = prog
          /\ Op(k) \notin Leaves \cup {"all", "each", "seq", "alt", "iter"}
      BY <1>9 DEF TimerFires, Racing, Races, Leaves
    <2>. HIDE DEF B
    <2>4. phase' = [j \in Nodes |-> IF j = k THEN "run" ELSE IF j \in B THEN "queued"
                                    ELSE phase[j]]
      BY <2>1, <2>2, <2>3
    <2>5. Launch(k, B)
      BY <2>1, <2>3, <2>4 DEF Launch
    <2>. QED BY <2>1, <2>3, <2>5 DEF Works
  <1>10. CASE Settle(k) \/ GiveUp(k)
    BY <1>10 DEF Works, Settle, GiveUp, Stops
  <1>. QED BY <1>1, <1>2, <1>3, <1>4, <1>5, <1>6, <1>7, <1>8, <1>9, <1>10 DEF Begin, Group, Works

LEMMA StepKinds ==
  ASSUME TypeOK, Placed, [Next]_vars
  PROVE  /\ prog' = prog
         /\ \/ (\E k \in Nodes : Works(k)) /\ seg' = seg /\ pc' # "boot"
            \/ Cancel
            \/ ContinueAsNew
            \/ Boot
            \/ UNCHANGED <<phase, winners, seg>> /\ (pc' = "boot" => pc = "boot")
  <1>1. CASE Interpret
    <2>1. PICK k \in Nodes : Begin(k) \/ Answer(k) \/ ChildReturns(k) \/ Group(k)
      BY <1>1 DEF Interpret, Evaluate
    <2>2. Works(k) /\ prog' = prog
      BY <2>1, WorkKinds
    <2>. QED BY <1>1, <2>2 DEF Interpret, runVars
  <1>2. ASSUME NEW n \in Nodes, NEW out \in {"ok", "fail"}, Ends(n, out), phase[n] = "run",
               Op(n) \in {"gate", "think"}, pc \in {"interpret", "closing"}, UNCHANGED runVars
        PROVE  prog' = prog /\ Works(n) /\ seg' = seg /\ pc' # "boot"
    <2>1. Turn(n, out)
      BY <1>2 DEF Ends, Turn, MayEnd, Leaves, Races
    <2>. QED BY <1>2, <2>1 DEF Works, Phases, Ends, runVars
  <1>3. ASSUME NEW n \in Nodes, GateOpens(n) \/ GateTimesOut(n)
        PROVE  prog' = prog /\ Works(n) /\ seg' = seg /\ pc' # "boot"
    <2>1. /\ n \in OpenGates /\ Ends(n, "ok") /\ pc \in {"interpret", "closing"}
          /\ UNCHANGED runVars
      BY <1>3 DEF GateOpens, GateTimesOut
    <2>. QED BY <1>2, <2>1 DEF OpenGates, Gates
  <1>4. ASSUME NEW n \in Nodes, InvokeReasoner(n)
        PROVE  prog' = prog /\ Works(n) /\ seg' = seg /\ pc' # "boot"
    BY <1>2, <1>4 DEF InvokeReasoner, Thinking
  <1>5. ASSUME NEW n \in Nodes, TakesResult(n)
        PROVE  \/ prog' = prog /\ Works(n) /\ seg' = seg /\ pc' # "boot"
               \/ prog' = prog /\ UNCHANGED <<phase, winners, seg, pc>>
    BY <1>2, <1>5 DEF TakesResult, Thinking, runVars
  <1>6. CASE \/ BootFails \/ Result \/ Return \/ AtRest \/ UNCHANGED vars
    BY <1>6 DEF BootFails, Result, Closes, Return, AtRest, vars, interpVars, runVars
  <1>7. CASE \/ \E n \in Nodes : Decide(n) \/ ResolveQoS(n) \/ BatchTimesOut(n)
             \/ \E q \in asked : SubmitReasonerResult(q)
             \/ \E letter \in letters : SubmitHuman(letter)
    BY <1>7 DEF Decide, ResolveQoS, BatchTimesOut, SubmitReasonerResult, SubmitHuman, interpVars,
                runVars
  <1>8. CASE Cancel \/ ContinueAsNew \/ Boot
    BY <1>8 DEF Cancel, ContinueAsNew, Boot
  <1>. QED BY <1>1, <1>3, <1>4, <1>5, <1>6, <1>7, <1>8 DEF Next, Progress, Closing, Timeouts, Thinks

(* How a node moves within a segment.                                      *)
LEMMA PhaseMoves ==
  ASSUME TypeOK, Placed, [Next]_vars, ~ContinueAsNew, NEW b \in Nodes
  PROVE  /\ phase[b] \in {"ok", "fail", "gone"} => phase'[b] = phase[b]
         /\ phase'[b] = "idle" => phase[b] = "idle"
         /\ phase'[b] = "queued" => phase[b] \in {"idle", "queued"}
         /\ phase'[b] = "run" => phase[b] \in {"queued", "run"}
         /\ phase'[b] \in Phases
  <1>. USE DEF Unfinished, Phases
  <1>0. phase \in [Nodes -> Phases]
    BY TypesHere
  <1>1. ASSUME NEW k \in Nodes, NEW v, Turn(k, v)
        PROVE  \/ b # k /\ phase'[b] = phase[b]
               \/ b = k /\ phase[b] = "queued" /\ phase'[b] \in {"run", "ok", "fail"}
               \/ b = k /\ phase[b] = "run" /\ phase'[b] \in {"ok", "fail"}
    BY <1>0, <1>1 DEF Turn
  <1>2. ASSUME NEW k \in Nodes, NEW B, Launch(k, B)
        PROVE  \/ b = k /\ phase[b] \in {"queued", "run"} /\ phase'[b] = "run"
               \/ b # k /\ phase'[b] = phase[b]
               \/ b # k /\ phase[b] = "idle" /\ phase'[b] = "queued"
    BY <1>0, <1>2 DEF Launch
  <1>3. ASSUME NEW k \in Nodes, Settle(k) \/ GiveUp(k)
        PROVE  \/ phase'[b] = phase[b]
               \/ phase[b] \in Unfinished /\ phase'[b] \in {"ok", "fail", "gone"}
    <2>1. PICK out \in {"ok", "fail"} : \E won : Stops(k, out, won) /\ phase[k] = "run"
      BY <1>3 DEF Settle, GiveUp, Outcomes, Racing
    <2>2. phase'[b] = IF b = k THEN out ELSE IF b \in Awaited(Launched(k)) THEN "gone" ELSE phase[b]
      BY <2>1 DEF Stops
    <2>. QED BY <2>1, <2>2, AwaitedClosed DEF Tasks
  <1>4. ASSUME Cancel
        PROVE  \/ phase'[b] = phase[b]
               \/ phase[b] \in Unfinished /\ phase'[b] = "gone"
    <2>1. phase'[b] = IF b \in Awaited({Root}) THEN "gone" ELSE phase[b]
      BY <1>4 DEF Cancel
    <2>. QED BY <2>1, AwaitedClosed DEF Tasks
  <1>5. ASSUME Boot
        PROVE  phase[b] = "idle" /\ phase'[b] \in {"idle", "queued"}
    BY <1>0, <1>5 DEF Boot, Placed
  <1>6. CASE UNCHANGED phase
    BY <1>0, <1>6
  <1>. QED BY <1>0, <1>1, <1>2, <1>3, <1>4, <1>5, <1>6, StepKinds DEF Works

(* Only its node starts a branch.                                          *)
LEMMA BranchBegins ==
  ASSUME TypeOK, Placed, [Next]_vars,
         NEW n \in Alone, NEW b \in BranchSet(n), phase[b] = "idle", phase'[b] # "idle"
  PROVE  \E B \in SUBSET Nodes : Launch(n, B) /\ b \in B
  <1>0. phase \in [Nodes -> Phases] /\ b \in Nodes /\ b # Root /\ prog \in Programs
    BY TypesHere, BranchFacts
  <1>1. ASSUME NEW k \in Nodes, NEW v, Turn(k, v)
        PROVE  FALSE
    BY <1>0, <1>1 DEF Turn
  <1>2. ASSUME NEW k \in Nodes, NEW B \in SUBSET Nodes, Launch(k, B)
        PROVE  Launch(n, B) /\ b \in B
    <2>1. b \in B /\ b \in BranchSet(k) /\ phase[k] # "idle"
      BY <1>0, <1>2 DEF Launch
    <2>2. k = n
      BY <1>0, <2>1, Tree DEF Placed
    <2>. QED BY <1>2, <2>1, <2>2
  <1>3. ASSUME NEW k \in Nodes, Settle(k) \/ GiveUp(k)
        PROVE  FALSE
    <2>1. PICK out \in {"ok", "fail"} : \E won : Stops(k, out, won) /\ phase[k] = "run"
      BY <1>3 DEF Settle, GiveUp, Outcomes, Racing
    <2>2. b \in Awaited(Launched(k))
      BY <1>0, <2>1 DEF Stops
    <2>. QED BY <2>2, AwaitedClosed DEF Tasks, Unfinished
  <1>4. ASSUME Cancel
        PROVE  FALSE
    <2>1. b \in Awaited({Root})
      BY <1>0, <1>4 DEF Cancel
    <2>. QED BY <2>1, AwaitedClosed DEF Tasks, Unfinished
  <1>5. ~ContinueAsNew /\ ~Boot /\ ~UNCHANGED phase
    BY <1>0 DEF ContinueAsNew, Boot
  <1>. QED BY <1>1, <1>2, <1>3, <1>4, <1>5, StepKinds DEF Works

(* A node ends in a turn of its own, or its branches end with it.          *)
LEMMA NodeEnds ==
  ASSUME TypeOK, Placed, [Next]_vars,
         NEW n \in Alone, phase[n] \in Unfinished, phase'[n] \in {"ok", "fail", "gone"}
  PROVE  \/ Turn(n, phase'[n])
         \/ \A b \in BranchSet(n) : phase'[b] \notin Unfinished
  <1>0. phase \in [Nodes -> Phases] /\ n \in Nodes /\ BranchSet(n) \subseteq Nodes
    BY TypesHere, BranchFacts DEF Alone
  <1>. SUFFICES ASSUME NEW b \in BranchSet(n), phase'[b] \in Unfinished, ~Turn(n, phase'[n])
                PROVE  FALSE
    OBVIOUS
  <1>1. b \in Nodes
    BY <1>0
  <1>2. ASSUME NEW k \in Nodes, NEW v, Turn(k, v)
        PROVE  FALSE
    <2>1. n = k => phase'[n] = v
      BY <1>0, <1>2 DEF Turn
    <2>. QED BY <1>0, <1>2, <2>1 DEF Turn, Unfinished
  <1>3. ASSUME NEW k \in Nodes, NEW B, Launch(k, B)
        PROVE  FALSE
    BY <1>0, <1>3 DEF Launch, Unfinished
  <1>4. ~ContinueAsNew /\ ~Boot /\ ~UNCHANGED phase
    BY <1>0 DEF ContinueAsNew, Boot, Placed, Unfinished
  <1>5. phase[b] \in Unfinished
    <2>1. phase[b] # "idle"
      <3>1. SUFFICES ASSUME phase[b] = "idle" PROVE FALSE
        OBVIOUS
      <3>2. phase'[b] # "idle"
        BY DEF Unfinished
      <3>3. PICK B \in SUBSET Nodes : Launch(n, B)
        BY <3>1, <3>2, BranchBegins
      <3>. QED BY <1>0, <1>3, <3>3
    <2>. QED BY <1>1, <1>4, <2>1, PhaseMoves DEF Unfinished
  <1>6. ASSUME NEW from, n \in Awaited(from)
        PROVE  b \in Awaited(from)
    BY <1>1, <1>5, <1>6, AwaitedClosed DEF Tasks
  <1>7. ASSUME NEW k \in Nodes, Settle(k) \/ GiveUp(k)
        PROVE  FALSE
    <2>1. PICK out \in {"ok", "fail"} : \E won : Stops(k, out, won)
      BY <1>7 DEF Settle, GiveUp, Outcomes
    <2>2. /\ phase'[n] = IF n = k THEN out ELSE IF n \in Awaited(Launched(k)) THEN "gone" ELSE phase[n]
          /\ phase'[b] = IF b = k THEN out ELSE IF b \in Awaited(Launched(k)) THEN "gone" ELSE phase[b]
      BY <1>0, <1>1, <2>1 DEF Stops
    <2>3. CASE n = k
      <3>1. b \in Launched(k) /\ b \in Tasks
        BY <1>1, <1>5, <2>3 DEF Launched, Tasks, Unfinished
      <3>2. b \in Awaited(Launched(k))
        BY <3>1, AwaitedClosed
      <3>. QED BY <2>2, <3>2 DEF Unfinished
    <2>4. CASE n # k
      BY <1>6, <2>2, <2>4 DEF Unfinished
    <2>. QED BY <2>3, <2>4
  <1>8. ASSUME Cancel
        PROVE  FALSE
    <2>1. /\ phase'[n] = IF n \in Awaited({Root}) THEN "gone" ELSE phase[n]
          /\ phase'[b] = IF b \in Awaited({Root}) THEN "gone" ELSE phase[b]
      BY <1>0, <1>1, <1>8 DEF Cancel
    <2>. QED BY <1>6, <2>1 DEF Unfinished
  <1>. QED BY <1>2, <1>3, <1>4, <1>7, <1>8, StepKinds DEF Works

-----------------------------------------------------------------------------
LEMMA SameTree ==
  ASSUME prog' = prog
  PROVE  /\ Alone' = Alone
         /\ \A n : /\ Branches(n)' = Branches(n) /\ BranchSet(n)' = BranchSet(n)
                   /\ Op(n)' = Op(n) /\ Need(n)' = Need(n)
  BY DEF Alone, Branches, BranchSet, Op, Need

LEMMA PlacedNext ==
  ASSUME TypeOK, Placed, [Next]_vars
  PROVE  Placed'
  <1>0. prog' = prog /\ prog \in Programs /\ phase \in [Nodes -> Phases]
    BY StepKinds, TypesHere
  <1>1. CASE ContinueAsNew
    <2>1. \A n \in Nodes : phase'[n] = "idle"
      BY <1>1 DEF ContinueAsNew
    <2>2. \A n \in Alone : \A b \in BranchSet(n) : b \in Nodes
      BY <1>0, BranchFacts
    <2>. QED BY <1>0, <2>1, <2>2, SameTree DEF Placed
  <1>2. CASE ~ContinueAsNew
    <2>1. ASSUME NEW n \in Nodes, phase'[n] # "idle"
          PROVE  n \in Alone
      <3>1. CASE phase[n] # "idle"
        BY <3>1 DEF Placed
      <3>2. CASE phase[n] = "idle"
        <4>1. ASSUME NEW k \in Nodes, NEW v, Turn(k, v)
              PROVE  FALSE
          BY <1>0, <2>1, <3>2, <4>1 DEF Turn
        <4>2. ASSUME NEW k \in Nodes, NEW B, Launch(k, B)
              PROVE  n \in Alone
          <5>1. n \in BranchSet(k) /\ k \in Alone
            BY <1>0, <2>1, <3>2, <4>2 DEF Launch, Placed
          <5>. QED BY <1>0, <5>1, BranchFacts
        <4>3. ASSUME NEW k \in Nodes, Settle(k) \/ GiveUp(k)
              PROVE  FALSE
          <5>1. PICK out \in {"ok", "fail"} : \E won : Stops(k, out, won) /\ phase[k] = "run"
            BY <4>3 DEF Settle, GiveUp, Outcomes, Racing
          <5>2. n \in Awaited(Launched(k))
            BY <2>1, <3>2, <5>1 DEF Stops
          <5>. QED BY <3>2, <5>2, AwaitedClosed DEF Tasks, Unfinished
        <4>4. ASSUME Cancel
              PROVE  FALSE
          <5>1. n \in Awaited({Root})
            BY <2>1, <3>2, <4>4 DEF Cancel
          <5>. QED BY <3>2, <5>1, AwaitedClosed DEF Tasks, Unfinished
        <4>5. ASSUME Boot
              PROVE  n \in Alone
          BY <1>0, <2>1, <3>2, <4>5, Tree DEF Boot
        <4>6. ~UNCHANGED phase
          BY <2>1, <3>2
        <4>. QED BY <1>2, <4>1, <4>2, <4>3, <4>4, <4>5, <4>6, StepKinds DEF Works
      <3>. QED BY <3>1, <3>2
    <2>2. ASSUME NEW n \in Alone, phase'[n] \in {"idle", "queued"},
                 NEW b \in BranchSet(n), phase'[b] # "idle"
          PROVE  FALSE
      <3>1. phase[n] \in {"idle", "queued"}
        BY <1>2, <2>2, PhaseMoves DEF Alone
      <3>2. phase[b] = "idle"
        BY <3>1 DEF Placed
      <3>3. PICK B \in SUBSET Nodes : Launch(n, B)
        BY <2>2, <3>2, BranchBegins
      <3>. QED BY <2>2, <3>3 DEF Launch
    <2>3. ASSUME pc' = "boot", NEW n \in Nodes
          PROVE  phase'[n] = "idle"
      <3>1. pc = "boot" /\ phase' = phase
        BY <1>2, <2>3, StepKinds DEF Cancel, Closes, Boot
      <3>. QED BY <3>1 DEF Placed
    <2>4. /\ \A n \in Nodes : phase'[n] # "idle" => n \in Alone'
          /\ \A n \in Alone' : phase'[n] \in {"idle", "queued"} =>
               \A b \in BranchSet(n)' : phase'[b] = "idle"
          /\ pc' = "boot" => \A n \in Nodes : phase'[n] = "idle"
      BY <1>0, <2>1, <2>2, <2>3, SameTree
    <2>. QED BY <2>4 DEF Placed
  <1>. QED BY <1>1, <1>2

LEMMA StrandNext ==
  ASSUME TypeOK, Placed, OnlyGathersStrand, Serial, [Next]_vars
  PROVE  OnlyGathersStrand'
  <1>0. prog' = prog /\ prog \in Programs /\ phase \in [Nodes -> Phases]
    BY StepKinds, TypesHere
  <1>. SUFFICES ASSUME NEW n \in Nodes, phase'[n] \in {"ok", "fail", "gone"},
                       NEW b \in BranchSet(n), phase'[b] \in Unfinished
                PROVE  Op(n) \in {"all", "each"} /\ phase'[n] = "fail"
    BY <1>0, SameTree DEF OnlyGathersStrand
  <1>1. n \in Alone
    BY <1>0, PlacedNext, SameTree DEF Placed
  <1>2. b \in Nodes
    BY <1>0, <1>1, BranchFacts
  <1>3. ~ContinueAsNew
    BY DEF ContinueAsNew
  <1>4. phase[b] \in Unfinished
    <2>1. ASSUME phase[b] = "idle" PROVE FALSE
      <3>1. PICK B \in SUBSET Nodes : Launch(n, B)
        BY <1>1, <2>1, BranchBegins DEF Unfinished
      <3>. QED BY <3>1 DEF Launch
    <2>. QED BY <1>2, <1>3, <2>1, PhaseMoves DEF Unfinished
  <1>5. CASE phase[n] \in {"ok", "fail", "gone"}
    BY <1>3, <1>4, <1>5, PhaseMoves DEF OnlyGathersStrand
  <1>6. CASE phase[n] \notin {"ok", "fail", "gone"}
    <2>1. phase[n] \in Unfinished
      BY <1>0, <1>1, <1>4, <1>6 DEF Placed, Unfinished, Phases, Alone
    <2>2. Turn(n, phase'[n])
      BY <1>1, <2>1, NodeEnds
    <2>3. phase[n] # "queued"
      BY <1>1, <1>4 DEF Placed, Unfinished
    <2>4. Op(n) \notin Leaves
      <3>1. ASSUME Op(n) \in Leaves PROVE FALSE
        <4>1. Branches(n) = <<>> /\ b \in {Branches(n)[i] : i \in 1..Len(Branches(n))}
          BY <1>0, <1>1, <3>1, Tree, BranchFacts
        <4>. QED BY <4>1
      <3>. QED BY <3>1
    <2>5. b \in Launched(n) /\ phase'[b] = phase[b]
      <3>1. b # n
        BY DEF Unfinished
      <3>. QED BY <1>0, <1>2, <1>4, <2>2, <3>1 DEF Turn, Launched, Unfinished
    <2>6. phase'[n] = "fail" /\ \E c \in Launched(n) : phase[c] = "fail"
      BY <1>4, <2>2, <2>3, <2>4, <2>5 DEF Turn, MayEnd, Unfinished
    <2>7. Op(n) \notin {"seq", "alt", "iter"}
      BY <1>1, <1>4, <2>5, <2>6 DEF Serial, Unfinished
    <2>. QED BY <2>2, <2>4, <2>6, <2>7, TypesHere DEF Turn, Groups
  <1>. QED BY <1>5, <1>6

LEMMA SerialNext ==
  ASSUME TypeOK, Placed, Serial, [Next]_vars
  PROVE  Serial'
  <1>0. prog' = prog /\ prog \in Programs /\ phase \in [Nodes -> Phases]
    BY StepKinds, TypesHere
  <1>. SUFFICES ASSUME NEW n \in Alone, Op(n) \in {"seq", "alt", "iter"},
                       NEW b \in BranchSet(n), NEW c \in BranchSet(n), b # c,
                       phase'[b] # "idle", phase'[c] # "idle"
                PROVE  phase'[b] = "ok" \/ phase'[c] = "ok"
    BY <1>0, SameTree DEF Serial, Launched
  <1>1. b \in Nodes /\ c \in Nodes
    BY <1>0, BranchFacts
  <1>2. ~ContinueAsNew
    BY <1>1 DEF ContinueAsNew
  <1>3. ASSUME NEW d \in BranchSet(n), NEW e \in BranchSet(n), d # e, phase[d] = "idle",
               phase'[d] # "idle", phase'[e] # "idle"
        PROVE  phase[e] = "ok"
    <2>1. PICK B \in SUBSET Nodes : Launch(n, B) /\ d \in B
      BY <1>3, BranchBegins
    <2>2. e \notin B
      BY <1>3, <2>1 DEF Launch
    <2>3. phase[e] # "idle" \/ e = n
      <3>1. e \in Nodes
        BY <1>0, BranchFacts
      <3>. QED BY <1>3, <2>1, <2>2, <3>1 DEF Launch
    <2>4. phase[n] # "idle" /\ phase[n] # "queued"
      <3>1. phase[n] = "queued" \/ phase[n] = "run"
        BY <2>1 DEF Launch
      <3>. QED BY <2>3, <3>1 DEF Placed
    <2>5. e \in Launched(n)
      BY <2>3, <2>4 DEF Launched
    <2>. QED BY <2>1, <2>4, <2>5 DEF Launch, Races
  <1>4. phase[b] = "ok" \/ phase[c] = "ok"
    BY <1>3 DEF Serial, Launched
  <1>. QED BY <1>1, <1>2, <1>4, PhaseMoves

-----------------------------------------------------------------------------
LEMMA CountsType ==
  ASSUME TypeOK, [Next]_vars
  PROVE  /\ counts' \in [Tools -> Nat] /\ used' \in [Tools -> Nat] /\ seed' \in [Nodes -> Nat]
         /\ \A t \in Tools : counts'[t] <= CallLimit[t]
  <1>1. /\ counts \in [Tools -> Nat] /\ used \in [Tools -> Nat] /\ seed \in [Nodes -> Nat]
        /\ \A t \in Tools : counts[t] <= CallLimit[t]
        /\ CallLimit \in [Tools -> Nat]
        /\ \A n \in Nodes : prog[n].tool \in Tools
    BY InterpreterAssumption, TypesHere DEF TypeOK, NodeRecord
  <1>2. ASSUME NEW n \in Nodes, BeginCall(n)
        PROVE  /\ counts' \in [Tools -> Nat] /\ used' \in [Tools -> Nat] /\ seed' = seed
               /\ \A t \in Tools : counts'[t] <= CallLimit[t]
    <2>. DEFINE t == prog[n].tool
    <2>1. t \in Tools /\ counts[t] < CallLimit[t]
      BY <1>1, <1>2 DEF BeginCall, Full
    <2>2. /\ counts' = [counts EXCEPT ![t] = @ + 1] /\ used' = [used EXCEPT ![t] = @ + 1]
          /\ seed' = seed
      BY <1>2 DEF BeginCall
    <2>. HIDE DEF t
    <2>. QED BY <1>1, <2>1, <2>2
  <1>3. ASSUME NEW n \in Nodes, BeginChild(n)
        PROVE  counts' = counts /\ used' = used /\ seed' \in [Nodes -> Nat]
    BY <1>1, <1>3 DEF BeginChild
  <1>4. ASSUME NEW n \in Nodes, ChildReturns(n)
        PROVE  /\ counts' \in [Tools -> Nat] /\ used' \in [Tools -> Nat] /\ seed' = seed
               /\ \A t \in Tools : counts'[t] <= CallLimit[t]
    <2>. DEFINE t == prog[n].tool
    <2>1. t \in Tools /\ seed[n] \in Nat /\ CallLimit[t] \in Nat
      BY <1>1
    <2>2. PICK out \in {"ok", "fail"}, k \in 0..(CallLimit[t] - seed[n]) :
            /\ used' = [used EXCEPT ![t] = IF Op(n) = "app" THEN @ + k ELSE @]
            /\ counts' = [counts EXCEPT ![t] =
                 IF Op(n) = "app" /\ out = "ok" /\ seed[n] + k > @ THEN seed[n] + k ELSE @]
      BY <1>4 DEF ChildReturns
    <2>3. k \in Nat /\ seed[n] + k <= CallLimit[t] /\ seed[n] + k \in Nat
      BY <2>1
    <2>4. seed' = seed
      BY <1>4 DEF ChildReturns, Ends
    <2>. HIDE DEF t
    <2>. QED BY <1>1, <2>1, <2>2, <2>3, <2>4
  <1>5. ASSUME NEW n \in Nodes, \/ BeginLeaf(n) \/ Passes(n) \/ BeginGroup(n) \/ BeginAlt(n)
                                \/ Answer(n) \/ Group(n)
        PROVE  UNCHANGED <<counts, used, seed>>
    BY <1>5 DEF BeginLeaf, Passes, BeginGroup, BeginAlt, Answer, Group, WaveDone, WaveFails,
                Settle, GiveUp, TimerFires, Stops, Ends
  <1>6. CASE Interpret
    BY <1>1, <1>2, <1>3, <1>4, <1>5, <1>6 DEF Interpret, Evaluate, Begin
  <1>7. CASE \/ Boot \/ BootFails \/ Result \/ Closing \/ Timeouts \/ Thinks \/ Cancel \/ AtRest
             \/ \E n \in Nodes : Decide(n) \/ GateOpens(n) \/ TakesResult(n)
             \/ \E q \in asked : SubmitReasonerResult(q)
             \/ \E letter \in letters : SubmitHuman(letter)
             \/ UNCHANGED vars
    <2>1. UNCHANGED <<counts, used, seed>>
      BY <1>7 DEF Boot, BootFails, Result, Closing, Return, ContinueAsNew, Timeouts, GateTimesOut,
                  BatchTimesOut, Thinks, ResolveQoS, InvokeReasoner, Cancel, AtRest, Decide,
                  GateOpens, TakesResult, SubmitReasonerResult, SubmitHuman, Ends, vars, interpVars
    <2>. QED BY <1>1, <2>1
  <1>. QED BY <1>6, <1>7 DEF Next, Progress

LEMMA PhaseType ==
  ASSUME TypeOK, Placed, [Next]_vars
  PROVE  /\ prog' \in Programs /\ phase' \in [Nodes -> Phases]
         /\ winners' \in [Nodes -> SUBSET Nodes]
  <1>0. /\ prog' = prog /\ prog \in Programs /\ phase \in [Nodes -> Phases]
        /\ winners \in [Nodes -> SUBSET Nodes]
    BY StepKinds, TypesHere DEF TypeOK
  <1>1. ASSUME NEW k \in Nodes, NEW v \in Phases, Turn(k, v)
        PROVE  phase' \in [Nodes -> Phases] /\ winners' = winners
    BY <1>0, <1>1 DEF Turn
  <1>2. ASSUME NEW k \in Nodes, NEW B, Launch(k, B)
        PROVE  phase' \in [Nodes -> Phases] /\ winners' = winners
    BY <1>0, <1>2 DEF Launch, Phases
  <1>3. ASSUME NEW k \in Nodes, Settle(k) \/ GiveUp(k)
        PROVE  phase' \in [Nodes -> Phases] /\ winners' \in [Nodes -> SUBSET Nodes]
    <2>1. PICK out \in {"ok", "fail"}, won \in SUBSET Nodes : Stops(k, out, won)
      <3>1. CASE GiveUp(k)
        BY <3>1 DEF GiveUp
      <3>2. CASE Settle(k)
        <4>1. PICK out \in {"ok", "fail"} : Stops(k, out, Those(k, First(Need(k), At(k, "ok"))))
          BY <3>2 DEF Settle, Outcomes
        <4>2. k \in Alone
          BY <3>2 DEF Settle, Racing, Placed
        <4>3. Those(k, First(Need(k), At(k, "ok"))) \subseteq Nodes
          <5>1. First(Need(k), At(k, "ok")) \subseteq 1..Len(Branches(k))
            BY <1>0, <4>2, AtFacts DEF First
          <5>2. \A i \in 1..Len(Branches(k)) : Branches(k)[i] \in Nodes
            BY <1>0, <4>2, BranchFacts
          <5>. QED BY <5>1, <5>2 DEF Those
        <4>. QED BY <4>1, <4>3
      <3>. QED BY <1>3, <3>1, <3>2
    <2>2. phase' \in [Nodes -> Phases]
      BY <1>0, <2>1 DEF Stops, Phases
    <2>3. winners' = [winners EXCEPT ![k] = won]
      BY <2>1 DEF Stops
    <2>. QED BY <1>0, <2>2, <2>3
  <1>4. CASE Cancel \/ ContinueAsNew \/ Boot \/ UNCHANGED <<phase, winners>>
    BY <1>0, <1>4 DEF Cancel, ContinueAsNew, Boot, Phases
  <1>. QED BY <1>0, <1>1, <1>2, <1>3, <1>4, StepKinds DEF Works

RunTypes ==
  /\ pc \in {"boot", "interpret", "closing", "ended"}
  /\ seg \in Segments
  /\ status \in {"running", "continue", "completed", "failed", "canceled"}
  /\ inbox \in [Nodes -> Segments \cup {None}]
  /\ letters \subseteq Ids
  /\ waits \in [Nodes -> {"none", "batch", "sync"}]
  /\ asked \subseteq [id : Ids, origin : Segments]
  /\ results \subseteq asked
  /\ resolved \subseteq Ids

LEMMA RunType ==
  ASSUME TypeOK, ContinueFits, [Next]_vars
  PROVE  RunTypes' /\ ContinueFits'
  <1>0. RunTypes /\ Segments' = Segments /\ Ids' = Ids
    BY DEF TypeOK, RunTypes, Segments, Ids
  <1>1. CASE Interpret
    BY <1>0, <1>1 DEF Interpret, RunTypes, runVars, gateVars, batchVars, ContinueFits
  <1>2. CASE Boot \/ BootFails \/ Return \/ Cancel \/ AtRest \/ UNCHANGED vars
    BY <1>0, <1>2 DEF Boot, BootFails, Return, Cancel, Closes, AtRest, vars, RunTypes, runVars,
                      gateVars, batchVars, ContinueFits
  <1>3. CASE Result
    BY <1>0, <1>3 DEF Result, Closes, RunTypes, gateVars, batchVars, ContinueFits
  <1>4. CASE ContinueAsNew
    <2>1. seg + 1 \in Segments
      BY <1>0, <1>4, FlowAssumption DEF ContinueAsNew, ContinueFits, RunTypes, Segments
    <2>. QED BY <1>0, <1>4, <2>1 DEF ContinueAsNew, RunTypes, ContinueFits
  <1>5. ASSUME NEW n \in Nodes, Decide(n) \/ GateOpens(n) \/ GateTimesOut(n)
        PROVE  RunTypes' /\ ContinueFits'
    BY <1>0, <1>5 DEF Decide, GateOpens, GateTimesOut, RunTypes, runVars, gateVars, batchVars,
                      ContinueFits, Ids
  <1>6. ASSUME NEW letter \in letters, SubmitHuman(letter)
        PROVE  RunTypes' /\ ContinueFits'
    <2>1. letter[1] \in Nodes /\ letter[2] \in Segments
      BY <1>0 DEF RunTypes, Ids
    <2>. QED BY <1>0, <1>6, <2>1 DEF SubmitHuman, RunTypes, runVars, batchVars, ContinueFits
  <1>7. ASSUME NEW n \in Nodes, ResolveQoS(n) \/ TakesResult(n) \/ BatchTimesOut(n) \/ InvokeReasoner(n)
        PROVE  RunTypes' /\ ContinueFits'
    <2>1. CustomId(n) \in Ids /\ [id |-> CustomId(n), origin |-> seg] \in [id : Ids, origin : Segments]
      BY <1>0 DEF CustomId, Ids, RunTypes
    <2>2. CASE ResolveQoS(n)
      <3>1. /\ waits' \in [Nodes -> {"none", "batch", "sync"}]
            /\ asked \subseteq asked' /\ asked' \subseteq [id : Ids, origin : Segments]
            /\ UNCHANGED <<runVars, gateVars, results, resolved>>
        BY <1>0, <2>1, <2>2 DEF ResolveQoS, RunTypes
      <3>. QED BY <1>0, <3>1 DEF RunTypes, runVars, gateVars, ContinueFits
    <2>3. CASE TakesResult(n) \/ BatchTimesOut(n) \/ InvokeReasoner(n)
      BY <1>0, <2>1, <2>3 DEF TakesResult, BatchTimesOut, InvokeReasoner, RunTypes, runVars,
                              gateVars, batchVars, ContinueFits
    <2>. QED BY <1>7, <2>2, <2>3
  <1>8. ASSUME NEW q \in asked, SubmitReasonerResult(q)
        PROVE  RunTypes' /\ ContinueFits'
    BY <1>0, <1>8 DEF SubmitReasonerResult, RunTypes, runVars, gateVars, ContinueFits
  <1>. QED BY <1>1, <1>2, <1>3, <1>4, <1>5, <1>6, <1>7, <1>8
           DEF Next, Progress, Closing, Timeouts, Thinks

LEMMA FlowInit == Init => FlowInv
  <1>. SUFFICES ASSUME Init PROVE FlowInv
    OBVIOUS
  <1>1. /\ prog \in Programs /\ phase = [n \in Nodes |-> "idle"]
        /\ seed = [n \in Nodes |-> 0] /\ winners = [n \in Nodes |-> {}]
        /\ counts = [t \in Tools |-> 0] /\ used = [t \in Tools |-> 0]
    BY DEF Init, InterpInit
  <1>2. TypeOK
    <2>1. 0 \in Segments /\ \A t \in Tools : 0 <= CallLimit[t]
      BY FlowAssumption, InterpreterAssumption DEF Segments
    <2>. QED BY <1>1, <2>1 DEF Init, TypeOK, Phases
  <1>3. Placed /\ Serial
    <2>1. \A n \in Alone : \A b \in BranchSet(n) : phase[b] = "idle"
      BY <1>1, BranchFacts
    <2>. QED BY <1>1, <2>1 DEF Placed, Serial, Launched
  <1>. QED BY <1>1, <1>2, <1>3 DEF Init, FlowInv, OnlyGathersStrand, ContinueFits

LEMMA FlowNext == FlowInv /\ [Next]_vars => FlowInv'
  <1>. SUFFICES ASSUME FlowInv, [Next]_vars PROVE FlowInv'
    OBVIOUS
  <1>1. TypeOK'
    BY CountsType, PhaseType, RunType DEF FlowInv, TypeOK, RunTypes
  <1>. QED BY <1>1, PlacedNext, StrandNext, SerialNext, RunType DEF FlowInv

(* Every task of a run is where its flow says, or stranded by a gather that*)
(* raised (WorkAccountedFor), for any frozen flows and limits.             *)
THEOREM TasksAccountedFor == Spec => []WorkAccountedFor
  <1>1. FlowInv => WorkAccountedFor
    BY DEF FlowInv, WorkAccountedFor
  <1>. QED BY <1>1, FlowInit, FlowNext, PTL DEF Spec


-----------------------------------------------------------------------------
(* Counting positions.                                                     *)
LEMMA FirstCount ==
  ASSUME NEW at \in SUBSET Nat, IsFiniteSet(at), NEW k \in Nat, k <= Cardinality(at)
  PROVE  IsFiniteSet(First(k, at)) /\ Cardinality(First(k, at)) = k
  <1>. DEFINE bad == {j \in Nat : j <= Cardinality(at) /\ Cardinality(First(j, at)) # j}
              below(i) == {j \in at : j < i}
  <1>0. \A S \in SUBSET at : IsFiniteSet(S) /\ Cardinality(S) \in Nat
    BY FS_Subset, FS_CardinalityType
  <1>1. \A j : First(j, at) \in SUBSET at
    BY DEF First
  <1>2. \A i : below(i) \in SUBSET at
    OBVIOUS
  <1>3. ASSUME bad # {}
        PROVE  FALSE
    <2>1. PICK j \in bad : \A l \in bad : j <= l
      <3>. HIDE DEF bad
      <3>1. bad \subseteq Nat
        BY DEF bad
      <3>. QED BY <1>3, <3>1, LeastNumber
    <2>2. j # 0
      <3>1. First(0, at) = {}
        <4>1. \A i : Cardinality(below(i)) \in Nat
          BY <1>0, <1>2
        <4>. QED BY <4>1 DEF First
      <3>. QED BY <3>1, FS_EmptySet
    <2>. DEFINE l == j - 1
                F == First(l, at)
    <2>3. l \in Nat /\ l < Cardinality(at) /\ j = l + 1 /\ Cardinality(at) \in Nat
      BY <1>0, <2>2
    <2>4. l \notin bad
      BY <2>1, <2>3
    <2>5. Cardinality(F) = l /\ F \in SUBSET at /\ IsFiniteSet(F)
      BY <1>0, <1>1, <2>3, <2>4
    <2>6. at \ F # {}
      BY <2>3, <2>5
    <2>7. PICK m \in at \ F : \A i \in at \ F : m <= i
      <3>1. at \ F \subseteq Nat
        OBVIOUS
      <3>. HIDE DEF F
      <3>. QED BY <2>6, <3>1, LeastNumber
    <2>8. \A i \in at : i \in F <=> Cardinality(below(i)) < l
      BY DEF First
    <2>9. ASSUME NEW i \in at, m < i
          PROVE  /\ below(m) \subseteq below(i) /\ m \in below(i) /\ m \notin below(m)
                 /\ Cardinality(below(m)) <= Cardinality(below(i)) /\ i \notin F
      <3>1. below(m) \subseteq below(i) /\ m \in below(i) /\ m \notin below(m)
        <4>1. m \in at /\ m \in Nat /\ i \in Nat /\ m < i
          BY <2>7, <2>9
        <4>2. ASSUME NEW x \in below(m)
              PROVE  x \in below(i)
          <5>1. x \in at /\ x \in Nat /\ x < m
            OBVIOUS
          <5>. QED BY <4>1, <5>1
        <4>3. m \in below(i) /\ m \notin below(m)
          BY <4>1
        <4>. QED BY <4>2, <4>3
      <3>2. Cardinality(below(m)) <= Cardinality(below(i))
        BY <1>0, <1>2, <3>1, FS_Subset
      <3>3. Cardinality(below(m)) \in Nat /\ Cardinality(below(i)) \in Nat
        BY <1>0, <1>2
      <3>. QED BY <2>3, <2>7, <2>8, <3>1, <3>2, <3>3
    <2>10. below(m) = F
      <3>1. ASSUME NEW i \in at, i < m PROVE i \in F
        BY <2>7, <3>1
      <3>2. ASSUME NEW i \in F PROVE i < m
        <4>1. i \in at /\ i \in Nat /\ m \in Nat /\ i # m
          BY <2>5, <2>7
        <4>2. ~(m < i)
          BY <2>9, <4>1
        <4>. QED BY <4>1, <4>2
      <3>3. below(m) \subseteq F
        BY <3>1
      <3>4. F \subseteq below(m)
        BY <2>5, <3>2
      <3>. QED BY <3>3, <3>4
    <2>11. ASSUME NEW i \in at, m < i
           PROVE  Cardinality(below(i)) >= l + 1
      <3>. DEFINE A == below(m)
      <3>1. IsFiniteSet(A) /\ Cardinality(A) = l /\ m \notin A /\ A \cup {m} \subseteq below(i)
        BY <2>5, <2>9, <2>10, <2>11
      <3>2. Cardinality(A \cup {m}) = l + 1
        <4>. HIDE DEF A
        <4>. QED BY <3>1, FS_AddElement
      <3>. HIDE DEF A
      <3>3. IsFiniteSet(below(i))
        BY <1>0, <1>2
      <3>4. Cardinality(A \cup {m}) <= Cardinality(below(i))
        <4>. DEFINE T == below(i)
        <4>1. A \cup {m} \subseteq T /\ IsFiniteSet(T)
          BY <3>1, <3>3
        <4>. HIDE DEF T
        <4>2. Cardinality(A \cup {m}) <= Cardinality(T)
          BY <4>1, FS_Subset
        <4>. QED BY <4>2 DEF T
      <3>5. Cardinality(below(i)) \in Nat
        BY <1>0, <1>2
      <3>. QED BY <2>3, <3>2, <3>4, <3>5
    <2>12. First(j, at) = F \cup {m}
      <3>1. \A i \in at : Cardinality(below(i)) \in Nat /\ i \in Nat
        BY <1>0, <1>2
      <3>2. \A i \in at : i \in First(j, at) <=> Cardinality(below(i)) < l + 1
        BY <2>3 DEF First
      <3>3. ASSUME NEW i \in at
            PROVE  i \in First(j, at) <=> i \in F \cup {m}
        <4>1. CASE i = m
          BY <2>3, <2>5, <2>10, <3>2, <4>1
        <4>2. CASE m < i
          <5>1. i \notin F /\ Cardinality(below(i)) >= l + 1 /\ Cardinality(below(i)) \in Nat
            BY <2>9, <2>11, <3>1, <4>2
          <5>2. i # m
            BY <3>1, <4>2
          <5>. QED BY <2>3, <3>2, <5>1, <5>2
        <4>3. CASE i < m
          <5>1. i \in F
            BY <2>10, <4>3
          <5>2. Cardinality(below(i)) < l
            BY <2>8, <5>1
          <5>. QED BY <2>3, <3>1, <3>2, <5>1, <5>2
        <4>. QED BY <2>7, <3>1, <4>1, <4>2, <4>3
      <3>4. First(j, at) \subseteq at /\ F \cup {m} \subseteq at
        BY <1>1, <2>5, <2>7
      <3>. HIDE DEF F
      <3>. QED BY <3>3, <3>4
    <2>13. Cardinality(First(j, at)) = l + 1
      <3>1. m \notin F /\ IsFiniteSet(F) /\ Cardinality(F) = l
        BY <2>5, <2>7
      <3>. HIDE DEF F
      <3>. QED BY <2>12, <3>1, FS_AddElement
    <2>. QED BY <2>1, <2>3, <2>13
  <1>4. k \notin bad
    BY <1>3
  <1>. QED BY <1>0, <1>1, <1>4

LEMMA ThoseCount ==
  ASSUME prog \in Programs, NEW n \in Alone, NEW at \in SUBSET (1..Len(Branches(n)))
  PROVE  Those(n, at) \subseteq BranchSet(n) /\ Cardinality(Those(n, at)) = Cardinality(at)
         /\ IsFiniteSet(at)
  <1>. DEFINE f == [i \in at |-> Branches(n)[i]]
              T == Those(n, at)
  <1>1. T = {Branches(n)[i] : i \in at}
    BY DEF Those
  <1>2. f \in Surjection(at, T) /\ f \in Injection(at, T)
    BY <1>1, BranchFacts DEF Surjection, Injection, IsInjective
  <1>3. IsFiniteSet(at)
    <2>1. IsFiniteSet(1..Len(Branches(n)))
      <3>1. Len(Branches(n)) \in Nat
        BY BranchFacts
      <3>. QED BY <3>1, FS_Interval
    <2>. QED BY <2>1, FS_Subset
  <1>4. Cardinality(T) = Cardinality(at)
    <2>. HIDE DEF f, T
    <2>. QED BY <1>2, <1>3, FS_Surjection
  <1>5. T \subseteq BranchSet(n)
    BY <1>1, BranchFacts
  <1>. QED BY <1>3, <1>4, <1>5

LEMMA BranchesIn ==
  ASSUME prog \in Programs, NEW n \in Alone, NEW s
  PROVE  /\ Those(n, At(n, s)) = {b \in BranchSet(n) : phase[b] = s}
         /\ Cardinality({b \in BranchSet(n) : phase[b] = s}) = Cardinality(At(n, s))
         /\ Cardinality(BranchSet(n)) = Len(Branches(n))
  <1>1. Those(n, At(n, s)) = {b \in BranchSet(n) : phase[b] = s}
    BY AtFacts, BranchFacts DEF Those
  <1>2. At(n, s) \in SUBSET (1..Len(Branches(n)))
    BY AtFacts
  <1>3. BranchSet(n) = Those(n, 1..Len(Branches(n))) /\ Len(Branches(n)) \in Nat
    BY BranchFacts DEF Those
  <1>4. Cardinality(1..Len(Branches(n))) = Len(Branches(n))
    <2>1. 1 \in Int /\ Len(Branches(n)) \in Int
      BY <1>3
    <2>2. Cardinality(1..Len(Branches(n))) =
            IF 1 > Len(Branches(n)) THEN 0 ELSE Len(Branches(n)) - 1 + 1
      BY <2>1, FS_Interval, Zenon
    <2>. QED BY <1>3, <2>2
  <1>. QED BY <1>1, <1>2, <1>3, <1>4, ThoseCount


-----------------------------------------------------------------------------
(* A race, hedge or quorum as RaceGroup sees it.                           *)
Seen(state) ==
  CASE state = "idle" -> "waiting"
    [] state \in Unfinished -> "running"
    [] OTHER -> state

Open(n) == phase[n] \in {"idle"} \cup Unfinished

LEMMA SeenAs ==
  /\ Seen("idle") = "waiting" /\ Seen("queued") = "running" /\ Seen("run") = "running"
  /\ Seen("ok") = "ok" /\ Seen("fail") = "fail" /\ Seen("gone") = "gone"
  BY DEF Seen, Unfinished

LEMMA ContractIs ==
  ASSUME NEW n
  PROVE  /\ Contract(n)!In("ok") = {b \in DOMAIN [c \in BranchSet(n) |-> Seen(phase[c])] :
                                     [c \in BranchSet(n) |-> Seen(phase[c])][b] = "ok"}
  BY DEF Contract!In, Seen

LEMMA Stutters ==
  ASSUME NEW n, prog' = prog, seg' = seg, winners'[n] = winners[n], phase'[n] = phase[n],
         \A b \in BranchSet(n) : phase'[b] = phase[b]
  PROVE  GroupStep(n)
  <1>1. Need(n)' = Need(n) /\ BranchSet(n)' = BranchSet(n)
    BY SameTree
  <1>. QED BY <1>1 DEF GroupStep, Contract!vars

LEMMA Advances ==
  ASSUME NEW n, prog' = prog, seg' = seg, winners'[n] = winners[n], Open(n), Open(n)',
         \A b \in BranchSet(n) :
           \/ Seen(phase[b]) = Seen(phase'[b]) /\ phase[b] \in Phases
           \/ phase[b] = "idle" /\ Seen(phase'[b]) = "running"
           \/ phase[b] \in Unfinished /\ phase'[b] \in {"ok", "fail"}
  PROVE  GroupStep(n)
  <1>1. Need(n)' = Need(n) /\ BranchSet(n)' = BranchSet(n)
    BY SameTree
  <1>. DEFINE v == [b \in BranchSet(n) |-> Seen(phase[b])]
              w == [b \in BranchSet(n) |-> Seen(phase'[b])]
              o(p) == CASE p = "ok" -> "won" [] p = "fail" -> "lost" [] p = "gone" -> "gone"
                        [] OTHER -> "open"
  <1>2. o(phase[n]) = "open" /\ o(phase'[n]) = "open"
    BY DEF Open, Unfinished
  <1>3. \A b \in BranchSet(n) : w[b] \in Contract(n)!After[v[b]]
    <2>. TAKE b \in BranchSet(n)
    <2>1. v[b] \in {"waiting", "running", "ok", "fail", "gone"}
      BY DEF Seen, Phases, Unfinished
    <2>2. CASE Seen(phase[b]) = Seen(phase'[b])
      BY <2>1, <2>2 DEF Contract!After
    <2>3. CASE phase[b] = "idle" /\ Seen(phase'[b]) = "running"
      BY <2>3, SeenAs DEF Contract!After
    <2>4. CASE phase[b] \in Unfinished /\ phase'[b] \in {"ok", "fail"}
      BY <2>4, SeenAs DEF Contract!After, Unfinished
    <2>. QED BY <2>2, <2>3, <2>4
  <1>4. Contract(n)!Advance
    BY <1>1, <1>2, <1>3 DEF Contract!Advance, Seen
  <1>. QED BY <1>4 DEF GroupStep, Contract!Next

LEMMA SameCardinality ==
  ASSUME NEW n, NEW S
  PROVE  Contract(n)!Cardinality(S) = Cardinality(S)
  BY DEF Contract!Cardinality, Cardinality

LEMMA ContractCases ==
  ASSUME NEW n
  PROVE  /\ /\ Cardinality(Contract(n)!In("fail")) > Cardinality(BranchSet(n)) - Need(n)
            /\ Contract(n)!End("lost", {})
            => Contract(n)!GiveUp
         /\ \A c \in SUBSET Contract(n)!In("ok"), r \in {"won", "lost"} :
              Cardinality(c) = Need(n) /\ Contract(n)!End(r, c) => Contract(n)!Settle
  <1>1. ASSUME Cardinality(Contract(n)!In("fail")) > Cardinality(BranchSet(n)) - Need(n),
               Contract(n)!End("lost", {})
        PROVE  Contract(n)!GiveUp
    BY <1>1, SameCardinality DEF Contract!GiveUp
  <1>2. ASSUME NEW c \in SUBSET Contract(n)!In("ok"), NEW r \in {"won", "lost"},
               Cardinality(c) = Need(n), Contract(n)!End(r, c)
        PROVE  Contract(n)!Settle
    BY <1>2, SameCardinality DEF Contract!Settle
  <1>. QED BY <1>1, <1>2

LEMMA EndsGroup ==
  ASSUME NEW n \in Alone, prog \in Programs, phase \in [Nodes -> Phases],
         prog' = prog, seg' = seg, Open(n),
         \A b \in BranchSet(n) : phase'[b] = IF phase[b] \in Unfinished THEN "gone" ELSE phase[b],
         \/ phase'[n] = "gone" /\ winners'[n] = {}
         \/ /\ phase'[n] = "fail" /\ winners'[n] = {}
            /\ Cardinality({b \in BranchSet(n) : phase[b] = "fail"}) > Cardinality(BranchSet(n)) - Need(n)
         \/ /\ phase'[n] \in {"ok", "fail"} /\ winners'[n] \subseteq {b \in BranchSet(n) : phase[b] = "ok"}
            /\ Cardinality(winners'[n]) = Need(n)
  PROVE  GroupStep(n)
  <1>1. Need(n)' = Need(n) /\ BranchSet(n)' = BranchSet(n)
    BY SameTree
  <1>. DEFINE v == [b \in BranchSet(n) |-> Seen(phase[b])]
              w == [b \in BranchSet(n) |-> Seen(phase'[b])]
              o(p) == CASE p = "ok" -> "won" [] p = "fail" -> "lost" [] p = "gone" -> "gone"
                        [] OTHER -> "open"
  <1>2. o(phase[n]) = "open"
    BY DEF Open, Unfinished
  <1>3. \A b \in BranchSet(n) :
          /\ phase[b] \in Phases
          /\ w[b] = IF v[b] = "running" THEN "gone" ELSE v[b]
          /\ v[b] = "ok" <=> phase[b] = "ok"
          /\ v[b] = "fail" <=> phase[b] = "fail"
    <2>. TAKE b \in BranchSet(n)
    <2>1. phase[b] \in Phases
      BY BranchFacts
    <2>. QED BY <2>1, SeenAs DEF Phases, Unfinished
  <1>4. w = [b \in DOMAIN v |-> IF v[b] = "running" THEN "gone" ELSE v[b]]
    BY <1>3
  <1>5. ASSUME NEW r \in {"won", "lost", "gone"}, o(phase'[n]) = r, NEW c, winners'[n] = c
        PROVE  Contract(n)!End(r, c)
    BY <1>1, <1>2, <1>4, <1>5 DEF Contract!End, Seen
  <1>6. CASE phase'[n] = "gone" /\ winners'[n] = {}
    <2>1. Contract(n)!End("gone", {})
      BY <1>5, <1>6
    <2>. QED BY <2>1 DEF GroupStep, Contract!Next, Contract!Cancel
  <1>7. Contract(n)!In("ok") = {b \in BranchSet(n) : phase[b] = "ok"}
        /\ Contract(n)!In("fail") = {b \in BranchSet(n) : phase[b] = "fail"}
    BY <1>3 DEF Contract!In, Seen
  <1>8. CASE /\ phase'[n] = "fail" /\ winners'[n] = {}
             /\ Cardinality({b \in BranchSet(n) : phase[b] = "fail"}) > Cardinality(BranchSet(n)) - Need(n)
    <2>1. Contract(n)!End("lost", {})
      BY <1>5, <1>8
    <2>2. Contract(n)!GiveUp
      BY <1>7, <1>8, <2>1, ContractCases
    <2>. QED BY <2>2 DEF GroupStep, Contract!Next
  <1>9. CASE /\ phase'[n] \in {"ok", "fail"} /\ winners'[n] \subseteq {b \in BranchSet(n) : phase[b] = "ok"}
             /\ Cardinality(winners'[n]) = Need(n)
    <2>1. PICK r \in {"won", "lost"} : o(phase'[n]) = r
      BY <1>9
    <2>2. PICK c : c = winners'[n]
      OBVIOUS
    <2>3. Contract(n)!End(r, c)
      BY <1>5, <2>1, <2>2
    <2>4. Contract(n)!Settle
      BY <1>7, <1>9, <2>2, <2>3, ContractCases
    <2>. QED BY <2>4 DEF GroupStep, Contract!Next
  <1>. QED BY <1>6, <1>8, <1>9

LEMMA Restarts ==
  ASSUME NEW n \in Alone, prog \in Programs, ContinueAsNew
  PROVE  GroupStep(n)
  <1>1. prog' = prog /\ seg' = seg + 1 /\ winners'[n] = {} /\ phase' = [k \in Nodes |-> "idle"]
    BY DEF ContinueAsNew, Alone
  <1>2. Need(n)' = Need(n) /\ BranchSet(n)' = BranchSet(n) /\ BranchSet(n) \subseteq Nodes
    BY <1>1, SameTree, BranchFacts
  <1>3. phase'[n] = "idle" /\ \A b \in BranchSet(n)' : phase'[b] = "idle"
    BY <1>1, <1>2 DEF Alone
  <1>4. Contract(n)!Fresh'
    <2>1. \A b \in BranchSet(n)' : Seen(phase'[b]) = "waiting"
      BY <1>3, SeenAs
    <2>2. \A b \in BranchSet(n)' :
            [c \in BranchSet(n)' |-> CASE phase'[c] = "idle" -> "waiting"
                                      [] phase'[c] \in Unfinished -> "running"
                                      [] OTHER -> phase'[c]][b] = "waiting"
      BY <2>1 DEF Seen
    <2>3. (CASE phase'[n] = "ok" -> "won" [] phase'[n] = "fail" -> "lost" [] phase'[n] = "gone" -> "gone"
             [] OTHER -> "open") = "open"
      BY <1>3
    <2>. QED BY <1>1, <2>2, <2>3 DEF Contract!Fresh
  <1>5. Contract(n)!Restart
    BY <1>1, <1>2, <1>4 DEF Contract!Restart
  <1>. QED BY <1>5 DEF GroupStep, Contract!Next

-----------------------------------------------------------------------------
NoWinnersYet == \A n \in Nodes : Open(n) => winners[n] = {}

LEMMA HeadFacts ==
  ASSUME TypeOK, NEW n \in Heads
  PROVE  /\ n \in Alone /\ n \in Nodes /\ Op(n) \in Races
         /\ Need(n) \in Nat
         /\ BranchSet(n) \subseteq Nodes
         /\ \A b \in BranchSet(n) : b # n
  <1>1. n \in Alone /\ n \in Nodes /\ Op(n) \in Races
    BY DEF Heads, Alone
  <1>2. Need(n) \in Nat
    BY <1>1, TypesHere DEF Need, NodeRecord
  <1>3. BranchSet(n) \subseteq Nodes
    BY <1>1, TypesHere, BranchFacts
  <1>4. n \notin BranchSet(n)
    BY <1>1, TypesHere, NotItself
  <1>. QED BY <1>1, <1>2, <1>3, <1>4

(* Nobody ends a group from below: the node that settles is no branch of   *)
(* what it cancels.                                                        *)
LEMMA NotAbove ==
  ASSUME TypeOK, Placed, NEW k \in Alone, NEW n \in Awaited(Launched(k))
  PROVE  k \notin BranchSet(n)
  <1>. SUFFICES ASSUME k \in BranchSet(n) PROVE FALSE
    OBVIOUS
  <1>. DEFINE A == Awaited(Launched(k))
              S == A \cup {k}
  <1>1. A \subseteq Alone
    BY AwaitedClosed DEF Tasks, Placed, Unfinished
  <1>2. \A b \in A : \E p \in S : b \in BranchSet(p)
    BY AwaitedLeast DEF Launched
  <1>3. S \in SUBSET Alone /\ S # {}
    BY <1>1
  <1>4. \A b \in S : \E p \in S : b \in BranchSet(p)
    BY <1>2
  <1>5. \E b \in S : \A p \in S : b \notin BranchSet(p)
    <2>. HIDE DEF S
    <2>. QED BY <1>3, TypesHere, Tree
  <1>. HIDE DEF S
  <1>. QED BY <1>4, <1>5

(* What is cancelled under a node that goes on is the node's own doing.    *)
LEMMA GoneWithNode ==
  ASSUME TypeOK, Placed, [Next]_vars, ~ContinueAsNew,
         NEW n \in Alone, NEW b \in BranchSet(n), phase[b] \in Unfinished, phase'[b] = "gone"
  PROVE  ~Open(n)'
  <1>0. /\ phase \in [Nodes -> Phases] /\ prog \in Programs
        /\ b \in Nodes /\ n \in Nodes /\ b # Root
    BY TypesHere, BranchFacts DEF Alone
  <1>. SUFFICES phase'[n] \in {"ok", "fail", "gone"}
    BY DEF Open, Unfinished
  <1>1. ASSUME NEW from, b \in Awaited(from), b \notin from
        PROVE  n \in Awaited(from)
    <2>1. PICK p \in Awaited(from) : b \in BranchSet(p)
      BY <1>1, AwaitedLeast
    <2>2. p \in Alone
      BY <2>1, AwaitedClosed DEF Tasks, Placed, Unfinished
    <2>. QED BY <1>0, <2>1, <2>2, Tree
  <1>2. ASSUME NEW k \in Nodes, NEW v, Turn(k, v)
        PROVE  FALSE
    BY <1>0, <1>2 DEF Turn, Unfinished
  <1>3. ASSUME NEW k \in Nodes, NEW B, Launch(k, B)
        PROVE  FALSE
    BY <1>0, <1>3 DEF Launch, Unfinished
  <1>4. ASSUME NEW k \in Nodes, Settle(k) \/ GiveUp(k)
        PROVE  phase'[n] \in {"ok", "fail", "gone"}
    <2>1. PICK out \in {"ok", "fail"} : \E won : Stops(k, out, won) /\ phase[k] = "run"
      BY <1>4 DEF Settle, GiveUp, Outcomes, Racing
    <2>2. /\ phase'[n] = IF n = k THEN out ELSE IF n \in Awaited(Launched(k)) THEN "gone" ELSE phase[n]
          /\ phase'[b] = IF b = k THEN out ELSE IF b \in Awaited(Launched(k)) THEN "gone" ELSE phase[b]
      BY <1>0, <2>1 DEF Stops
    <2>3. b \in Awaited(Launched(k))
      BY <2>2 DEF Unfinished
    <2>4. CASE b \in Launched(k)
      <3>1. k \in Alone /\ b \in BranchSet(k)
        BY <2>1, <2>4 DEF Placed, Launched
      <3>2. k = n
        BY <1>0, <3>1, Tree
      <3>. QED BY <2>2, <3>2
    <2>5. CASE b \notin Launched(k)
      BY <1>1, <2>2, <2>3, <2>5
    <2>. QED BY <2>4, <2>5
  <1>5. ASSUME Cancel
        PROVE  phase'[n] \in {"ok", "fail", "gone"}
    <2>1. /\ phase'[n] = IF n \in Awaited({Root}) THEN "gone" ELSE phase[n]
          /\ phase'[b] = IF b \in Awaited({Root}) THEN "gone" ELSE phase[b]
      BY <1>0, <1>5 DEF Cancel
    <2>. QED BY <1>0, <1>1, <2>1 DEF Unfinished
  <1>6. ~UNCHANGED phase /\ ~Boot
    BY <1>0 DEF Boot, Placed, Unfinished
  <1>. QED BY <1>2, <1>3, <1>4, <1>5, <1>6, StepKinds DEF Works

(* Winners are taken when their group ends.                                *)
LEMMA WinnersTaken ==
  ASSUME TypeOK, Placed, [Next]_vars, ~ContinueAsNew, NEW n \in Nodes, winners'[n] # winners[n]
  PROVE  Open(n) /\ ~Open(n)'
  <1>0. winners \in [Nodes -> SUBSET Nodes]
    BY DEF TypeOK
  <1>1. ASSUME NEW k \in Nodes, Settle(k) \/ GiveUp(k)
        PROVE  Open(n) /\ ~Open(n)'
    <2>1. PICK out \in {"ok", "fail"} : \E won : Stops(k, out, won) /\ phase[k] = "run"
      BY <1>1 DEF Settle, GiveUp, Outcomes, Racing
    <2>2. n = k
      BY <1>0, <2>1 DEF Stops
    <2>3. phase'[n] = out
      BY <2>1, <2>2 DEF Stops
    <2>. QED BY <2>1, <2>2, <2>3 DEF Open, Unfinished
  <1>2. ASSUME NEW k \in Nodes, \E v \in Phases : Turn(k, v)
        PROVE  FALSE
    BY <1>2 DEF Turn
  <1>3. ASSUME NEW k \in Nodes, \E B \in SUBSET Nodes : Launch(k, B)
        PROVE  FALSE
    BY <1>3 DEF Launch
  <1>4. ~Cancel /\ ~Boot /\ ~UNCHANGED <<phase, winners, seg>>
    BY DEF Cancel, Boot
  <1>. QED BY <1>1, <1>2, <1>3, <1>4, StepKinds DEF Works

LEMMA NoWinnersNext ==
  ASSUME TypeOK, Placed, NoWinnersYet, [Next]_vars
  PROVE  NoWinnersYet'
  <1>. SUFFICES ASSUME NEW n \in Nodes, Open(n)' PROVE winners'[n] = {}
    BY DEF NoWinnersYet
  <1>1. CASE ContinueAsNew
    BY <1>1 DEF ContinueAsNew
  <1>2. CASE ~ContinueAsNew
    <2>1. winners'[n] = winners[n]
      BY <1>2, WinnersTaken
    <2>2. phase[n] \in Phases
      BY TypesHere
    <2>3. Open(n)
      BY <1>2, <2>2, PhaseMoves DEF Open, Unfinished, Phases
    <2>. QED BY <2>1, <2>3 DEF NoWinnersYet
  <1>. QED BY <1>1, <1>2

LEMMA SameSegment ==
  ASSUME TypeOK, Placed, [Next]_vars, ~ContinueAsNew
  PROVE  prog' = prog /\ seg' = seg
  BY StepKinds DEF Cancel, Closes, Boot

(* A group that has ended stays as it is, and so do its branches.          *)
LEMMA GroupDone ==
  ASSUME TypeOK, Placed, OnlyGathersStrand, [Next]_vars, ~ContinueAsNew,
         NEW n \in Heads, ~Open(n)
  PROVE  GroupStep(n)
  <1>0. /\ n \in Alone /\ n \in Nodes /\ Op(n) \in Races /\ BranchSet(n) \subseteq Nodes
        /\ phase \in [Nodes -> Phases]
    BY HeadFacts, TypesHere
  <1>1. phase[n] \in {"ok", "fail", "gone"}
    BY <1>0 DEF Open, Phases, Unfinished
  <1>2. phase'[n] = phase[n]
    BY <1>0, <1>1, PhaseMoves
  <1>3. winners'[n] = winners[n]
    BY <1>0, WinnersTaken
  <1>4. ASSUME NEW b \in BranchSet(n)
        PROVE  phase'[b] = phase[b]
    <2>1. b \in Nodes /\ phase[b] \in Phases
      BY <1>0
    <2>2. phase[b] \notin Unfinished
      BY <1>0, <1>1 DEF OnlyGathersStrand, Races
    <2>3. CASE phase[b] = "idle"
      <3>1. SUFFICES ASSUME phase'[b] # "idle" PROVE FALSE
        BY <2>3
      <3>2. PICK B \in SUBSET Nodes : Launch(n, B)
        BY <1>0, <2>3, <3>1, BranchBegins
      <3>. QED BY <1>1, <3>2 DEF Launch
    <2>4. CASE phase[b] \in {"ok", "fail", "gone"}
      BY <2>1, <2>4, PhaseMoves
    <2>. QED BY <2>1, <2>2, <2>3, <2>4 DEF Phases, Unfinished
  <1>. QED BY <1>2, <1>3, <1>4, SameSegment, Stutters

(* Branches of an open group start and end one by one.                     *)
LEMMA GroupGoesOn ==
  ASSUME TypeOK, Placed, [Next]_vars, ~ContinueAsNew, NEW n \in Heads, Open(n), Open(n)'
  PROVE  GroupStep(n)
  <1>0. /\ n \in Alone /\ n \in Nodes /\ BranchSet(n) \subseteq Nodes /\ phase \in [Nodes -> Phases]
    BY HeadFacts, TypesHere
  <1>1. winners'[n] = winners[n]
    BY <1>0, WinnersTaken
  <1>2. ASSUME NEW b \in BranchSet(n)
        PROVE  \/ Seen(phase[b]) = Seen(phase'[b]) /\ phase[b] \in Phases
               \/ phase[b] = "idle" /\ Seen(phase'[b]) = "running"
               \/ phase[b] \in Unfinished /\ phase'[b] \in {"ok", "fail"}
    <2>1. b \in Nodes /\ phase[b] \in Phases /\ phase'[b] \in Phases
      BY <1>0, PhaseMoves
    <2>2. CASE phase[b] = "idle" /\ phase'[b] = "idle"
      BY <2>1, <2>2
    <2>3. CASE phase[b] = "idle" /\ phase'[b] # "idle"
      <3>1. PICK B \in SUBSET Nodes : Launch(n, B) /\ b \in B
        BY <1>0, <2>3, BranchBegins
      <3>2. phase'[b] = "run" \/ phase'[b] = "queued"
        BY <2>1, <3>1 DEF Launch
      <3>. QED BY <2>3, <3>2, SeenAs
    <2>4. CASE phase[b] \in Unfinished
      <3>1. phase'[b] # "gone"
        BY <1>0, <2>4, GoneWithNode
      <3>2. phase'[b] # "idle"
        BY <2>1, <2>4, PhaseMoves DEF Unfinished
      <3>. QED BY <2>1, <2>4, <3>1, <3>2, SeenAs DEF Phases, Unfinished
    <2>5. CASE phase[b] \in {"ok", "fail", "gone"}
      BY <2>1, <2>5, PhaseMoves
    <2>. QED BY <2>1, <2>2, <2>3, <2>4, <2>5 DEF Phases, Unfinished
  <1>. QED BY <1>1, <1>2, SameSegment, Advances

(* What a cancellation does to the branches of a group it ends.            *)
LEMMA BranchesStopped ==
  ASSUME TypeOK, NEW n \in Alone, NEW from,
         n \in Awaited(from) \/ Launched(n) \subseteq from,
         NEW b \in BranchSet(n)
  PROVE  b \in Awaited(from) <=> phase[b] \in Unfinished
  <1>1. b \in Nodes
    BY TypesHere, BranchFacts
  <1>2. phase[b] \in Unfinished => b \in Tasks /\ b \in Launched(n)
    BY <1>1 DEF Tasks, Launched, Unfinished
  <1>. QED BY <1>2, AwaitedClosed DEF Tasks

LEMMA GroupEnds ==
  ASSUME TypeOK, Placed, NoWinnersYet, [Next]_vars, ~ContinueAsNew,
         NEW n \in Heads, Open(n), ~Open(n)'
  PROVE  GroupStep(n)
  <1>0. /\ n \in Alone /\ n \in Nodes /\ Op(n) \in Races /\ BranchSet(n) \subseteq Nodes
        /\ phase \in [Nodes -> Phases] /\ prog \in Programs /\ Need(n) \in Nat
        /\ \A b \in BranchSet(n) : b # n
    BY HeadFacts, TypesHere
  <1>1. prog' = prog /\ seg' = seg
    BY SameSegment
  <1>2. ASSUME NEW k \in Nodes, NEW v \in Phases, Turn(k, v)
        PROVE  FALSE
    <2>1. n # k
      BY <1>0, <1>2 DEF Turn
    <2>. QED BY <1>0, <1>2, <2>1 DEF Turn, Open
  <1>3. ASSUME NEW k \in Nodes, NEW B \in SUBSET Nodes, Launch(k, B)
        PROVE  FALSE
    <2>1. phase'[n] \in {"run", "queued"} \/ phase'[n] = phase[n]
      BY <1>0, <1>3 DEF Launch
    <2>. QED BY <2>1 DEF Open, Unfinished
  <1>4. ASSUME NEW from, n \in Awaited(from), winners'[n] = winners[n],
               phase'[n] = "gone",
               \A b \in BranchSet(n) : phase'[b] = IF b \in Awaited(from) THEN "gone" ELSE phase[b]
        PROVE  GroupStep(n)
    <2>1. winners'[n] = {}
      BY <1>0, <1>4 DEF NoWinnersYet
    <2>2. \A b \in BranchSet(n) : phase'[b] = IF phase[b] \in Unfinished THEN "gone" ELSE phase[b]
      BY <1>0, <1>4, BranchesStopped
    <2>. QED BY <1>0, <1>1, <1>4, <2>1, <2>2, EndsGroup
  <1>5. CASE Cancel
    <2>1. \A b \in Nodes : phase'[b] = IF b \in Awaited({Root}) THEN "gone" ELSE phase[b]
      BY <1>5 DEF Cancel
    <2>2. n \in Awaited({Root}) /\ phase'[n] = "gone" /\ winners' = winners
      BY <1>0, <1>5, <2>1 DEF Open, Cancel
    <2>. QED BY <1>0, <1>4, <2>1, <2>2
  <1>6. ASSUME NEW k \in Nodes, k # n, Settle(k) \/ GiveUp(k)
        PROVE  GroupStep(n)
    <2>1. PICK out \in {"ok", "fail"} : \E won : Stops(k, out, won) /\ phase[k] = "run"
      BY <1>6 DEF Settle, GiveUp, Outcomes, Racing
    <2>. DEFINE A == Awaited(Launched(k))
    <2>2. \A b \in Nodes : phase'[b] = IF b = k THEN out ELSE IF b \in A THEN "gone" ELSE phase[b]
      BY <2>1 DEF Stops
    <2>3. n \in A /\ phase'[n] = "gone"
      BY <1>0, <1>6, <2>2 DEF Open
    <2>4. winners'[n] = winners[n]
      BY <1>6, <2>1 DEF Stops, TypeOK
    <2>5. k \notin BranchSet(n)
      <3>1. k \in Alone
        BY <2>1 DEF Placed
      <3>. QED BY <2>3, <3>1, NotAbove
    <2>6. \A b \in BranchSet(n) : phase'[b] = IF b \in A THEN "gone" ELSE phase[b]
      BY <1>0, <2>2, <2>5
    <2>. QED BY <1>4, <2>3, <2>4, <2>6
  <1>7. ASSUME NEW out \in {"ok", "fail"}, NEW won, Stops(n, out, won)
        PROVE  /\ phase'[n] = out /\ winners'[n] = won
               /\ \A b \in BranchSet(n) : phase'[b] = IF phase[b] \in Unfinished THEN "gone" ELSE phase[b]
    <2>1. \A b \in Nodes : phase'[b] = IF b = n THEN out
                                       ELSE IF b \in Awaited(Launched(n)) THEN "gone" ELSE phase[b]
      BY <1>7 DEF Stops
    <2>2. winners'[n] = won
      BY <1>0, <1>7 DEF Stops, TypeOK
    <2>3. \A b \in BranchSet(n) : b \in Awaited(Launched(n)) <=> phase[b] \in Unfinished
      BY <1>0, BranchesStopped
    <2>. QED BY <1>0, <2>1, <2>2, <2>3
  <1>8. /\ \A s : At(n, s) \in SUBSET (1..Len(Branches(n))) /\ Len(Branches(n)) \in Nat
        /\ \A s : IsFiniteSet(At(n, s)) /\ At(n, s) \in SUBSET Nat
    BY <1>0, AtFacts, BranchFacts
  <1>9. CASE GiveUp(n)
    <2>1. Stops(n, "fail", {}) /\ Cardinality(At(n, "fail")) > Len(Branches(n)) - Need(n)
      BY <1>9 DEF GiveUp
    <2>2. Cardinality({b \in BranchSet(n) : phase[b] = "fail"}) > Cardinality(BranchSet(n)) - Need(n)
      BY <1>0, <2>1, BranchesIn
    <2>. QED BY <1>0, <1>1, <1>7, <2>1, <2>2, EndsGroup
  <1>10. CASE Settle(n)
    <2>. DEFINE best == First(Need(n), At(n, "ok"))
    <2>1. PICK out \in {"ok", "fail"} : Stops(n, out, Those(n, best))
      BY <1>10 DEF Settle, Outcomes
    <2>2. Need(n) <= Cardinality(At(n, "ok"))
      <3>1. Cardinality(At(n, "ok")) >= Need(n) /\ Cardinality(At(n, "ok")) \in Nat
        BY <1>0, <1>10, AtFacts DEF Settle
      <3>. QED BY <1>0, <3>1
    <2>3. Cardinality(best) = Need(n) /\ best \subseteq At(n, "ok")
      <3>1. Cardinality(best) = Need(n)
        BY <1>0, <1>8, <2>2, FirstCount
      <3>. QED BY <3>1 DEF First
    <2>4. best \in SUBSET (1..Len(Branches(n)))
      BY <1>8, <2>3
    <2>5. Cardinality(Those(n, best)) = Need(n)
      <3>. HIDE DEF best
      <3>. QED BY <1>0, <2>3, <2>4, ThoseCount
    <2>6. Those(n, best) \subseteq {b \in BranchSet(n) : phase[b] = "ok"}
      <3>1. Those(n, best) \subseteq Those(n, At(n, "ok"))
        BY <2>3 DEF Those
      <3>. QED BY <1>0, <3>1, BranchesIn
    <2>7. /\ phase'[n] = out /\ winners'[n] = Those(n, best)
          /\ \A b \in BranchSet(n) : phase'[b] = IF phase[b] \in Unfinished THEN "gone" ELSE phase[b]
      <3>. HIDE DEF best
      <3>. QED BY <1>7, <2>1
    <2>. HIDE DEF best
    <2>. QED BY <1>0, <1>1, <2>5, <2>6, <2>7, EndsGroup
  <1>11. ~UNCHANGED <<phase, winners, seg>> /\ ~Boot
    <2>1. ~UNCHANGED <<phase, winners, seg>>
      BY DEF Open
    <2>2. ASSUME Boot PROVE FALSE
      BY <1>0, <2>2 DEF Boot, Open, Unfinished
    <2>. QED BY <2>1, <2>2
  <1>. QED BY <1>2, <1>3, <1>5, <1>6, <1>9, <1>10, <1>11, StepKinds DEF Works

LEMMA GroupInit == Init => NoWinnersYet /\ GroupsStart
  <1>. SUFFICES ASSUME Init PROVE NoWinnersYet /\ GroupsStart
    OBVIOUS
  <1>1. /\ prog \in Programs /\ phase = [n \in Nodes |-> "idle"]
        /\ winners = [n \in Nodes |-> {}] /\ seg = 0
    BY DEF Init, InterpInit
  <1>2. ASSUME NEW n \in Heads
        PROVE  Contract(n)!Init
    <2>1. n \in Alone /\ n \in Nodes
      BY DEF Heads, Alone
    <2>2. BranchSet(n) \subseteq Nodes
      BY <1>1, <2>1, BranchFacts
    <2>3. phase[n] = "idle" /\ winners[n] = {} /\ \A b \in BranchSet(n) : phase[b] = "idle"
      BY <1>1, <2>1, <2>2
    <2>4. \A b \in BranchSet(n) :
            [c \in BranchSet(n) |-> CASE phase[c] = "idle" -> "waiting"
                                     [] phase[c] \in Unfinished -> "running"
                                     [] OTHER -> phase[c]][b] = "waiting"
      BY <2>3, SeenAs DEF Seen
    <2>5. (CASE phase[n] = "ok" -> "won" [] phase[n] = "fail" -> "lost" [] phase[n] = "gone" -> "gone"
             [] OTHER -> "open") = "open"
      BY <2>3
    <2>6. Contract(n)!Fresh
      BY <2>3, <2>4, <2>5 DEF Contract!Fresh
    <2>. QED BY <1>1, <2>6 DEF Contract!Init
  <1>3. NoWinnersYet
    BY <1>1 DEF NoWinnersYet
  <1>. QED BY <1>2, <1>3 DEF GroupsStart

(* A race, hedge or quorum settles once, on as many successes as it needs  *)
(* or when they are out of reach, and its branches then stay as they are   *)
(* (ImplementsGroups): every group of every flow implements RaceGroup.     *)
THEOREM GroupsRefine == Spec => ImplementsGroups
  <1>. DEFINE GroupInv == FlowInv /\ NoWinnersYet
  <1>1. Init => GroupInv /\ GroupsStart
    BY FlowInit, GroupInit
  <1>2. GroupInv /\ [Next]_vars => GroupInv'
    BY FlowNext, NoWinnersNext DEF FlowInv
  <1>3. GroupInv /\ [Next]_vars => [\A n \in Heads : GroupStep(n)]_vars
    <2>. SUFFICES ASSUME FlowInv, NoWinnersYet, [Next]_vars, NEW n \in Heads
                  PROVE  GroupStep(n)
      OBVIOUS
    <2>1. TypeOK /\ Placed /\ OnlyGathersStrand
      BY DEF FlowInv
    <2>2. CASE ContinueAsNew
      BY <2>1, <2>2, HeadFacts, TypesHere, Restarts
    <2>3. CASE ~ContinueAsNew
      BY <2>1, <2>3, GroupDone, GroupGoesOn, GroupEnds
    <2>. QED BY <2>2, <2>3
  <1>. HIDE DEF GroupInv
  <1>. QED BY <1>1, <1>2, <1>3, PTL DEF Spec, ImplementsGroups


-----------------------------------------------------------------------------
(* Who begins to run had a slot, and is the only one of its step.          *)
LEMMA RunBegins ==
  ASSUME TypeOK, Placed, [Next]_vars, NEW b \in Nodes, phase'[b] = "run", phase[b] # "run"
  PROVE  /\ phase[b] = "queued" /\ MayBegin(b)
         /\ \A c \in Nodes : phase'[c] = "run" /\ c # b => phase[c] = "run"
  <1>0. phase \in [Nodes -> Phases]
    BY TypesHere
  <1>1. ASSUME NEW k \in Nodes, NEW v, Turn(k, v)
        PROVE  b = k /\ phase[b] = "queued" /\ MayBegin(b) /\ \A c \in Nodes : c # b => phase'[c] = phase[c]
    BY <1>0, <1>1 DEF Turn
  <1>2. ASSUME NEW k \in Nodes, NEW B, Launch(k, B)
        PROVE  /\ b = k /\ phase[b] = "queued" /\ MayBegin(b)
               /\ \A c \in Nodes : c # b => phase'[c] \in {phase[c], "queued"}
    BY <1>0, <1>2 DEF Launch
  <1>3. ASSUME NEW k \in Nodes, Settle(k) \/ GiveUp(k)
        PROVE  FALSE
    <2>1. PICK out \in {"ok", "fail"} : \E won : Stops(k, out, won)
      BY <1>3 DEF Settle, GiveUp, Outcomes
    <2>. QED BY <2>1 DEF Stops
  <1>4. ~Cancel /\ ~ContinueAsNew /\ ~UNCHANGED phase
    BY DEF Cancel, ContinueAsNew
  <1>5. ~Boot
    BY <1>0 DEF Boot
  <1>. QED BY <1>1, <1>2, <1>3, <1>4, <1>5, StepKinds DEF Works

LEMMA SlotsNext ==
  ASSUME TypeOK, Placed, SlotsKept, [Next]_vars
  PROVE  SlotsKept'
  <1>0. prog' = prog /\ prog \in Programs /\ prog' \in Programs /\ MaxParallel \in Nat
    BY StepKinds, TypesHere, InterpreterAssumption
  <1>. SUFFICES ASSUME NEW n \in Alone, Op(n) \in {"all", "each"}
                PROVE  Cardinality(At(n, "run")') <= MaxParallel
    BY <1>0, SameTree DEF SlotsKept
  <1>. DEFINE old == At(n, "run")
              new == {i \in 1..Len(Branches(n)) : phase'[Branches(n)[i]] = "run"}
  <1>1. /\ old = {i \in 1..Len(Branches(n)) : phase[Branches(n)[i]] = "run"}
        /\ IsFiniteSet(old) /\ Cardinality(old) \in Nat
    BY <1>0, AtFacts
  <1>2. At(n, "run")' = new
    <2>1. DOMAIN Branches(n) = 1..Len(Branches(n))
      BY <1>0, BranchFacts
    <2>. QED BY <1>0, <2>1, SameTree DEF At
  <1>3. /\ \A i \in 1..Len(Branches(n)) : Branches(n)[i] \in Nodes /\ Branches(n)[i] \in BranchSet(n)
        /\ \A i, j \in 1..Len(Branches(n)) : Branches(n)[i] = Branches(n)[j] => i = j
    BY <1>0, BranchFacts
  <1>4. Cardinality(old) <= MaxParallel
    BY DEF SlotsKept
  <1>5. CASE new \subseteq old
    <2>. HIDE DEF old, new
    <2>1. Cardinality(new) <= Cardinality(old) /\ Cardinality(new) \in Nat
      BY <1>1, <1>5, FS_Subset, FS_CardinalityType
    <2>. QED BY <1>0, <1>1, <1>2, <1>4, <2>1
  <1>6. CASE ~(new \subseteq old)
    <2>1. PICK i \in 1..Len(Branches(n)) : /\ phase'[Branches(n)[i]] = "run"
                                           /\ phase[Branches(n)[i]] # "run"
      BY <1>1, <1>6
    <2>. DEFINE b == Branches(n)[i]
    <2>2. /\ phase[b] = "queued" /\ MayBegin(b)
          /\ \A c \in Nodes : phase'[c] = "run" /\ c # b => phase[c] = "run"
      BY <1>3, <2>1, RunBegins
    <2>3. Cardinality(old) < MaxParallel
      <3>1. b \in Launched(n) /\ phase[n] # "idle" /\ n \in Nodes
        BY <1>3, <2>2 DEF Launched, Placed, Alone
      <3>. QED BY <2>2, <3>1 DEF MayBegin, Slots
    <2>4. new \subseteq old \cup {i} /\ i \notin old
      BY <1>1, <1>3, <2>1, <2>2
    <2>. HIDE DEF old, new
    <2>5. Cardinality(old \cup {i}) = Cardinality(old) + 1 /\ IsFiniteSet(old \cup {i})
      <3>1. IsFiniteSet(old) /\ i \notin old
        BY <1>1, <2>4
      <3>. QED BY <3>1, FS_AddElement
    <2>6. Cardinality(new) <= Cardinality(old \cup {i}) /\ Cardinality(new) \in Nat
      BY <2>4, <2>5, FS_Subset, FS_CardinalityType
    <2>. QED BY <1>0, <1>1, <1>2, <2>3, <2>5, <2>6
  <1>. QED BY <1>5, <1>6

-----------------------------------------------------------------------------
LEMMA IntervalCount ==
  ASSUME NEW a \in Nat, NEW b \in Nat
  PROVE  /\ IsFiniteSet(a..b)
         /\ Cardinality(a..b) = IF a > b THEN 0 ELSE b - a + 1
  <1>1. a \in Int /\ b \in Int
    OBVIOUS
  <1>2. IsFiniteSet(a..b)
    BY <1>1, FS_Interval, Zenon
  <1>3. Cardinality(a..b) = IF a > b THEN 0 ELSE b - a + 1
    BY <1>1, FS_Interval, Zenon
  <1>. QED BY <1>2, <1>3

(* The first w of the numbers after e.                                     *)
LEMMA FirstOfRest ==
  ASSUME NEW e \in Nat, NEW l \in Nat, NEW w \in Nat, NEW rest, rest = {i \in 1..l : i > e}
  PROVE  First(w, rest) = {i \in 1..l : i > e /\ i <= e + w}
  <1>1. ASSUME NEW i \in 1..l, i > e
        PROVE  Cardinality({j \in rest : j < i}) = i - 1 - e
    <2>. DEFINE less == {j \in rest : j < i}
    <2>1. less = (e + 1)..(i - 1)
      <3>1. ASSUME NEW j \in {j \in rest : j < i} PROVE j \in (e + 1)..(i - 1)
        <4>1. j \in 1..l /\ j > e /\ j < i
          OBVIOUS
        <4>. QED BY <4>1
      <3>2. ASSUME NEW j \in (e + 1)..(i - 1) PROVE j \in {j2 \in rest : j2 < i}
        <4>1. j \in 1..l /\ j > e /\ j < i
          BY <1>1
        <4>. QED BY <4>1
      <3>. QED BY <3>1, <3>2
    <2>2. e + 1 \in Nat /\ i - 1 \in Nat
      BY <1>1
    <2>3. Cardinality((e + 1)..(i - 1)) = IF e + 1 > i - 1 THEN 0 ELSE (i - 1) - (e + 1) + 1
      BY <2>2, IntervalCount
    <2>4. i \in Nat /\ i - 1 \in Nat /\ e + 1 \in Nat /\ i >= e + 1
      BY <1>1
    <2>5. Cardinality(less) = i - 1 - e
      <3>. HIDE DEF less
      <3>. QED BY <2>1, <2>3, <2>4
    <2>. QED BY <2>5
  <1>2. ASSUME NEW i \in rest
        PROVE  Cardinality({j \in rest : j < i}) < w <=> i <= e + w
    <2>1. i \in 1..l /\ i > e
      OBVIOUS
    <2>2. Cardinality({j \in rest : j < i}) = i - 1 - e
      BY <1>1, <2>1
    <2>. QED BY <2>1, <2>2
  <1>. QED BY <1>2 DEF First

(* An each starts its items wave by wave.                                  *)
LEMMA WavesNext ==
  ASSUME TypeOK, Placed, InWaves, [Next]_vars
  PROVE  InWaves'
  <1>0. prog' = prog /\ prog \in Programs /\ prog \in [Nodes -> NodeRecord]
        /\ phase \in [Nodes -> Phases]
    BY StepKinds, TypesHere
  <1>. DEFINE Later(n, e) ==
         \A i \in 1..Len(Branches(n)) :
           /\ phase'[Branches(n)[i]] # "idle" <=> i <= e
           /\ i + prog[n].wave <= e => phase'[Branches(n)[i]] = "ok"
  <1>. SUFFICES ASSUME NEW n \in Alone, Op(n) = "each"
                PROVE  \E q \in Nat : Later(n, q * prog[n].wave)
    <2>1. \A n \in Alone : DOMAIN Branches(n) = 1..Len(Branches(n))
      BY <1>0, BranchFacts
    <2>2. \A n \in Alone : \A e : Later(n, e) <=> WaveAt(n, e)'
      BY <1>0, <2>1, SameTree DEF WaveAt
    <2>3. \A n \in Alone' : Op(n)' = "each" => \E q \in Nat : WaveAt(n, q * prog[n].wave)'
      <3>. HIDE DEF Later
      <3>. QED BY <1>0, <2>2, SameTree
    <2>. QED BY <1>0, <2>3 DEF InWaves
  <1>. DEFINE w == prog[n].wave
              all == Branches(n)
              l == Len(all)
  <1>1. w \in Nat \ {0} /\ n \in Nodes
    BY <1>0 DEF NodeRecord, Alone
  <1>2. /\ l \in Nat /\ DOMAIN all = 1..l
        /\ \A i \in 1..l : all[i] \in BranchSet(n) /\ all[i] \in Nodes
        /\ \A i, j \in 1..l : all[i] = all[j] => i = j
    BY <1>0, BranchFacts
  <1>3. PICK q \in Nat : WaveAt(n, q * w)
    BY DEF InWaves
  <1>. DEFINE e == q * w
  <1>4. e \in Nat
    BY <1>1
  <1>5. \A i \in 1..l : /\ phase[all[i]] # "idle" <=> i <= e
                        /\ i + w <= e => phase[all[i]] = "ok"
    BY <1>2, <1>3 DEF WaveAt
  <1>6. CASE ContinueAsNew
    <2>1. \A i \in 1..l : phase'[all[i]] = "idle"
      BY <1>2, <1>6 DEF ContinueAsNew
    <2>2. \A i \in 1..l : ~(i <= 0 * w) /\ ~(i + w <= 0 * w)
      BY <1>1
    <2>3. Later(n, 0 * w)
      BY <2>1, <2>2
    <2>. QED BY <2>3
  <1>7. CASE ~ContinueAsNew /\ \E B \in SUBSET Nodes : Launch(n, B)
    <2>1. PICK B \in SUBSET Nodes : Launch(n, B)
      BY <1>7
    <2>2. B = NextWave(n) /\ \A b \in Launched(n) : phase[b] = "ok"
      <3>1. phase[n] = "queued" => Launched(n) = {}
        BY DEF Placed, Launched
      <3>. QED BY <2>1, <3>1 DEF Launch, Races
    <2>3. At(n, "idle") = {i \in 1..l : i > e}
      <3>1. At(n, "idle") = {i \in 1..l : phase[all[i]] = "idle"}
        BY <1>0, AtFacts
      <3>2. \A i \in 1..l : phase[all[i]] = "idle" <=> i > e
        BY <1>4, <1>5
      <3>. QED BY <3>1, <3>2
    <2>4. First(w, At(n, "idle")) = {i \in 1..l : i > e /\ i <= e + w}
      <3>. HIDE DEF w, l, e
      <3>. QED BY <1>1, <1>2, <1>4, <2>3, FirstOfRest
    <2>5. Wave(n) = w
      BY DEF Wave
    <2>6. \A i \in 1..l : all[i] \in B <=> i > e /\ i <= e + w
      <3>1. B = {all[i] : i \in {i \in 1..l : i > e /\ i <= e + w}}
        BY <2>2, <2>4, <2>5 DEF NextWave, Those
      <3>. HIDE DEF all, l, e, w
      <3>. QED BY <1>2, <3>1
    <2>7. \A i \in 1..l : phase'[all[i]] = IF all[i] = n THEN "run" ELSE IF all[i] \in B THEN "queued"
                                            ELSE phase[all[i]]
      BY <1>2, <2>1 DEF Launch
    <2>8. \A i \in 1..l : all[i] # n
      BY <1>0, <1>2, NotItself
    <2>9. \A i \in 1..l : /\ phase'[all[i]] # "idle" <=> i <= e + w
                          /\ i + w <= e + w => phase'[all[i]] = "ok"
      <3>. TAKE i \in 1..l
      <3>1. CASE i <= e
        <4>1. phase[all[i]] # "idle" /\ all[i] \in Launched(n)
          BY <1>2, <1>5, <3>1 DEF Launched
        <4>2. phase'[all[i]] = "ok"
          BY <1>4, <2>2, <2>6, <2>7, <2>8, <3>1, <4>1
        <4>. QED BY <1>1, <1>4, <3>1, <4>2
      <3>2. CASE i > e /\ i <= e + w
        <4>1. phase'[all[i]] = "queued"
          BY <2>6, <2>7, <2>8, <3>2
        <4>. QED BY <1>1, <1>4, <3>2, <4>1
      <3>3. CASE i > e + w
        <4>1. phase'[all[i]] = "idle"
          <5>1. ~(i <= e) /\ ~(i > e /\ i <= e + w)
            BY <1>1, <1>4, <3>3
          <5>2. phase[all[i]] = "idle" /\ all[i] \notin B /\ all[i] # n
            BY <1>5, <2>6, <2>8, <5>1
          <5>. QED BY <2>7, <5>2
        <4>. QED BY <1>1, <1>4, <3>3, <4>1
      <3>. QED BY <1>1, <1>4, <3>1, <3>2, <3>3
    <2>10. (q + 1) * w = e + w /\ q + 1 \in Nat
      <3>1. w \in Nat
        BY <1>1
      <3>. HIDE DEF w
      <3>. QED BY <3>1
    <2>11. Later(n, (q + 1) * w)
      <3>. HIDE DEF e
      <3>. QED BY <2>9, <2>10
    <2>. QED BY <2>10, <2>11
  <1>8. CASE ~ContinueAsNew /\ ~(\E B \in SUBSET Nodes : Launch(n, B))
    <2>1. \A b \in BranchSet(n) : phase[b] = "idle" => phase'[b] = "idle"
      BY <1>8, BranchBegins
    <2>2. \A b \in Nodes : /\ phase'[b] = "idle" => phase[b] = "idle"
                           /\ phase[b] = "ok" => phase'[b] = "ok"
      BY <1>8, PhaseMoves
    <2>3. Later(n, e)
      BY <1>2, <1>5, <2>1, <2>2
    <2>. QED BY <2>3
  <1>. QED BY <1>6, <1>7, <1>8

-----------------------------------------------------------------------------
LEMMA SmallQuotient ==
  ASSUME NEW w \in Nat \ {0}, NEW x \in Nat
  PROVE  /\ x \div w \in Nat
         /\ (x \div w) * w <= x /\ x < (x \div w) * w + w
  OBVIOUS

LEMMA BelowMultiple ==
  ASSUME NEW w \in Nat \ {0}, NEW x \in Nat, NEW q \in Nat
  PROVE  x < q * w <=> x \div w < q
  <1>. DEFINE d == x \div w
  <1>1. d \in Nat /\ d * w <= x /\ x < d * w + w
    BY SmallQuotient
  <1>. HIDE DEF d
  <1>2. ASSUME d < q PROVE x < q * w
    <2>1. PICK r \in Nat : q = d + 1 + r
      <3>1. q - d - 1 \in Nat /\ q = d + 1 + (q - d - 1)
        BY <1>1, <1>2
      <3>. QED BY <3>1
    <2>2. q * w = d * w + w + r * w /\ r * w \in Nat /\ d * w \in Nat
      BY <1>1, <2>1
    <2>. QED BY <1>1, <2>2
  <1>3. ASSUME ~(d < q) PROVE ~(x < q * w)
    <2>1. PICK r \in Nat : d = q + r
      <3>1. d - q \in Nat /\ d = q + (d - q)
        BY <1>1, <1>3
      <3>. QED BY <3>1
    <2>2. d * w = q * w + r * w /\ r * w \in Nat /\ q * w \in Nat
      BY <1>1, <2>1
    <2>. QED BY <1>1, <2>2
  <1>. QED BY <1>2, <1>3 DEF d

(* Tasks that run and tasks that wait are different ones.                  *)
LEMMA InFlight ==
  ASSUME TypeOK, NEW n \in Alone, NEW a \in Nat, NEW b \in Nat, a <= b + 1,
         \A i \in 1..Len(Branches(n)) : phase[Branches(n)[i]] \in Unfinished => a <= i /\ i <= b
  PROVE  Cardinality(At(n, "run")) + Cardinality(At(n, "queued")) <= b - a + 1
  <1>. DEFINE R == At(n, "run")
              Q == At(n, "queued")
  <1>1. /\ R = {i \in 1..Len(Branches(n)) : phase[Branches(n)[i]] = "run"}
        /\ Q = {i \in 1..Len(Branches(n)) : phase[Branches(n)[i]] = "queued"}
        /\ IsFiniteSet(R) /\ IsFiniteSet(Q) /\ Cardinality(R) \in Nat /\ Cardinality(Q) \in Nat
    BY TypesHere, AtFacts
  <1>2. R \cap Q = {}
    BY <1>1
  <1>3. R \cup Q \subseteq a..b
    <2>. SUFFICES ASSUME NEW i \in R \cup Q PROVE i \in a..b
      OBVIOUS
    <2>1. i \in 1..Len(Branches(n)) /\ phase[Branches(n)[i]] \in Unfinished
      BY <1>1 DEF Unfinished
    <2>2. i \in Int /\ a <= i /\ i <= b
      BY <2>1
    <2>. QED BY <2>2
  <1>4. IsFiniteSet(a..b) /\ Cardinality(a..b) = b - a + 1
    <2>1. /\ IsFiniteSet(a..b)
          /\ Cardinality(a..b) = IF a > b THEN 0 ELSE b - a + 1
      BY IntervalCount
    <2>. QED BY <2>1
  <1>. HIDE DEF R, Q
  <1>5. Cardinality(R \cup Q) = Cardinality(R) + Cardinality(Q) - Cardinality(R \cap Q)
    BY <1>1, FS_Union
  <1>6. Cardinality(R \cap Q) = 0
    BY <1>2, FS_EmptySet
  <1>7. Cardinality(R \cup Q) <= Cardinality(a..b)
    BY <1>3, <1>4, FS_Subset
  <1>8. Cardinality(R) + Cardinality(Q) <= b - a + 1
    BY <1>1, <1>4, <1>5, <1>6, <1>7
  <1>. QED BY <1>8 DEF R, Q

LEMMA WavesHold ==
  ASSUME TypeOK, Placed, SlotsKept, InWaves
  PROVE  WavesRespected
  <1>. SUFFICES ASSUME NEW n \in Nodes, phase[n] # "idle", Op(n) \in {"all", "each"}
                PROVE  /\ Cardinality(At(n, "run")) <= MaxParallel
                       /\ Cardinality(At(n, "run")) + Cardinality(At(n, "queued")) <= Wave(n)
                       /\ \A i, j \in DOMAIN Branches(n) :
                            (i - 1) \div Wave(n) < (j - 1) \div Wave(n)
                              /\ phase[Branches(n)[j]] # "idle" => phase[Branches(n)[i]] = "ok"
    BY DEF WavesRespected
  <1>. DEFINE all == Branches(n)
              l == Len(all)
  <1>1. n \in Alone
    BY DEF Placed
  <1>2. /\ l \in Nat /\ DOMAIN all = 1..l /\ \A i \in 1..l : all[i] \in Nodes
        /\ prog[n].wave \in Nat \ {0}
    BY <1>1, TypesHere, BranchFacts DEF NodeRecord
  <1>3. Cardinality(At(n, "run")) <= MaxParallel
    BY <1>1 DEF SlotsKept
  <1>4. CASE Op(n) = "all"
    <2>1. Wave(n) = l
      BY <1>4 DEF Wave
    <2>2. Cardinality(At(n, "run")) + Cardinality(At(n, "queued")) <= l - 1 + 1
      <3>1. 1 \in Nat /\ l \in Nat /\ 1 <= l + 1
        BY <1>2
      <3>2. \A i \in 1..l : phase[all[i]] \in Unfinished => 1 <= i /\ i <= l
        BY <1>2
      <3>. QED BY <1>1, <3>1, <3>2, InFlight
    <2>3. ASSUME NEW i \in 1..l, NEW j \in 1..l, (i - 1) \div l < (j - 1) \div l
          PROVE  FALSE
      <3>1. l \in Nat \ {0} /\ i - 1 \in Nat /\ j - 1 \in Nat /\ j - 1 < 1 * l /\ 1 \in Nat
        BY <1>2
      <3>2. (j - 1) \div l < 1
        <4>. HIDE DEF l
        <4>. QED BY <3>1, BelowMultiple
      <3>3. (i - 1) \div l \in Nat /\ (j - 1) \div l \in Nat
        <4>. HIDE DEF l
        <4>. QED BY <3>1, SmallQuotient
      <3>. QED BY <2>3, <3>2, <3>3
    <2>. QED BY <1>2, <1>3, <2>1, <2>2, <2>3
  <1>5. CASE Op(n) = "each"
    <2>. DEFINE w == prog[n].wave
    <2>1. Wave(n) = w
      BY <1>5 DEF Wave
    <2>2. PICK q \in Nat : WaveAt(n, q * w)
      BY <1>1, <1>5 DEF InWaves
    <2>. DEFINE e == q * w
    <2>3. e \in Nat
      BY <1>2
    <2>4. \A i \in 1..l : /\ phase[all[i]] # "idle" <=> i <= e
                          /\ i + w <= e => phase[all[i]] = "ok"
      BY <1>2, <2>2 DEF WaveAt
    <2>5. Cardinality(At(n, "run")) + Cardinality(At(n, "queued")) <= w
      <3>1. CASE q = 0
        <4>1. \A i \in 1..l : phase[all[i]] = "idle"
          <5>1. e = 0
            BY <1>2, <3>1
          <5>. QED BY <2>4, <5>1
        <4>2. \A i \in 1..l : phase[all[i]] \in Unfinished => 1 <= i /\ i <= 0
          BY <4>1 DEF Unfinished
        <4>3. Cardinality(At(n, "run")) + Cardinality(At(n, "queued")) <= 0 - 1 + 1
          <5>1. 1 \in Nat /\ 0 \in Nat /\ 1 <= 0 + 1
            OBVIOUS
          <5>. QED BY <1>1, <4>2, <5>1, InFlight
        <4>4. Cardinality(At(n, "run")) \in Nat /\ Cardinality(At(n, "queued")) \in Nat
          BY <1>1, TypesHere, AtFacts
        <4>. QED BY <1>2, <4>3, <4>4
      <3>2. CASE q # 0
        <4>1. e - w \in Nat
          <5>1. q - 1 \in Nat /\ w \in Nat
            BY <1>2, <3>2
          <5>2. (q - 1) * w = q * w - w /\ (q - 1) * w \in Nat
            BY <5>1
          <5>. QED BY <5>2
        <4>2. e - w + 1 \in Nat /\ e - w + 1 <= e + 1
          <5>1. w \in Nat \ {0}
            BY <1>2
          <5>. HIDE DEF e, w
          <5>. QED BY <2>3, <4>1, <5>1
        <4>3. \A i \in 1..l : phase[all[i]] \in Unfinished => e - w + 1 <= i /\ i <= e
          <5>. TAKE i \in 1..l
          <5>. HAVE phase[all[i]] \in Unfinished
          <5>1. i \in Nat /\ w \in Nat /\ e \in Nat /\ i <= e /\ ~(i + w <= e)
            BY <1>2, <2>3, <2>4 DEF Unfinished
          <5>. HIDE DEF e, w
          <5>. QED BY <5>1
        <4>. HIDE DEF e, w
        <4>4. Cardinality(At(n, "run")) + Cardinality(At(n, "queued")) <= e - (e - w + 1) + 1
          BY <1>1, <2>3, <4>2, <4>3, InFlight
        <4>5. e - (e - w + 1) + 1 = w
          BY <1>2, <2>3 DEF w
        <4>. QED BY <4>4, <4>5
      <3>. QED BY <3>1, <3>2
    <2>6. ASSUME NEW i \in 1..l, NEW j \in 1..l, (i - 1) \div w < (j - 1) \div w,
                 phase[all[j]] # "idle"
          PROVE  phase[all[i]] = "ok"
      <3>1. i - 1 \in Nat /\ j - 1 \in Nat /\ j - 1 < q * w
        BY <1>2, <2>3, <2>4, <2>6
      <3>. HIDE DEF w
      <3>2. w \in Nat \ {0}
        BY <1>2 DEF w
      <3>3. (j - 1) \div w < q
        BY <3>1, <3>2, BelowMultiple
      <3>4. (i - 1) \div w \in Nat /\ (j - 1) \div w \in Nat
        BY <3>1, <3>2, SmallQuotient
      <3>5. q - 1 \in Nat /\ (i - 1) \div w < q - 1
        BY <2>6, <3>3, <3>4
      <3>6. i - 1 < (q - 1) * w
        BY <3>1, <3>2, <3>5, BelowMultiple
      <3>7. (q - 1) * w = q * w - w /\ (q - 1) * w \in Nat
        BY <3>2, <3>5
      <3>8. i + w <= e
        BY <3>1, <3>2, <3>6, <3>7
      <3>. QED BY <2>4, <3>8 DEF w
    <2>. QED BY <1>2, <1>3, <2>1, <2>5, <2>6
  <1>. QED BY <1>4, <1>5

(* No agent runs calls of its own.                                         *)
Agentless == \A p \in Programs : \A n \in Nodes : p[n].op # "app"

LEMMA EveryCallCounts ==
  ASSUME TypeOK, Agentless, counts = used, [Next]_vars
  PROVE  counts' = used'
  <1>1. /\ counts \in [Tools -> Nat] /\ used \in [Tools -> Nat]
        /\ \A n \in Nodes : Op(n) # "app"
    BY DEF TypeOK, Agentless, Op
  <1>2. ASSUME NEW n \in Nodes, BeginCall(n)
        PROVE  counts' = used'
    BY <1>2 DEF BeginCall
  <1>3. ASSUME NEW n \in Nodes, ChildReturns(n)
        PROVE  counts' = used'
    <2>1. Op(n) # "app"
      BY <1>1
    <2>2. counts' = counts /\ used' = used
      BY <1>1, <1>3, <2>1 DEF ChildReturns
    <2>. QED BY <2>2
  <1>4. ASSUME NEW n \in Nodes, \/ BeginLeaf(n) \/ BeginChild(n) \/ Passes(n) \/ BeginGroup(n)
                                \/ BeginAlt(n) \/ Answer(n) \/ Group(n)
        PROVE  UNCHANGED <<counts, used>>
    BY <1>4 DEF BeginLeaf, BeginChild, Passes, BeginGroup, BeginAlt, Answer, Group, WaveDone,
                WaveFails, Settle, GiveUp, TimerFires, Stops, Ends
  <1>5. CASE Interpret
    BY <1>2, <1>3, <1>4, <1>5 DEF Interpret, Evaluate, Begin
  <1>6. CASE \/ Boot \/ BootFails \/ Result \/ Closing \/ Timeouts \/ Thinks \/ Cancel \/ AtRest
             \/ \E n \in Nodes : Decide(n) \/ GateOpens(n) \/ TakesResult(n)
             \/ \E q \in asked : SubmitReasonerResult(q)
             \/ \E letter \in letters : SubmitHuman(letter)
             \/ UNCHANGED vars
    <2>1. UNCHANGED <<counts, used>>
      BY <1>6 DEF Boot, BootFails, Result, Closing, Return, ContinueAsNew, Timeouts, GateTimesOut,
                  BatchTimesOut, Thinks, ResolveQoS, InvokeReasoner, Cancel, AtRest, Decide,
                  GateOpens, TakesResult, SubmitReasonerResult, SubmitHuman, Ends, vars, interpVars
    <2>. QED BY <2>1
  <1>. QED BY <1>5, <1>6 DEF Next, Progress

LEMMA WavesInit == Init => SlotsKept /\ InWaves /\ counts = used
  <1>. SUFFICES ASSUME Init PROVE SlotsKept /\ InWaves /\ counts = used
    OBVIOUS
  <1>1. /\ prog \in Programs /\ prog \in [Nodes -> NodeRecord] /\ MaxParallel \in Nat
        /\ phase = [n \in Nodes |-> "idle"] /\ counts = used
    BY Tree, InterpreterAssumption DEF Init, InterpInit
  <1>2. ASSUME NEW n \in Alone
        PROVE  \A i \in 1..Len(Branches(n)) : phase[Branches(n)[i]] = "idle"
    BY <1>1, BranchFacts
  <1>3. ASSUME NEW n \in Alone
        PROVE  Cardinality(At(n, "run")) <= MaxParallel
    <2>1. At(n, "run") = {}
      BY <1>1, <1>2, AtFacts
    <2>. QED BY <1>1, <2>1, FS_EmptySet
  <1>4. ASSUME NEW n \in Alone
        PROVE  WaveAt(n, 0 * prog[n].wave)
    <2>1. prog[n].wave \in Nat \ {0} /\ DOMAIN Branches(n) = 1..Len(Branches(n))
      BY <1>1, BranchFacts DEF NodeRecord, Alone
    <2>2. 0 * prog[n].wave = 0
      BY <2>1
    <2>3. \A i \in 1..Len(Branches(n)) : ~(i <= 0) /\ ~(i + prog[n].wave <= 0)
      BY <2>1
    <2>. QED BY <1>2, <2>1, <2>2, <2>3 DEF WaveAt
  <1>. QED BY <1>1, <1>3, <1>4 DEF SlotsKept, InWaves

(* An each keeps to its waves and a gather to max_parallel in every flow,  *)
(* and calls to their maxCalls (LimitsKept) in flows without agents: each  *)
(* of two agents that run at once is given the whole of what is left.      *)
THEOREM FlowLimits == Spec => []WavesRespected /\ (Agentless => []LimitsKept)
  <1>. DEFINE WaveInv == FlowInv /\ SlotsKept /\ InWaves
              Inv == WaveInv /\ counts = used
  <1>1. Init => WaveInv /\ counts = used
    BY FlowInit, WavesInit
  <1>2. WaveInv /\ [Next]_vars => WaveInv'
    BY FlowNext, SlotsNext, WavesNext DEF FlowInv
  <1>3. WaveInv => WavesRespected
    BY WavesHold DEF FlowInv
  <1>4. CASE Agentless
    <2>1. Inv /\ [Next]_vars => Inv'
      BY <1>2, <1>4, EveryCallCounts DEF FlowInv
    <2>2. Inv => LimitsKept
      BY <1>3 DEF FlowInv, TypeOK, LimitsKept, CallsWithinLimit
    <2>. HIDE DEF WaveInv
    <2>. QED BY <1>1, <1>2, <1>3, <2>1, <2>2, PTL DEF Spec
  <1>5. CASE ~Agentless
    <2>. HIDE DEF WaveInv
    <2>. QED BY <1>1, <1>2, <1>3, <1>5, PTL DEF Spec
  <1>. QED BY <1>4, <1>5


-----------------------------------------------------------------------------
(* The id of a request tells the segment that asked.                       *)
IdsTell == \A a \in asked : a.id[2] = a.origin

LEMMA IdsNext ==
  ASSUME IdsTell, [Next]_vars
  PROVE  IdsTell'
  <1>1. ASSUME NEW n \in Nodes, ResolveQoS(n)
        PROVE  asked' = asked \/ asked' = asked \cup {[id |-> <<n, seg>>, origin |-> seg]}
    BY <1>1 DEF ResolveQoS, CustomId
  <1>2. ASSUME NEW n \in Nodes, asked' = asked \cup {[id |-> <<n, seg>>, origin |-> seg]}
        PROVE  IdsTell'
    BY <1>2 DEF IdsTell
  <1>3. CASE Thinks
    <2>1. ASSUME NEW n \in Nodes, InvokeReasoner(n)
          PROVE  asked' = asked
      BY <2>1 DEF InvokeReasoner, batchVars
    <2>. QED BY <1>1, <1>2, <1>3, <2>1 DEF Thinks, IdsTell
  <1>4. CASE \/ Boot \/ Interpret \/ BootFails \/ Result \/ Closing \/ Timeouts \/ Cancel \/ AtRest
             \/ \E n \in Nodes : Decide(n) \/ GateOpens(n) \/ TakesResult(n)
             \/ \E q \in asked : SubmitReasonerResult(q)
             \/ \E letter \in letters : SubmitHuman(letter)
             \/ UNCHANGED vars
    <2>1. asked' = asked
      BY <1>4 DEF Boot, Interpret, BootFails, Result, Closes, Closing, Return, ContinueAsNew,
                  Timeouts, GateTimesOut, BatchTimesOut, Cancel, AtRest, Decide, GateOpens,
                  TakesResult, SubmitReasonerResult, SubmitHuman, vars, batchVars
    <2>. QED BY <2>1 DEF IdsTell
  <1>. QED BY <1>3, <1>4 DEF Next, Progress

(* An answer of a batch reaches the think that asked for it, and no later  *)
(* one (ResultForItsQuestion).                                             *)
THEOREM AnswersReachTheirThink == Spec => ResultForItsQuestion
  <1>. DEFINE Reaches ==
         \A r \in results : \A n \in Nodes :
           Thinking(n, "batch") /\ r.id = CustomId(n) /\ r \notin results' /\ pc' = pc
             => r.origin = seg
  <1>1. Init => FlowInv /\ IdsTell
    BY FlowInit DEF Init, IdsTell
  <1>2. FlowInv /\ IdsTell /\ [Next]_vars => (FlowInv /\ IdsTell)'
    BY FlowNext, IdsNext
  <1>3. FlowInv /\ IdsTell => [Reaches]_vars
    BY DEF FlowInv, TypeOK, IdsTell, CustomId
  <1>. QED BY <1>1, <1>2, <1>3, PTL DEF Spec, ResultForItsQuestion

-----------------------------------------------------------------------------
(* What begins does so under a node that has begun; what stands before it  *)
(* in a sequence is done; and what is done has its branches done, or the   *)
(* case that an alt took.                                                  *)
Begun == {n \in Nodes : phase[n] # "idle"}

Rooted == \A n \in Begun : n = Root \/ \E k \in Begun : n \in BranchSet(k)

InOrder ==
  \A n \in Alone : Op(n) = "seq" =>
    \A i, j \in 1..Len(Branches(n)) :
      i < j /\ phase[Branches(n)[j]] # "idle" => phase[Branches(n)[i]] = "ok"

DoneInside ==
  \A n \in Alone :
    /\ Op(n) \in {"seq", "all"} /\ phase[n] = "ok" => \A b \in BranchSet(n) : phase[b] = "ok"
    /\ Op(n) = "alt" /\ phase[n] = "ok" => \E b \in BranchSet(n) : phase[b] = "ok"
    /\ Op(n) = "alt" /\ phase[n] = "run" => Launched(n) # {}

OrderInv == Rooted /\ InOrder /\ DoneInside

LEMMA RootedNext ==
  ASSUME TypeOK, Placed, Rooted, [Next]_vars
  PROVE  Rooted'
  <1>0. prog' = prog /\ prog \in Programs /\ phase \in [Nodes -> Phases]
    BY StepKinds, TypesHere
  <1>1. CASE ContinueAsNew
    <2>1. \A n \in Nodes : phase'[n] = "idle"
      BY <1>1 DEF ContinueAsNew
    <2>. QED BY <2>1 DEF Rooted, Begun
  <1>2. CASE ~ContinueAsNew
    <2>1. \A n \in Begun : n \in Begun'
      BY <1>2, PhaseMoves DEF Begun
    <2>2. ASSUME NEW n \in Nodes, phase[n] = "idle", phase'[n] # "idle"
          PROVE  n = Root \/ \E k \in Begun : n \in BranchSet(k)
      <3>1. ASSUME NEW k \in Nodes, NEW v, Turn(k, v)
            PROVE  FALSE
        BY <1>0, <2>2, <3>1 DEF Turn
      <3>2. ASSUME NEW k \in Nodes, NEW B, Launch(k, B)
            PROVE  n \in BranchSet(k) /\ k \in Begun
        BY <1>0, <2>2, <3>2 DEF Launch, Begun
      <3>3. ASSUME NEW k \in Nodes, Settle(k) \/ GiveUp(k)
            PROVE  FALSE
        <4>1. PICK out \in {"ok", "fail"} : \E won : Stops(k, out, won) /\ phase[k] = "run"
          BY <3>3 DEF Settle, GiveUp, Outcomes, Racing
        <4>2. n \in Awaited(Launched(k))
          BY <2>2, <4>1 DEF Stops
        <4>. QED BY <2>2, <4>2, AwaitedClosed DEF Tasks, Unfinished
      <3>4. ASSUME Cancel
            PROVE  FALSE
        <4>1. n \in Awaited({Root})
          BY <2>2, <3>4 DEF Cancel
        <4>. QED BY <2>2, <4>1, AwaitedClosed DEF Tasks, Unfinished
      <3>5. ASSUME Boot
            PROVE  n = Root
        BY <1>0, <2>2, <3>5 DEF Boot
      <3>6. ~UNCHANGED phase
        BY <2>2
      <3>. QED BY <1>2, <3>1, <3>2, <3>3, <3>4, <3>5, <3>6, StepKinds DEF Works
    <2>3. \A n \in Begun' : n = Root \/ \E k \in Begun : n \in BranchSet(k)
      BY <2>2 DEF Rooted, Begun
    <2>. QED BY <1>0, <2>1, <2>3, SameTree DEF Rooted
  <1>. QED BY <1>1, <1>2

(* The next of a sequence is the first that is idle.                       *)
LEMMA NextInOrder ==
  ASSUME TypeOK, NEW n \in Alone, Op(n) = "seq",
         NEW i \in 1..Len(Branches(n)), NEW j \in 1..Len(Branches(n)), i < j,
         Branches(n)[j] \in NextWave(n)
  PROVE  phase[Branches(n)[i]] # "idle"
  <1>. DEFINE l == Len(Branches(n))
              idle == At(n, "idle")
  <1>0. prog \in Programs /\ l \in Nat
        /\ \A x, y \in 1..l : Branches(n)[x] = Branches(n)[y] => x = y
    BY TypesHere, BranchFacts
  <1>1. idle = {x \in 1..l : phase[Branches(n)[x]] = "idle"}
    BY <1>0, AtFacts
  <1>2. NextWave(n) = {Branches(n)[x] : x \in First(1, idle)}
    BY DEF NextWave, Those, Wave, Groups, Races
  <1>3. j \in First(1, idle)
    <2>1. PICK x \in First(1, idle) : Branches(n)[j] = Branches(n)[x]
      BY <1>2
    <2>2. x \in 1..l
      BY <1>1, <2>1 DEF First
    <2>. QED BY <1>0, <2>1, <2>2
  <1>4. SUFFICES ASSUME phase[Branches(n)[i]] = "idle" PROVE FALSE
    OBVIOUS
  <1>. DEFINE below == {x \in idle : x < j}
  <1>5. i \in below /\ Cardinality(below) < 1
    BY <1>1, <1>3, <1>4 DEF First
  <1>6. IsFiniteSet(below)
    BY <1>0, AtFacts, FS_Subset
  <1>. HIDE DEF below
  <1>. QED BY <1>5, <1>6, FS_EmptySet, FS_CardinalityType

LEMMA InOrderNext ==
  ASSUME TypeOK, Placed, InOrder, [Next]_vars
  PROVE  InOrder'
  <1>0. prog' = prog /\ prog \in Programs /\ phase \in [Nodes -> Phases]
    BY StepKinds, TypesHere
  <1>. SUFFICES ASSUME NEW n \in Alone, Op(n) = "seq",
                       NEW i \in 1..Len(Branches(n)), NEW j \in 1..Len(Branches(n)), i < j,
                       phase'[Branches(n)[j]] # "idle"
                PROVE  phase'[Branches(n)[i]] = "ok"
    BY <1>0, SameTree DEF InOrder
  <1>. DEFINE b == Branches(n)[i]
              c == Branches(n)[j]
  <1>1. b \in BranchSet(n) /\ c \in BranchSet(n) /\ b \in Nodes /\ c \in Nodes
    BY <1>0, BranchFacts
  <1>2. ~ContinueAsNew
    BY <1>1 DEF ContinueAsNew
  <1>3. CASE phase[c] # "idle"
    BY <1>1, <1>2, <1>3, PhaseMoves DEF InOrder
  <1>4. CASE phase[c] = "idle"
    <2>1. PICK B \in SUBSET Nodes : Launch(n, B) /\ c \in B
      BY <1>1, <1>4, BranchBegins
    <2>2. phase[b] # "idle"
      BY <2>1, NextInOrder DEF Launch
    <2>3. phase[n] = "run" /\ b \in Launched(n)
      <3>1. phase[n] # "queued"
        BY <1>1, <2>2 DEF Placed
      <3>. QED BY <1>1, <2>1, <2>2, <3>1 DEF Launch, Launched
    <2>4. phase[b] = "ok"
      BY <2>1, <2>3 DEF Launch, Races
    <2>. QED BY <1>1, <1>2, <2>4, PhaseMoves
  <1>. QED BY <1>3, <1>4

LEMMA DoneInsideNext ==
  ASSUME TypeOK, Placed, DoneInside, [Next]_vars
  PROVE  DoneInside'
  <1>0. prog' = prog /\ prog \in Programs /\ phase \in [Nodes -> Phases]
    BY StepKinds, TypesHere
  <1>1. ASSUME NEW n \in Alone, ContinueAsNew
        PROVE  phase'[n] = "idle"
    BY <1>1 DEF ContinueAsNew, Alone
  <1>2. ASSUME NEW n \in Alone, phase[n] # "ok", phase'[n] = "ok", Op(n) \in {"seq", "all", "alt"}
        PROVE  AllDone(n)
    <2>0. ~ContinueAsNew /\ n \in Nodes
      BY <1>1, <1>2 DEF Alone
    <2>1. ASSUME NEW k \in Nodes, NEW v, Turn(k, v)
          PROVE  AllDone(n)
      BY <1>0, <1>2, <2>0, <2>1 DEF Turn
    <2>2. ASSUME NEW k \in Nodes, NEW B, Launch(k, B)
          PROVE  FALSE
      BY <1>0, <1>2, <2>0, <2>2 DEF Launch
    <2>3. ASSUME NEW k \in Nodes, Settle(k) \/ GiveUp(k)
          PROVE  FALSE
      BY <1>0, <1>2, <2>0, <2>3 DEF Settle, GiveUp, Racing, Races, Stops
    <2>4. ~Cancel /\ ~Boot /\ ~UNCHANGED phase
      BY <1>0, <1>2, <2>0 DEF Cancel, Boot
    <2>. QED BY <2>0, <2>1, <2>2, <2>3, <2>4, StepKinds DEF Works
  <1>3. ASSUME NEW n \in Alone, phase[n] # "run", phase'[n] = "run", Op(n) = "alt"
        PROVE  \E b \in BranchSet(n) : phase'[b] # "idle"
    <2>0. ~ContinueAsNew /\ n \in Nodes
      BY <1>1, <1>3 DEF Alone
    <2>1. ASSUME NEW k \in Nodes, NEW v, Turn(k, v)
          PROVE  FALSE
      BY <1>0, <1>3, <2>0, <2>1 DEF Turn, Leaves
    <2>2. ASSUME NEW k \in Nodes, NEW B, Launch(k, B)
          PROVE  \E b \in BranchSet(n) : phase'[b] # "idle"
      <3>1. n = k /\ B # {}
        BY <1>0, <1>3, <2>0, <2>2 DEF Launch
      <3>2. PICK b \in B : b \in BranchSet(n)
        BY <2>2, <3>1 DEF Launch
      <3>3. b \in Nodes
        BY <1>0, <3>2, BranchFacts
      <3>. QED BY <2>2, <3>1, <3>2, <3>3 DEF Launch
    <2>3. ASSUME NEW k \in Nodes, Settle(k) \/ GiveUp(k)
          PROVE  FALSE
      <3>1. PICK out \in {"ok", "fail"} : \E won : Stops(k, out, won)
        BY <2>3 DEF Settle, GiveUp, Outcomes
      <3>. QED BY <1>0, <1>3, <2>0, <3>1 DEF Stops
    <2>4. ~Cancel /\ ~Boot /\ ~UNCHANGED phase
      BY <1>0, <1>3, <2>0 DEF Cancel, Boot
    <2>. QED BY <2>0, <2>1, <2>2, <2>3, <2>4, StepKinds DEF Works
  <1>4. ASSUME NEW n \in Alone, phase'[n] # "idle", NEW b \in BranchSet(n)
        PROVE  /\ phase[b] = "ok" => phase'[b] = "ok"
               /\ phase[b] # "idle" => phase'[b] # "idle"
    <2>1. b \in Nodes /\ ~ContinueAsNew
      BY <1>0, <1>1, <1>4, BranchFacts
    <2>. QED BY <2>1, PhaseMoves
  <1>5. ASSUME NEW n \in Alone, Op(n) \in {"seq", "all"}, phase'[n] = "ok"
        PROVE  \A b \in BranchSet(n) : phase'[b] = "ok"
    <2>1. ASSUME AllDone(n), NEW b \in BranchSet(n)
          PROVE  phase[b] = "ok"
      <3>1. /\ At(n, "idle") = {i \in 1..Len(Branches(n)) : phase[Branches(n)[i]] = "idle"}
            /\ BranchSet(n) = {Branches(n)[i] : i \in 1..Len(Branches(n))}
        BY <1>0, AtFacts, BranchFacts
      <3>2. phase[b] # "idle"
        BY <1>5, <2>1, <3>1 DEF AllDone, Over
      <3>. QED BY <2>1, <3>2 DEF AllDone, Launched
    <2>2. \A b \in BranchSet(n) : phase[b] = "ok"
      BY <1>2, <1>5, <2>1 DEF DoneInside
    <2>. QED BY <1>4, <1>5, <2>2
  <1>6. ASSUME NEW n \in Alone, Op(n) = "alt", phase'[n] = "ok"
        PROVE  \E b \in BranchSet(n) : phase'[b] = "ok"
    <2>1. ASSUME AllDone(n)
          PROVE  \E b \in BranchSet(n) : phase[b] = "ok"
      BY <1>6, <2>1 DEF AllDone, DoneInside, Launched
    <2>2. \E b \in BranchSet(n) : phase[b] = "ok"
      BY <1>2, <1>6, <2>1 DEF DoneInside
    <2>. QED BY <1>4, <1>6, <2>2
  <1>7. ASSUME NEW n \in Alone, Op(n) = "alt", phase'[n] = "run"
        PROVE  \E b \in BranchSet(n) : phase'[b] # "idle"
    <2>1. CASE phase[n] = "run"
      BY <1>4, <1>7, <2>1 DEF DoneInside, Launched
    <2>. QED BY <1>3, <1>7, <2>1
  <1>. QED BY <1>0, <1>5, <1>6, <1>7, SameTree DEF DoneInside, Launched
-----------------------------------------------------------------------------
(* The sets that the checks of a deployment compute.                       *)
LEMMA WithinClosed ==
  ASSUME prog \in Programs, NEW n \in Alone
  PROVE  /\ n \in Within(prog, n) /\ Within(prog, n) \subseteq Alone
         /\ \A k \in Within(prog, n) : BranchSet(k) \subseteq Within(prog, n)
  <1>. DEFINE closed == {S \in SUBSET Nodes :
                           n \in S /\ \A k \in S : BranchSetOf(prog, k) \subseteq S}
  <1>1. Within(prog, n) = {k \in Nodes : \A S \in closed : k \in S}
    BY DEF Within
  <1>2. Alone \in closed
    <2>1. \A k \in Alone : BranchSet(k) \subseteq Alone
      BY BranchFacts
    <2>. QED BY <2>1 DEF BranchSet, Alone
  <1>3. n \in Nodes /\ \A S \in closed : n \in S
    BY DEF Alone
  <1>4. \A S \in closed : \A k \in S : BranchSet(k) \subseteq S
    BY DEF BranchSet
  <1>. HIDE DEF closed
  <1>5. Within(prog, n) \subseteq Alone
    BY <1>1, <1>2
  <1>6. ASSUME NEW k \in Within(prog, n), NEW b \in BranchSet(k)
        PROVE  b \in Within(prog, n)
    <2>1. b \in Nodes
      BY <1>5, <1>6, BranchFacts
    <2>2. \A S \in closed : b \in S
      BY <1>1, <1>4, <1>6
    <2>. QED BY <1>1, <2>1, <2>2
  <1>. QED BY <1>1, <1>3, <1>5, <1>6

LEMMA WithinWithin ==
  ASSUME prog \in Programs, NEW n \in Alone, NEW k \in Within(prog, n)
  PROVE  Within(prog, k) \subseteq Within(prog, n)
  <1>1. Within(prog, n) \in SUBSET Nodes
    BY DEF Within
  <1>2. \A x \in Within(prog, n) : BranchSetOf(prog, x) \subseteq Within(prog, n)
    BY WithinClosed DEF BranchSet
  <1>. DEFINE W == Within(prog, n)
  <1>3. W \in {S \in SUBSET Nodes : k \in S /\ \A x \in S : BranchSetOf(prog, x) \subseteq S}
    <2>1. k \in W /\ W \in SUBSET Nodes /\ \A x \in W : BranchSetOf(prog, x) \subseteq W
      BY <1>1, <1>2
    <2>. HIDE DEF W
    <2>. QED BY <2>1
  <1>4. Within(prog, k) \subseteq W
    <2>. HIDE DEF W
    <2>. QED BY <1>3 DEF Within
  <1>. QED BY <1>4

LEMMA UngatedClosed ==
  ASSUME prog \in Programs
  PROVE  /\ Root \in Ungated(prog)
         /\ \A n \in Ungated(prog) \cap Alone : \A i \in 1..Len(Branches(n)) :
              \/ Branches(n)[i] \in Ungated(prog)
              \/ Op(n) = "seq" /\ i = 2 /\ Branches(n)[1] \in always_gates(prog)
  <1>. DEFINE gates == always_gates(prog)
              walk(n) == {BranchesOf(prog, n)[i] : i \in {j \in DOMAIN BranchesOf(prog, n) :
                            ~(prog[n].op = "seq" /\ j = 2 /\ prog[n].kids[1] \in gates)}}
              closed == {S \in SUBSET Nodes : Root \in S /\ \A n \in S : walk(n) \subseteq S}
  <1>1. Ungated(prog) = {n \in Nodes : \A S \in closed : n \in S}
    BY DEF Ungated
  <1>2. Root \in Nodes /\ \A S \in closed : Root \in S
    BY Tree DEF Alone
  <1>3. ASSUME NEW n \in Ungated(prog) \cap Alone, NEW i \in 1..Len(Branches(n)),
               ~(Op(n) = "seq" /\ i = 2 /\ Branches(n)[1] \in gates)
        PROVE  Branches(n)[i] \in Ungated(prog)
    <2>1. Branches(n)[i] \in Nodes /\ i \in DOMAIN Branches(n)
      BY <1>3, BranchFacts
    <2>2. Op(n) = "seq" => Branches(n)[1] = prog[n].kids[1]
      BY DEF Branches, BranchesOf, Op, Groups, Races
    <2>3. Branches(n)[i] \in walk(n)
      <3>. HIDE DEF gates
      <3>. QED BY <1>3, <2>1, <2>2 DEF Branches, Op
    <2>4. \A S \in closed : n \in S => walk(n) \subseteq S
      OBVIOUS
    <2>. HIDE DEF closed, walk
    <2>5. \A S \in closed : Branches(n)[i] \in S
      BY <1>1, <1>3, <2>3, <2>4
    <2>. QED BY <1>1, <2>1, <2>5
  <1>4. Root \in Ungated(prog)
    <2>. HIDE DEF closed
    <2>. QED BY <1>1, <1>2
  <1>. QED BY <1>3, <1>4

(* What holds of gates and is handed on as the check says holds of all     *)
(* that it takes for gated.                                                *)
LEMMA GatesLeast ==
  ASSUME NEW S \in SUBSET Alone,
         \A n \in Alone : Gating(prog, n, S \cup (Nodes \ Alone)) => n \in S
  PROVE  always_gates(prog) \cap Alone \subseteq S
  <1>. DEFINE T == S \cup (Nodes \ Alone)
  <1>1. T \in SUBSET Nodes
    BY DEF Alone
  <1>2. \A n \in Nodes : Gating(prog, n, T) => n \in T
    OBVIOUS
  <1>3. always_gates(prog) \subseteq T
    <2>. HIDE DEF T
    <2>. QED BY <1>1, <1>2 DEF always_gates
  <1>. QED BY <1>3

(* A run begins only what its flow holds.                                  *)
LEMMA BegunWithin ==
  ASSUME TypeOK, Placed, Rooted
  PROVE  Begun \subseteq Within(prog, Root)
  <1>0. prog \in Programs /\ Root \in Alone
    BY TypesHere, Tree
  <1>. DEFINE Odd == {n \in Begun : n \notin Within(prog, Root)}
  <1>. SUFFICES ASSUME Odd # {} PROVE FALSE
    OBVIOUS
  <1>1. Odd \subseteq Alone
    BY DEF Begun, Placed
  <1>2. PICK n \in Odd : \A k \in Odd : n \notin BranchSet(k)
    <2>. HIDE DEF Odd
    <2>. QED BY <1>0, <1>1, Tree
  <1>3. n # Root
    BY <1>0, WithinClosed
  <1>4. PICK k \in Begun : n \in BranchSet(k)
    BY <1>3 DEF Rooted
  <1>5. k \in Within(prog, Root)
    BY <1>2, <1>4
  <1>6. n \in Within(prog, Root)
    BY <1>0, <1>4, <1>5, WithinClosed
  <1>. QED BY <1>6

(* A deployed flow has no gate in a branch of a race.                      *)
LEMMA NoGateRaces ==
  ASSUME prog \in deploy(Programs), NEW n \in Within(prog, Root), Op(n) \in Races,
         NEW b \in BranchSet(n), NEW g \in Within(prog, b)
  PROVE  Op(g) # "gate"
  <1>1. check_race_admission(prog) = {}
    BY DEF deploy
  <1>2. BranchAdmitted(prog, g)
    BY <1>1 DEF check_race_admission, BranchSet, Op
  <1>. QED BY <1>2 DEF BranchAdmitted, Op

(* What is done and counts as gated has passed a gate.                     *)
LEMMA GateWasPassed ==
  ASSUME TypeOK, Placed, OrderInv, prog \in deploy(Programs),
         NEW n \in Alone, n \in always_gates(prog), phase[n] = "ok"
  PROVE  \E g \in Within(prog, n) : Op(g) = "gate" /\ phase[g] = "ok"
  <1>0. prog \in Programs
    BY TypesHere
  <1>. DEFINE HasGate(k) == \E g \in Within(prog, k) : Op(g) = "gate"
              Passed(k) == \E g \in Within(prog, k) : Op(g) = "gate" /\ phase[g] = "ok"
              S == {k \in Alone : HasGate(k) /\ (phase[k] = "ok" => Passed(k))}
  <1>1. ASSUME NEW k \in Alone, NEW b \in BranchSet(k)
        PROVE  /\ b \in Alone /\ Within(prog, b) \subseteq Within(prog, k)
               /\ b \in S \cup (Nodes \ Alone) => b \in S
    <2>1. b \in Alone /\ b \in Within(prog, k)
      BY <1>0, BranchFacts, WithinClosed
    <2>. QED BY <1>0, <2>1, WithinWithin
  <1>2. ASSUME NEW k \in Alone, Op(k) = "gate"
        PROVE  k \in S
    BY <1>0, <1>2, WithinClosed
  <1>3. ASSUME NEW k \in Alone, Op(k) \in {"seq", "all"}, NEW b \in BranchSet(k), b \in S
        PROVE  k \in S
    <2>1. HasGate(k)
      BY <1>1, <1>3
    <2>2. phase[k] = "ok" => Passed(k)
      BY <1>1, <1>3 DEF OrderInv, DoneInside
    <2>. QED BY <2>1, <2>2
  <1>4. ASSUME NEW k \in Alone, Op(k) \in Races, NEW b \in BranchSet(k), b \in S
        PROVE  k \in S
    <2>1. HasGate(k)
      BY <1>1, <1>4
    <2>2. ASSUME phase[k] = "ok"
          PROVE  FALSE
      <3>1. k \in Within(prog, Root)
        BY <2>2, BegunWithin DEF OrderInv, Begun, Alone
      <3>. QED BY <1>4, <3>1, NoGateRaces
    <2>. QED BY <2>1, <2>2
  <1>5. ASSUME NEW k \in Alone, Op(k) = "alt", BranchSet(k) \subseteq S
        PROVE  k \in S
    <2>1. BranchSet(k) # {}
      <3>1. Branches(k) \in Seq(Alone \ {Root}) /\ Branches(k) # <<>>
        BY <1>0, <1>5, Tree
      <3>2. Len(Branches(k)) \in Nat \ {0}
        BY <3>1
      <3>3. Branches(k)[1] \in BranchSet(k)
        BY <1>0, <3>2, BranchFacts
      <3>. QED BY <3>3
    <2>2. HasGate(k)
      BY <1>1, <1>5, <2>1
    <2>3. phase[k] = "ok" => Passed(k)
      BY <1>1, <1>5 DEF OrderInv, DoneInside
    <2>. QED BY <2>2, <2>3
  <1>6. S \in SUBSET Alone
    OBVIOUS
  <1>. HIDE DEF S
  <1>7. \A k \in Alone : Gating(prog, k, S \cup (Nodes \ Alone)) => k \in S
    <2>. TAKE k \in Alone
    <2>. HAVE Gating(prog, k, S \cup (Nodes \ Alone))
    <2>1. CASE Op(k) = "gate"
      BY <1>2, <2>1
    <2>2. CASE Op(k) \in Groups \cup {"seq"} /\ BranchSet(k) \cap (S \cup (Nodes \ Alone)) # {}
      BY <1>1, <1>3, <1>4, <2>2 DEF Groups
    <2>3. CASE Op(k) = "alt" /\ BranchSet(k) \subseteq S \cup (Nodes \ Alone)
      <3>1. BranchSet(k) \subseteq S
        BY <1>1, <2>3
      <3>. QED BY <1>5, <2>3, <3>1
    <2>. QED BY <2>1, <2>2, <2>3 DEF Gating, Op, BranchSet
  <1>8. n \in S
    BY <1>6, <1>7, GatesLeast
  <1>. QED BY <1>8 DEF S

(* What has begun and is not walked to ungated has its gate behind it.     *)
LEMMA GateStandsBefore ==
  ASSUME TypeOK, Placed, OrderInv, prog \in deploy(Programs),
         NEW n \in Begun, n \notin Ungated(prog)
  PROVE  \E g \in Nodes : Op(g) = "gate" /\ phase[g] = "ok" /\ Precedes(g, n)
  <1>0. prog \in Programs
    BY TypesHere
  <1>. DEFINE Behind(k) == \E g \in Nodes : Op(g) = "gate" /\ phase[g] = "ok" /\ Precedes(g, k)
              Odd == {k \in Begun : k \notin Ungated(prog) /\ ~Behind(k)}
  <1>. SUFFICES ASSUME Odd # {} PROVE FALSE
    OBVIOUS
  <1>1. Odd \subseteq Alone
    BY DEF Begun, Placed
  <1>2. PICK m \in Odd : \A k \in Odd : m \notin BranchSet(k)
    <2>. HIDE DEF Odd
    <2>. QED BY <1>0, <1>1, Tree
  <1>3. PICK k \in Begun : m \in BranchSet(k)
    BY <1>0, <1>2, UngatedClosed DEF OrderInv, Rooted
  <1>4. k \in Alone /\ m \in Alone
    BY <1>1, <1>2 DEF Begun, Placed
  <1>5. CASE Behind(k)
    <2>1. PICK g \in Nodes : Op(g) = "gate" /\ phase[g] = "ok" /\ Precedes(g, k)
      BY <1>5
    <2>2. PICK s \in Nodes : /\ Op(s) = "seq"
                             /\ \E i, j \in DOMAIN Branches(s) :
                                  /\ i < j /\ g \in Within(prog, Branches(s)[i])
                                  /\ k \in Within(prog, Branches(s)[j])
      BY <2>1 DEF Precedes
    <2>3. PICK i, j \in DOMAIN Branches(s) :
            i < j /\ g \in Within(prog, Branches(s)[i]) /\ k \in Within(prog, Branches(s)[j])
      BY <2>2
    <2>4. s \in Alone
      BY <2>2 DEF Alone, Inner, Op, Groups, Races
    <2>5. Branches(s)[j] \in Alone
      BY <1>0, <2>3, <2>4, BranchFacts
    <2>6. m \in Within(prog, Branches(s)[j])
      BY <1>0, <1>3, <2>3, <2>5, WithinClosed
    <2>7. Precedes(g, m)
      BY <2>2, <2>3, <2>6 DEF Precedes
    <2>. QED BY <1>2, <2>1, <2>7
  <1>6. CASE ~Behind(k)
    <2>1. k \in Ungated(prog)
      BY <1>2, <1>3, <1>6
    <2>2. PICK j \in 1..Len(Branches(k)) : m = Branches(k)[j]
      BY <1>0, <1>3, <1>4, BranchFacts
    <2>3. Op(k) = "seq" /\ j = 2 /\ Branches(k)[1] \in always_gates(prog)
      BY <1>0, <1>2, <1>4, <2>1, <2>2, UngatedClosed
    <2>4. 1 \in 1..Len(Branches(k)) /\ 2 \in 1..Len(Branches(k))
      BY <1>0, <1>4, <2>2, <2>3, BranchFacts
    <2>5. phase[Branches(k)[1]] = "ok" /\ Branches(k)[1] \in Alone
      <3>1. phase[m] # "idle"
        BY <1>2 DEF Begun
      <3>. QED BY <1>0, <1>4, <2>2, <2>3, <2>4, <3>1, BranchFacts DEF OrderInv, InOrder
    <2>6. PICK g \in Within(prog, Branches(k)[1]) : Op(g) = "gate" /\ phase[g] = "ok"
      BY <2>3, <2>5, GateWasPassed
    <2>7. Precedes(g, m)
      <3>1. m \in Within(prog, Branches(k)[2]) /\ k \in Nodes
        BY <1>0, <1>4, <2>2, <2>3, WithinClosed DEF Alone
      <3>2. DOMAIN Branches(k) = 1..Len(Branches(k))
        BY <1>0, <1>4, BranchFacts
      <3>. QED BY <2>3, <2>4, <2>6, <3>1, <3>2 DEF Precedes
    <2>8. g \in Nodes
      BY <2>6 DEF Within
    <2>. QED BY <1>2, <2>6, <2>7, <2>8
  <1>. QED BY <1>5, <1>6

(* In a deployed flow a call that needs an approval begins only when a gate*)
(* that stands before it in a sequence is done, for any flow, however its  *)
(* races, timeouts and cancellations go.                                   *)
THEOREM ApprovalsComeFirst == Spec => [](prog \in deploy(Programs) => ApprovalFirst)
  <1>. DEFINE Inv == FlowInv /\ OrderInv
  <1>1. Init => Inv
    <2>. SUFFICES ASSUME Init PROVE OrderInv
      BY FlowInit
    <2>1. \A n \in Nodes : phase[n] = "idle"
      BY DEF Init, InterpInit
    <2>2. prog \in Programs
      BY DEF Init, InterpInit
    <2>3. \A n \in Alone : BranchSet(n) \subseteq Nodes /\ n \in Nodes
      BY <2>2, BranchFacts DEF Alone
    <2>4. \A n \in Alone : \A j \in 1..Len(Branches(n)) : Branches(n)[j] \in Nodes
      BY <2>2, <2>3, BranchFacts
    <2>. QED BY <2>1, <2>3, <2>4 DEF OrderInv, Rooted, Begun, InOrder, DoneInside
  <1>2. Inv /\ [Next]_vars => Inv'
    BY FlowNext, RootedNext, InOrderNext, DoneInsideNext DEF FlowInv, OrderInv
  <1>3. Inv => (prog \in deploy(Programs) => ApprovalFirst)
    <2>. SUFFICES ASSUME Inv, prog \in deploy(Programs),
                         NEW n \in Nodes, approval_required(prog, n), phase[n] \in {"run", "ok"}
                  PROVE  \E g \in Nodes : Op(g) = "gate" /\ phase[g] = "ok" /\ Precedes(g, n)
      BY DEF ApprovalFirst
    <2>1. n \in Begun
      BY DEF Begun
    <2>2. n \notin Ungated(prog)
      BY DEF deploy, check_approval_gates
    <2>. QED BY <2>1, <2>2, GateStandsBefore DEF FlowInv
  <1>. HIDE DEF Inv
  <1>. QED BY <1>1, <1>2, <1>3, PTL DEF Spec
=============================================================================
