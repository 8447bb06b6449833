---------------------------- MODULE Interpreter ----------------------------
(***************************************************************************)
(* The evaluation of one frozen flow (execution/interpreter.py) as a       *)
(* Temporal run performs it: a tree of nodes, each an interpret() call,    *)
(* with the tasks that par, race and each make for their branches.         *)
(*                                                                         *)
(* A step is the entry to or the exit from one interpret() call, or what a *)
(* group does when it wakes.  Steps that the code takes without an await   *)
(* between them may be interleaved here.  Each body of an each or an       *)
(* iter_up_to is a node of its own.                                        *)
(***************************************************************************)
EXTENDS Integers, Sequences, FiniteSets, SequencesExt

CONSTANTS
  Nodes,        \* every node of every program
  Root,         \* the node a program starts with
  Programs,     \* the flows: Nodes -> [op, kids, m, wave, late, fold, tool]
  Tools,        \* what calls call
  CallLimit,    \* tool -> its maxCalls
  MaxParallel   \* ExecutionPolicy.max_parallel

VARIABLES
  prog,         \* the flow of this run
  phase,        \* node -> how far its interpret() is
  seed,         \* node -> the call count its child workflow started with
  winners,      \* race group -> the branches whose results it took
  counts,       \* _call_counts
  used          \* history: calls that the run and its agents have begun

interpVars == <<prog, phase, seed, winners, counts, used>>

Races  == {"race", "hedge", "quorum"}
Groups == Races \cup {"all"}
Leaves == {"pure", "call", "think", "gate", "app", "sub"}
Phases == {"idle", "queued", "run", "ok", "fail", "gone"}
Unfinished == {"queued", "run"}

Op(n) == prog[n].op

(* par is binary in the IR: a group is the chain of par nodes of one merge *)
(* kind, of whatever depth.                                                *)
Flat(p, n) ==
  LET flatten[k \in Nodes] ==
        IF p[k].op = p[n].op THEN flatten[p[k].kids[1]] \o flatten[p[k].kids[2]] ELSE <<k>>
  IN  flatten[n]

BranchesOf(p, n) == IF p[n].op \in Groups THEN Flat(p, n) ELSE p[n].kids
BranchSetOf(p, n) == Range(BranchesOf(p, n))

(* The par nodes that are flattened into another.                          *)
Inner(p) ==
  {n \in Nodes : p[n].op \in Groups /\ \E k \in Nodes : p[k].op = p[n].op /\ Contains(p[k].kids, n)}

NodeRecord ==
  [op : Leaves \cup Groups \cup {"seq", "alt", "each", "iter"}, kids : Seq(Nodes),
   m : Nat \ {0}, wave : Nat \ {0}, late : BOOLEAN, fold : BOOLEAN, tool : Tools]

(* A frozen flow is a tree: what interpret() is called for is a branch of  *)
(* one node, once, and nothing is below itself.  An alt has a case.        *)
IsFlow(p) ==
  LET evaluated == Nodes \ Inner(p)
  IN  /\ p \in [Nodes -> NodeRecord]
      /\ Root \in evaluated
      /\ \A n \in evaluated :
           /\ BranchesOf(p, n) \in Seq(evaluated \ {Root})
           /\ IsInjective(BranchesOf(p, n))
           /\ p[n].op \in Leaves => p[n].kids = <<>>
           /\ p[n].op = "alt" => p[n].kids # <<>>
           /\ \A k \in evaluated \ {n} : BranchSetOf(p, n) \cap BranchSetOf(p, k) = {}
      /\ \A S \in SUBSET evaluated :
           S # {} => \E n \in S : \A k \in S : n \notin BranchSetOf(p, k)

ASSUME InterpreterAssumption ==
  /\ \A p \in Programs : IsFlow(p)
  /\ CallLimit \in [Tools -> Nat] /\ MaxParallel \in Nat \ {0}

Branches(n)  == BranchesOf(prog, n)
BranchSet(n) == BranchSetOf(prog, n)
Launched(n)  == {b \in BranchSet(n) : phase[b] # "idle"}

(* The positions of a node's branches in a phase, and the first k of some. *)
At(n, state) == LET all == Branches(n) IN {i \in DOMAIN all : phase[all[i]] = state}
First(k, at) == {i \in at : Cardinality({j \in at : j < i}) < k}
Those(n, at) == LET all == Branches(n) IN {all[i] : i \in at}

Need(n) == IF Op(n) = "quorum" THEN prog[n].m ELSE 1

(* How many branches a node starts at a time: those of one gather, one     *)
(* wave of an each, the members of a sequence one by one.                  *)
Wave(n) ==
  CASE Op(n) \in {"all", "race", "quorum"} -> Len(Branches(n))
    [] Op(n) = "each"  -> prog[n].wave
    [] Op(n) = "hedge" -> IF prog[n].late THEN 1 ELSE Len(Branches(n))
    [] OTHER           -> 1

NextWave(n) == Those(n, First(Wave(n), At(n, "idle")))

(* Mutant: only the tasks themselves are cancelled.                        *)
AwaitedDirectly(from) == {n \in from : phase[n] \in Unfinished}

(* A task that is cancelled cancels what it awaits, and only that.         *)
Tasks == {n \in Nodes : phase[n] \in Unfinished}
Awaited(from) ==
  LET closed == {S \in SUBSET Tasks :
                   /\ from \cap Tasks \subseteq S
                   /\ \A n \in S : BranchSet(n) \cap Tasks \subseteq S}
  IN  {n \in Tasks : \A S \in closed : n \in S}

InterpInit ==
  /\ prog \in Programs
  /\ phase = [n \in Nodes |-> "idle"]
  /\ seed = [n \in Nodes |-> 0]
  /\ winners = [n \in Nodes |-> {}]
  /\ counts = [t \in Tools |-> 0]
  /\ used = [t \in Tools |-> 0]

------------------------------------------------------------------------------
(* interpret(): planned on entry, did or failed on exit                    *)

Ends(n, out) ==
  /\ phase' = [phase EXCEPT ![n] = out]
  /\ UNCHANGED <<prog, seed, winners>>

Outcomes(mayFail) == IF mayFail THEN {"ok", "fail"} ELSE {"ok"}

(* Tasks begin in the order they were made; a gather lets no more than     *)
(* max_parallel of its branches be between entry and exit.                 *)
Slots(p) == IF Op(p) \in {"all", "each"} THEN MaxParallel ELSE Cardinality(Nodes)

MayBegin(n) ==
  /\ phase[n] = "queued"
  /\ \A p \in Nodes : n \in Launched(p) /\ phase[p] # "idle" =>
       /\ n \in Those(p, First(1, At(p, "queued")))
       /\ Cardinality(At(p, "run")) < Slots(p)

Full(t) == counts[t] >= CallLimit[t]

Enters(n) ==
  /\ MayBegin(n)
  /\ phase' = [phase EXCEPT ![n] = "run"]
  /\ UNCHANGED <<prog, winners>>

BeginLeaf(n) ==
  /\ Op(n) \in {"think", "gate"}
  /\ Enters(n)
  /\ UNCHANGED <<seed, counts, used>>

BeginChild(n) ==
  /\ Op(n) \in {"app", "sub"}
  /\ Enters(n)
  /\ seed' = [seed EXCEPT ![n] = counts[prog[n].tool]]
  /\ UNCHANGED <<counts, used>>

BeginCall(n) ==
  /\ Op(n) = "call"
  /\ ~Full(prog[n].tool)
  /\ Enters(n)
  /\ counts' = [counts EXCEPT ![prog[n].tool] = @ + 1]
  /\ used' = [used EXCEPT ![prog[n].tool] = @ + 1]
  /\ UNCHANGED seed

(* Entry and exit in one step: a call over its limit, a pure, an each of   *)
(* no items.                                                               *)
Passes(n) ==
  /\ MayBegin(n)
  /\ \E out \in {"ok", "fail"} :
       /\ \/ Op(n) = "call" /\ Full(prog[n].tool) /\ out = "fail"
          \/ Op(n) = "pure"
          \/ Op(n) = "each" /\ Branches(n) = <<>> /\ out \in Outcomes(prog[n].fold)
       /\ phase' = [phase EXCEPT ![n] = out]
  /\ UNCHANGED <<prog, seed, winners, counts, used>>

BeginGroup(n) ==
  /\ Op(n) \notin Leaves \cup {"alt"}
  /\ Branches(n) # <<>>
  /\ MayBegin(n)
  /\ phase' = [k \in Nodes |-> IF k = n THEN "run"
                               ELSE IF k \in NextWave(n) THEN "queued" ELSE phase[k]]
  /\ UNCHANGED <<prog, seed, winners, counts, used>>

(* An alt picks one case, or finds none.                                   *)
BeginAlt(n) ==
  /\ Op(n) = "alt"
  /\ MayBegin(n)
  /\ \/ \E b \in BranchSet(n) : phase' = [phase EXCEPT ![n] = "run", ![b] = "queued"]
     \/ phase' = [phase EXCEPT ![n] = "fail"]
  /\ UNCHANGED <<prog, seed, winners, counts, used>>

Answer(n) ==
  /\ phase[n] = "run" /\ Op(n) = "call"
  /\ \E out \in {"ok", "fail"} : Ends(n, out)
  /\ UNCHANGED <<counts, used>>

(* A sub-flow or agent made calls of its own, up to the limit less the     *)
(* count it was given.  Only what an agent that succeeded counted comes    *)
(* back.                                                                   *)
ChildReturns(n) ==
  LET t == prog[n].tool IN
  /\ phase[n] = "run" /\ Op(n) \in {"app", "sub"}
  /\ \E out \in {"ok", "fail"}, k \in 0..(CallLimit[t] - seed[n]) :
       /\ Ends(n, out)
       /\ used' = [used EXCEPT ![t] = IF Op(n) = "app" THEN @ + k ELSE @]
       /\ counts' = [counts EXCEPT ![t] =
                       IF Op(n) = "app" /\ out = "ok" /\ seed[n] + k > @ THEN seed[n] + k ELSE @]

------------------------------------------------------------------------------
(* seq, alt, iter_up_to, each and par with merge "all"                     *)

Waves(n) == phase[n] = "run" /\ Op(n) \notin Races \cup Leaves

Over(n) ==
  \/ At(n, "idle") = {}
  \/ Op(n) = "alt"

(* Mutant: the next wave starts with the first item that is done.          *)
WaveDoneEarly(n) ==
  /\ Waves(n)
  /\ \E b \in Launched(n) : phase[b] = "ok"
  /\ ~Over(n)
  /\ phase' = [k \in Nodes |-> IF k \in NextWave(n) THEN "queued" ELSE phase[k]]
  /\ UNCHANGED <<prog, seed, winners, counts, used>>

WaveDone(n) ==
  /\ Waves(n)
  /\ \A b \in Launched(n) : phase[b] = "ok"
  /\ \/ /\ Over(n) \/ Op(n) = "iter"
        /\ \E out \in Outcomes(prog[n].fold) : Ends(n, out)
     \/ /\ ~Over(n)
        /\ phase' = [k \in Nodes |-> IF k \in NextWave(n) THEN "queued" ELSE phase[k]]
        /\ UNCHANGED <<prog, seed, winners>>
  /\ UNCHANGED <<counts, used>>

(* The first failure of a gather is raised; its other tasks go on.         *)
WaveFails(n) ==
  /\ Waves(n)
  /\ \E b \in Launched(n) : phase[b] = "fail"
  /\ Ends(n, "fail")
  /\ UNCHANGED <<counts, used>>

------------------------------------------------------------------------------
(* race_first_from_thunks                                                  *)

Stops(n, out, won) ==
  /\ LET losers == Awaited(Launched(n))
     IN  phase' = [k \in Nodes |-> IF k = n THEN out ELSE IF k \in losers THEN "gone" ELSE phase[k]]
  /\ winners' = [winners EXCEPT ![n] = won]
  /\ UNCHANGED <<prog, seed, counts, used>>

Racing(n) == phase[n] = "run" /\ Op(n) \in Races

(* The lowest branches that are known to have succeeded win.               *)
Settle(n) ==
  /\ Racing(n)
  /\ Cardinality(At(n, "ok")) >= Need(n)
  /\ \E out \in Outcomes(prog[n].fold) :
       Stops(n, out, Those(n, First(Need(n), At(n, "ok"))))

(* Mutants: not before every branch failed; one failure too early.         *)
GiveUpLast(n) ==
  /\ Racing(n)
  /\ Cardinality(At(n, "fail")) = Len(Branches(n))
  /\ Stops(n, "fail", {})

GiveUpEarly(n) ==
  /\ Racing(n)
  /\ Cardinality(At(n, "fail")) >= Len(Branches(n)) - Need(n)
  /\ Stops(n, "fail", {})

GiveUp(n) ==
  /\ Racing(n)
  /\ Cardinality(At(n, "ok")) < Need(n)
  /\ Cardinality(At(n, "fail")) > Len(Branches(n)) - Need(n)
  /\ Stops(n, "fail", {})

(* The timer of a hedge is armed while a branch waits for its turn.        *)
TimerFires(n) ==
  /\ Racing(n)
  /\ At(n, "idle") # {}
  /\ Cardinality(At(n, "ok")) < Need(n)
  /\ phase' = [k \in Nodes |-> IF k \in Those(n, First(1, At(n, "idle"))) THEN "queued" ELSE phase[k]]
  /\ UNCHANGED <<prog, seed, winners, counts, used>>

------------------------------------------------------------------------------
Begin(n) == BeginLeaf(n) \/ BeginChild(n) \/ BeginCall(n) \/ Passes(n) \/ BeginGroup(n) \/ BeginAlt(n)

Group(n) == WaveDone(n) \/ WaveFails(n) \/ Settle(n) \/ GiveUp(n) \/ TimerFires(n)

(* Gates and reasoners are answered by the workflow that holds them.       *)
Evaluate == \E n \in Nodes : Begin(n) \/ Answer(n) \/ ChildReturns(n) \/ Group(n)
=============================================================================
