-------------------------- MODULE AgentAccountProofs --------------------------
(***************************************************************************)
(* More proofs about AgentWorkflow, from the invariants of AgentProofs: how*)
(* a run ends, what its trace tells and what it is charged for, and that it*)
(* keeps the account that AgentLedger asks for.                            *)
(***************************************************************************)
EXTENDS AgentProofs


-----------------------------------------------------------------------------
(* What became of the calls.  Runs counts the executions of the tool behind*)
(* a cid, those that attempts given up may still bring about included.     *)
Runs(c) == executed[c] + late[c]

(* The calls at hand: those not started left no trace in the world, those  *)
(* started ran at most once for each attempt.                              *)
CallRuns(i) ==
  /\ calls[i].status = "waiting" => calls[i].tries = 0 /\ Runs(Cid(i)) = 0
  /\ calls[i].status = "running" =>
       calls[i].tries < MaxTries(calls[i].tool) /\ Runs(Cid(i)) <= calls[i].tries
  /\ calls[i].status \in {"ok", "failed"} => Runs(Cid(i)) <= MaxTries(calls[i].tool)
  /\ calls[i].status = "ok" => executed[Cid(i)] > 0
BatchInv ==
  /\ \A i \in 1..Len(calls) : CallRuns(i)
  /\ pc = "inputs" => \A i \in 1..Len(calls) : calls[i].status = "waiting"

(* Of the present round, and of rounds to come, nothing else ran.          *)
PresentInv ==
  outcome # "activity_failed" =>
    \A c \in Cids : c[2] >= Live.round /\ Runs(c) > 0 =>
      \E i \in 1..Len(calls) : c = Cid(i) /\ calls[i].status # "waiting"

(* Of the past rounds the trace tells what ran.                            *)
EntryOK(e) ==
  /\ e.cid[2] < Live.round
  /\ e.decision = "call" =>
       /\ e.cid[1] = "call" /\ (e.failed \/ executed[e.cid] > 0)
       /\ Runs(e.cid) <= MaxTries(e.ref)
  /\ e.decision = "tool_input_reask" => Runs(e.cid) = 0
PastInv ==
  /\ \A i \in 1..Len(Live.trace) : EntryOK(Live.trace[i])
  /\ \A c \in Cids : c[1] = "call" /\ c[2] < Live.round /\ Runs(c) > 0 =>
       \E i \in 1..Len(Live.trace) :
         Live.trace[i].decision = "call" /\ Live.trace[i].cid = c

EffectInv == BatchInv /\ PresentInv /\ PastInv

LEMMA WorldFields ==
  ASSUME BInv
  PROVE  \A c \in Cids : /\ asked[c] \in Nat /\ executed[c] \in Nat /\ late[c] \in Nat
                         /\ Runs(c) \in Nat
                         /\ c[1] \in {"round", "call", "sub"} /\ c[2] \in Nat
  <1>1. \A c \in Cids : asked[c] \in Nat /\ executed[c] \in Nat /\ late[c] \in Nat
    BY DEF BInv, TInv, WorldOK
  <1>2. \A c \in Cids : c[1] \in {"round", "call", "sub"} /\ c[2] \in Rounds
    BY DEF Cids
  <1>3. Rounds \subseteq Nat
    BY Constants DEF Rounds
  <1>4. \A c \in Cids : Runs(c) \in Nat
    BY <1>1 DEF Runs
  <1>. QED BY <1>1, <1>2, <1>3, <1>4
WorldNow ==
  \A c \in Cids : /\ asked[c] \in Nat /\ executed[c] \in Nat /\ late[c] \in Nat
                  /\ Runs(c) \in Nat
                  /\ c[1] \in {"round", "call", "sub"} /\ c[2] \in Nat
LEMMA WorldFieldsNext == BInv' => WorldNow'
  <1>1. BInv => WorldNow
    BY WorldFields DEF WorldNow
  <1>. QED BY <1>1, PTL

LEMMA TraceFields ==
  ASSUME BInv
  PROVE  /\ Len(Live.trace) \in Nat /\ DOMAIN Live.trace = 1..Len(Live.trace)
         /\ \A i \in 1..Len(Live.trace) :
              Live.trace[i] \in TraceEntry /\ Live.trace[i].cid \in Cids
  <1>1. Live.trace \in Seq(TraceEntry)
    BY LiveNow DEF LiveOK
  <1>2. \A i \in 1..Len(Live.trace) : Live.trace[i] \in TraceEntry
    BY <1>1, ElementOfSeq
  <1>. QED BY <1>1, <1>2, LenProperties DEF TraceEntry

(* The calls at hand are calls of the present round.                       *)
CidsOK ==
  /\ Len(calls) \in Nat /\ DOMAIN calls = 1..Len(calls)
  /\ pc \notin {"inputs", "calls"} => calls = <<>> /\ Len(calls) = 0
  /\ \A i \in 1..Len(calls) :
       /\ Live = state /\ pc \in {"inputs", "calls"}
       /\ Cid(i) \in Cids /\ Cid(i)[1] = "call" /\ Cid(i)[2] = Live.round
       /\ \A j \in 1..Len(calls) : Cid(i) = Cid(j) => i = j
       /\ calls[i] \in Call /\ calls[i].tool \in Tools /\ calls[i].tries \in Nat
       /\ calls[i].status \in {"waiting", "running", "ok", "failed"}
LEMMA CidsNow ==
  ASSUME BInv
  PROVE  CidsOK
  <1>1. LoopOK /\ Shape /\ TInv
    BY DEF BInv, TInv
  <1>2. /\ Len(calls) \in Nat /\ DOMAIN calls = 1..Len(calls)
        /\ pc \notin {"inputs", "calls"} => calls = <<>> /\ Len(calls) = 0
    BY <1>1, CallFields DEF Shape
  <1>3. ASSUME Len(calls) > 0
        PROVE  pc \in {"inputs", "calls"} /\ pc \in Busy /\ Live = state
    BY <1>2, <1>3, LiveNow DEF Busy, LiveOK, Loaded
  <1>4. \A i \in 1..Len(calls) : Len(calls) > 0
    BY <1>2
  <1>. QED BY <1>1, <1>2, <1>3, <1>4, CallFields, RoundType, CidFacts DEF CidsOK
LEMMA CidsNext == BInv' => CidsOK'
  <1>1. BInv => CidsOK
    BY CidsNow
  <1>. QED BY <1>1, PTL

LEMMA TriesType == \A t : MaxTries(t) \in Nat /\ MaxTries(t) > 0
  BY Constants DEF MaxTries

(* Steps that do not end a round leave what is known of past rounds.       *)
LEMMA PastKept ==
  ASSUME BInv, BInv', PastInv,
         Live'.round = Live.round, Live'.trace = Live.trace,
         \A c \in Cids : c[2] < Live.round => executed'[c] >= executed[c] /\ Runs(c)' = Runs(c)
  PROVE  PastInv'
  <1>. DEFINE T == Live.trace
  <1>1. \A c \in Cids : /\ executed[c] \in Nat /\ executed'[c] \in Nat
                        /\ (executed[c] > 0 /\ executed'[c] >= executed[c] => executed'[c] > 0)
    BY WorldFields, WorldFieldsNext DEF WorldNow
  <1>2. \A i \in 1..Len(T) : T[i].cid \in Cids
    BY TraceFields
  <1>3. ASSUME NEW i \in 1..Len(T) PROVE EntryOK(T[i])'
    <2>. DEFINE e == T[i]
    <2>1. EntryOK(e)
      BY DEF PastInv
    <2>2. /\ e.cid \in Cids /\ e.cid[2] < Live.round
      BY <1>2, <2>1 DEF EntryOK
    <2>3. executed'[e.cid] >= executed[e.cid] /\ Runs(e.cid)' = Runs(e.cid)
      BY <2>2
    <2>4. executed[e.cid] > 0 => executed'[e.cid] > 0
      BY <1>1, <2>2, <2>3
    <2>. QED BY <2>1, <2>3, <2>4 DEF EntryOK
  <1>4. ASSUME NEW c \in Cids, c[1] = "call", c[2] < Live.round, Runs(c)' > 0
        PROVE  \E i \in 1..Len(T) : T[i].decision = "call" /\ T[i].cid = c
    BY <1>4 DEF PastInv
  <1>. QED BY <1>3, <1>4 DEF PastInv


(* Steps that touch neither the calls nor what they did to the world.      *)
LEMMA EffectQuiet ==
  ASSUME BInv, BInv', EffectInv,
         Live'.round = Live.round, Live'.trace = Live.trace,
         UNCHANGED <<executed, late, many, calls, outcome>>, pc' = "inputs" => pc = "inputs"
  PROVE  EffectInv'
  <1>1. \A c \in Cids : executed'[c] >= executed[c] /\ Runs(c)' = Runs(c)
    BY WorldFields DEF Runs
  <1>2. PastInv'
    BY <1>1, PastKept DEF EffectInv
  <1>3. \A i \in 1..Len(calls) : Cid(i)' = Cid(i) /\ Cid(i) \in Cids
    <2>1. \A i \in 1..Len(calls) : state'.round = state.round
      BY CidsNow, CidsNext DEF CidsOK
    <2>. QED BY <2>1, CidsNow DEF Cid, CidsOK
  <1>4. BatchInv'
    <2>1. ASSUME NEW i \in 1..Len(calls) PROVE CallRuns(i)'
      <3>1. CallRuns(i) /\ Cid(i)' = Cid(i) /\ Runs(Cid(i))' = Runs(Cid(i))
        BY <1>1, <1>3 DEF EffectInv, BatchInv, Runs
      <3>. QED BY <3>1 DEF CallRuns
    <2>. QED BY <2>1 DEF EffectInv, BatchInv
  <1>5. PresentInv'
    BY <1>1, <1>3 DEF EffectInv, PresentInv
  <1>. QED BY <1>2, <1>4, <1>5 DEF EffectInv

(* Steps after which no call is at hand, or the calls just chosen.         *)
LEMMA NothingRan ==
  ASSUME BInv, EffectInv, pc # "calls", outcome # "activity_failed",
         NEW c \in Cids, c[2] >= Live.round
  PROVE  Runs(c) = 0
  <1>1. \A i \in 1..Len(calls) : calls[i].status = "waiting"
    BY CidsNow DEF EffectInv, BatchInv, CidsOK
  <1>. QED BY <1>1, WorldFields DEF EffectInv, PresentInv

LEMMA EffectDrop ==
  ASSUME BInv, BInv', EffectInv, pc # "calls", outcome = Open,
         Live'.round = Live.round, Live'.trace = Live.trace,
         UNCHANGED <<executed, late>>,
         \A i \in 1..Len(calls') : calls'[i].status = "waiting" /\ calls'[i].tries = 0
  PROVE  EffectInv'
  <1>0. outcome # "activity_failed"
    BY DEF Open
  <1>1. \A c \in Cids : executed'[c] >= executed[c] /\ Runs(c)' = Runs(c)
    BY WorldFields DEF Runs
  <1>2. PastInv'
    BY <1>1, PastKept DEF EffectInv
  <1>3. \A c \in Cids : c[2] >= Live.round => Runs(c)' = 0
    BY <1>0, <1>1, NothingRan
  <1>4. BatchInv'
    <2>1. ASSUME NEW i \in 1..Len(calls') PROVE CallRuns(i)'
      <3>1. Cid(i)' \in Cids /\ Cid(i)'[2] = Live.round
        BY CidsNext DEF CidsOK
      <3>2. Live.round \in Nat
        BY LiveNow DEF LiveOK
      <3>3. Runs(Cid(i))' = 0
        <4>1. \A c \in Cids : c[2] = Live.round => executed'[c] + late'[c] = 0
          BY <1>3, <3>2 DEF Runs
        <4>. QED BY <3>1, <4>1 DEF Runs
      <3>. QED BY <3>3 DEF CallRuns
    <2>. QED BY <2>1 DEF BatchInv
  <1>5. PresentInv'
    BY <1>3 DEF PresentInv
  <1>. QED BY <1>2, <1>4, <1>5 DEF EffectInv

(* The end of a round.                                                     *)
LEMMA EffectMoves ==
  ASSUME BInv, BInv', EffectInv, NEW cost, NEW entries \in Seq(TraceEntry),
         Moves(cost, entries), OfRound(entries), calls' = <<>>, outcome = Open,
         UNCHANGED <<executed, late>>,
         \A i \in 1..Len(entries) :
           /\ entries[i].decision = "call" =>
                /\ entries[i].cid[1] = "call"
                /\ entries[i].failed \/ executed[entries[i].cid] > 0
                /\ Runs(entries[i].cid) <= MaxTries(entries[i].ref)
           /\ entries[i].decision = "tool_input_reask" => Runs(entries[i].cid) = 0,
         \A c \in Cids : c[1] = "call" /\ c[2] = Live.round /\ Runs(c) > 0 =>
           \E i \in 1..Len(entries) : entries[i].decision = "call" /\ entries[i].cid = c
  PROVE  EffectInv'
  <1>. DEFINE T == Live.trace
              n == Len(T)
              m == Len(entries)
  <1>0. outcome # "activity_failed"
    BY DEF Open
  <1>1. /\ Live'.round = Live.round + 1 /\ Live'.trace = T \o entries
        /\ Live.round \in Nat /\ T \in Seq(TraceEntry) /\ n \in Nat /\ m \in Nat
    BY LiveNow, LenProperties DEF Moves, LiveOK
  <1>2. /\ Len(T \o entries) = n + m
        /\ \A i \in 1..n : i \in 1..(n + m) /\ (T \o entries)[i] = T[i]
        /\ \A i \in 1..m : i + n \in 1..(n + m) /\ (T \o entries)[i + n] = entries[i]
        /\ \A i \in 1..(n + m) : i \in 1..n \/ (i - n \in 1..m /\ i = (i - n) + n)
    <2>1. /\ Len(T \o entries) = n + m
          /\ \A i \in 1..(n + m) :
               (T \o entries)[i] = IF i <= n THEN T[i] ELSE entries[i - n]
      BY <1>1, ConcatProperties
    <2>2. /\ \A i \in 1..n : i \in 1..(n + m) /\ i <= n
          /\ \A i \in 1..m : i + n \in 1..(n + m) /\ ~(i + n <= n) /\ (i + n) - n = i
          /\ \A i \in 1..(n + m) : i \in 1..n \/ (i - n \in 1..m /\ i = (i - n) + n)
      BY <1>1
    <2>. QED BY <2>1, <2>2
  <1>3. \A c \in Cids : c[2] \in Nat /\ Runs(c)' = Runs(c) /\ Runs(c) \in Nat
    BY WorldFields DEF Runs
  <1>4. ASSUME NEW i \in 1..(n + m)
        PROVE  \E e \in TraceEntry : e = (T \o entries)[i] /\ EntryOK(e)'
    <2>1. CASE i \in 1..n
      <3>1. PICK e \in TraceEntry : e = T[i]
        BY <2>1, TraceFields
      <3>2. EntryOK(e) /\ e.cid \in Cids
        BY <2>1, <3>1, TraceFields DEF EffectInv, PastInv
      <3>3. e.cid[2] < Live'.round
        BY <1>1, <1>3, <3>2 DEF EntryOK
      <3>4. Runs(e.cid)' = Runs(e.cid)
        BY <1>3, <3>2
      <3>5. EntryOK(e)'
        BY <3>2, <3>3, <3>4 DEF EntryOK
      <3>6. e = (T \o entries)[i]
        BY <1>2, <2>1, <3>1
      <3>. QED BY <3>5, <3>6
    <2>2. CASE i - n \in 1..m /\ i = (i - n) + n
      <3>1. PICK e \in TraceEntry : e = entries[i - n]
        BY <2>2, ElementOfSeq
      <3>2. e.cid \in Cids /\ e.cid[2] = Live.round
        BY <2>2, <3>1 DEF TraceEntry, OfRound
      <3>3. e.cid[2] < Live'.round
        BY <1>1, <3>2
      <3>4. /\ e.decision = "call" => /\ e.cid[1] = "call"
                                      /\ e.failed \/ executed[e.cid] > 0
                                      /\ Runs(e.cid) <= MaxTries(e.ref)
            /\ e.decision = "tool_input_reask" => Runs(e.cid) = 0
        BY <2>2, <3>1
      <3>5. Runs(e.cid)' = Runs(e.cid)
        BY <1>3, <3>2
      <3>6. EntryOK(e)'
        BY <3>3, <3>4, <3>5 DEF EntryOK
      <3>7. e = (T \o entries)[i]
        BY <1>2, <2>2, <3>1
      <3>. QED BY <3>6, <3>7
    <2>. QED BY <1>2, <2>1, <2>2
  <1>5. ASSUME NEW c \in Cids, c[1] = "call", c[2] < Live'.round, Runs(c)' > 0
        PROVE  \E i \in 1..(n + m) :
                 (T \o entries)[i].decision = "call" /\ (T \o entries)[i].cid = c
    <2>1. Runs(c) > 0 /\ (c[2] < Live.round \/ c[2] = Live.round)
      BY <1>1, <1>3, <1>5
    <2>2. CASE c[2] < Live.round
      <3>1. PICK i \in 1..n : T[i].decision = "call" /\ T[i].cid = c
        BY <1>5, <2>1, <2>2 DEF EffectInv, PastInv
      <3>. QED BY <1>2, <3>1
    <2>3. CASE c[2] = Live.round
      <3>1. PICK i \in 1..m : entries[i].decision = "call" /\ entries[i].cid = c
        BY <1>5, <2>1, <2>3
      <3>2. i + n \in 1..(n + m) /\ (T \o entries)[i + n] = entries[i]
        BY <1>2
      <3>. QED BY <3>1, <3>2
    <2>. QED BY <2>1, <2>2, <2>3
  <1>6. PastInv'
    BY SMTT(20), <1>1, <1>2, <1>4, <1>5 DEF PastInv, EntryOK
  <1>7. BatchInv'
    BY DEF BatchInv
  <1>8. PresentInv'
    <2>1. ASSUME NEW c \in Cids, c[2] >= Live'.round PROVE ~(Runs(c)' > 0)
      <3>1. c[2] >= Live.round /\ c[2] # Live.round
        BY <1>1, <1>3, <2>1
      <3>2. ASSUME Runs(c) > 0 PROVE FALSE
        <4>1. PICK i \in 1..Len(calls) : c = Cid(i)
          BY <1>0, <3>1, <3>2 DEF EffectInv, PresentInv
        <4>. QED BY <3>1, <4>1, CidsNow DEF CidsOK
      <3>. QED BY <1>3, <3>2
    <2>. QED BY <2>1 DEF PresentInv
  <1>. QED BY <1>6, <1>7, <1>8 DEF EffectInv


-----------------------------------------------------------------------------
(* The steps of the calls.                                                 *)
LEMMA StartedCalls ==
  ASSUME BInv, StartCalls
  PROVE  /\ Len(calls') = Len(calls)
         /\ \A i \in 1..Len(calls) :
              /\ calls'[i].tool = calls[i].tool /\ calls'[i].tries = calls[i].tries
              /\ i \in Startable => calls'[i].status = "running"
              /\ i \notin Startable => calls'[i].status = calls[i].status
              /\ Cid(i)' = Cid(i)
         /\ \A i \in Startable : i \in 1..Len(calls) /\ calls[i].status = "waiting"
         /\ pc = "calls" /\ Live'.round = Live.round /\ Live'.trace = Live.trace
         /\ Live' = Live /\ Live = state /\ Startable \subseteq 1..Len(calls)
  <1>1. /\ Len(calls) \in Nat /\ DOMAIN calls = 1..Len(calls)
        /\ \A j \in 1..Len(calls) : calls[j] \in Call
    BY CidsNow DEF CidsOK
  <1>2. /\ calls' = [i \in 1..Len(calls) |->
                 IF i \in Startable THEN [calls[i] EXCEPT !.status = "running"]
                 ELSE calls[i]]
        /\ many' = many /\ state' = state /\ pc = "calls"
        /\ UNCHANGED <<inp, store>>
    BY <1>1 DEF StartCalls, chain, commits
  <1>3. /\ Len(calls') = Len(calls)
        /\ \A i \in 1..Len(calls) :
             /\ calls'[i].tool = calls[i].tool /\ calls'[i].tries = calls[i].tries
             /\ i \in Startable => calls'[i].status = "running"
             /\ i \notin Startable => calls'[i].status = calls[i].status
    BY <1>1, <1>2 DEF Call
  <1>4. \A i \in Startable : i \in 1..Len(calls) /\ calls[i].status = "waiting"
    BY <1>1 DEF Startable, WaitingReads, With
  <1>5. Live' = Live /\ Live = state
    BY <1>2, LiveNow DEF Live, Carried, LiveOK, Loaded
  <1>6. \A i \in 1..Len(calls) : Cid(i)' = Cid(i)
    BY <1>2 DEF Cid
  <1>. QED BY <1>2, <1>3, <1>4, <1>5, <1>6

(* A call answers, or an attempt at it fails.                              *)
LEMMA MovedCall ==
  ASSUME BInv, NEW i \in DOMAIN calls, CallAnswers(i) \/ AttemptFails(i)
  PROVE  /\ Len(calls') = Len(calls) /\ i \in 1..Len(calls)
         /\ \A j \in 1..Len(calls) : j # i => calls'[j] = calls[j]
         /\ \A j \in 1..Len(calls) : Cid(j)' = Cid(j)
         /\ calls[i].status = "running" /\ calls'[i].tool = calls[i].tool
         /\ \/ calls'[i].status = "ok" /\ calls'[i].tries = calls[i].tries
               /\ Ran(Cid(i)) /\ UNCHANGED late
            \/ /\ calls'[i].tries = calls[i].tries + 1
               /\ calls'[i].status = IF calls[i].tries + 1 < MaxTries(calls[i].tool)
                                     THEN "running" ELSE "failed"
               /\ \/ UNCHANGED <<executed, late>>
                  \/ Ran(Cid(i)) /\ UNCHANGED late
                  \/ late' = [late EXCEPT ![Cid(i)] = @ + 1] /\ UNCHANGED executed
         /\ pc = "calls" /\ pc' = "calls"
         /\ Live' = Live /\ Live = state /\ UNCHANGED <<asked, bill, outcome, many>>
  <1>1. /\ Len(calls) \in Nat /\ DOMAIN calls = 1..Len(calls) /\ calls \in Seq(Call)
        /\ \A j \in 1..Len(calls) : calls[j] \in Call
        /\ i \in 1..Len(calls) /\ calls[i].tries \in Nat
    BY CidsNow DEF CidsOK, BInv, TInv, LoopOK
  <1>2. /\ calls[i].status = "running"
        /\ UNCHANGED <<state, many, pc, outcome, asked, bill, inp, store>>
        /\ pc = "calls"
    BY DEF CallAnswers, AttemptFails, With, chain, commits
  <1>3. Live' = Live /\ Live = state
    BY <1>2, LiveNow DEF Live, Carried, LiveOK, Loaded
  <1>4. \A j \in 1..Len(calls) : Cid(j)' = Cid(j)
    BY <1>2 DEF Cid
  <1>5. CASE CallAnswers(i)
    <2>1. calls' = [calls EXCEPT ![i] = [calls[i] EXCEPT !.status = "ok"]]
      BY <1>1, <1>5 DEF CallAnswers
    <2>. DEFINE new == [calls[i] EXCEPT !.status = "ok"]
    <2>2. new \in Call /\ new.status = "ok" /\ new.tool = calls[i].tool
          /\ new.tries = calls[i].tries
      BY <1>1 DEF Call
    <2>. HIDE DEF new
    <2>3. /\ Len(calls') = Len(calls) /\ calls'[i] = new
          /\ \A j \in 1..Len(calls) : j # i => calls'[j] = calls[j]
      BY <1>1, <2>1, <2>2, ExceptSeq DEF new
    <2>4. Ran(Cid(i)) /\ UNCHANGED late
      BY <1>5 DEF CallAnswers
    <2>. QED BY <1>1, <1>2, <1>3, <1>4, <2>2, <2>3, <2>4
  <1>6. CASE AttemptFails(i)
    <2>. DEFINE tries == calls[i].tries + 1
                status == IF tries < MaxTries(calls[i].tool)
                          THEN "running" ELSE "failed"
                new == [calls[i] EXCEPT !.tries = tries, !.status = status]
    <2>1. calls' = [calls EXCEPT ![i] = new]
      BY <1>1, <1>6 DEF AttemptFails
    <2>2. tries \in Nat /\ status \in {"running", "failed"}
      BY <1>1
    <2>3. \/ UNCHANGED <<executed, late>>
          \/ Ran(Cid(i)) /\ UNCHANGED late
          \/ late' = [late EXCEPT ![Cid(i)] = @ + 1] /\ UNCHANGED executed
      BY <1>6 DEF AttemptFails
    <2>4. \A t, x : LET n == [calls[i] EXCEPT !.tries = t, !.status = x]
                    IN  n.tries = t /\ n.status = x /\ n.tool = calls[i].tool
      BY <1>1 DEF Call
    <2>5. new.tries = tries /\ new.status = status /\ new.tool = calls[i].tool
      BY <2>4
    <2>. HIDE DEF tries, status
    <2>6. new \in Call
      BY <1>1, <2>2 DEF Call
    <2>. HIDE DEF new
    <2>7. /\ Len(calls') = Len(calls) /\ calls'[i] = new
          /\ \A j \in 1..Len(calls) : j # i => calls'[j] = calls[j]
      BY <1>1, <2>1, <2>6, ExceptSeq
    <2>8. /\ calls'[i].tries = calls[i].tries + 1
          /\ calls'[i].status = IF calls[i].tries + 1 < MaxTries(calls[i].tool)
                                THEN "running" ELSE "failed"
      BY <2>5, <2>7 DEF tries, status
    <2>. QED BY <1>1, <1>2, <1>3, <1>4, <2>3, <2>5, <2>7, <2>8
  <1>. QED BY <1>5, <1>6

LEMMA EffectStart ==
  ASSUME BInv, BInv', EffectInv, StartCalls
  PROVE  EffectInv'
  <1>1. /\ Len(calls') = Len(calls)
        /\ \A i \in 1..Len(calls) :
              /\ calls'[i].tool = calls[i].tool /\ calls'[i].tries = calls[i].tries
              /\ i \in Startable => calls'[i].status = "running"
              /\ i \notin Startable => calls'[i].status = calls[i].status
              /\ Cid(i)' = Cid(i)
        /\ \A i \in Startable : i \in 1..Len(calls) /\ calls[i].status = "waiting"
        /\ pc = "calls" /\ Live'.round = Live.round /\ Live'.trace = Live.trace
    BY StartedCalls
  <1>2. UNCHANGED <<executed, late, outcome, pc>>
    BY DEF StartCalls
  <1>3. \A c \in Cids : executed'[c] >= executed[c] /\ Runs(c)' = Runs(c)
    BY <1>2, WorldFields DEF Runs
  <1>4. PastInv'
    BY <1>1, <1>3, PastKept DEF EffectInv
  <1>5. ASSUME NEW i \in 1..Len(calls) PROVE CallRuns(i)'
    <2>1. CallRuns(i) /\ Cid(i)' = Cid(i) /\ Runs(Cid(i))' = Runs(Cid(i))
      BY <1>1, <1>2 DEF EffectInv, BatchInv, Runs
    <2>2. executed'[Cid(i)'] = executed[Cid(i)]
      BY <1>2, <2>1
    <2>3. CASE i \in Startable
      <3>1. /\ calls'[i].status = "running" /\ calls'[i].tries = 0 /\ Runs(Cid(i))' = 0
            /\ calls'[i].tool = calls[i].tool
        BY <1>1, <2>1, <2>3 DEF CallRuns
      <3>. QED BY <3>1, TriesType DEF CallRuns
    <2>4. CASE i \notin Startable
      BY <1>1, <2>1, <2>2, <2>4 DEF CallRuns
    <2>. QED BY <2>3, <2>4
  <1>6. BatchInv'
    BY <1>1, <1>2, <1>5 DEF BatchInv
  <1>7. PresentInv'
    <2>. SUFFICES ASSUME outcome # "activity_failed", NEW c \in Cids,
                         c[2] >= Live.round, Runs(c) > 0
                  PROVE  \E i \in 1..Len(calls) : c = Cid(i) /\ calls'[i].status # "waiting"
      BY <1>1, <1>2, <1>3 DEF PresentInv
    <2>1. PICK i \in 1..Len(calls) : c = Cid(i) /\ calls[i].status # "waiting"
      BY DEF EffectInv, PresentInv
    <2>2. i \notin Startable
      BY <1>1, <2>1
    <2>. QED BY <1>1, <2>1, <2>2
  <1>. QED BY <1>4, <1>6, <1>7 DEF EffectInv

LEMMA EffectOfCall ==
  ASSUME BInv, BInv', EffectInv, NEW i \in DOMAIN calls, CallAnswers(i) \/ AttemptFails(i)
  PROVE  EffectInv'
  <1>1. /\ Len(calls') = Len(calls) /\ i \in 1..Len(calls)
        /\ \A j \in 1..Len(calls) : j # i => calls'[j] = calls[j]
        /\ \A j \in 1..Len(calls) : Cid(j)' = Cid(j)
        /\ calls[i].status = "running" /\ calls'[i].tool = calls[i].tool
        /\ pc = "calls" /\ pc' = "calls" /\ Live' = Live
    BY MovedCall
  <1>2. /\ Cid(i) \in Cids /\ Cid(i)[2] = Live.round /\ Live.round \in Nat
        /\ \A j \in 1..Len(calls) : Cid(i) = Cid(j) => i = j
        /\ \A j \in 1..Len(calls) : Cid(j) \in Cids
    BY <1>1, CidsNow, LiveNow DEF CidsOK, LiveOK
  <1>. DEFINE d == Cid(i)
  <1>3. /\ \A c \in Cids : c # d => executed'[c] = executed[c] /\ late'[c] = late[c]
        /\ executed'[d] >= executed[d]
        /\ calls'[i].status = "ok" => executed'[d] > 0
        /\ executed'[d] + late'[d] <= executed[d] + late[d] + 1
        /\ executed'[d] + late'[d] \in Nat
    <2>1. /\ executed \in [Cids -> Nat] /\ late \in [Cids -> Nat] /\ d \in Cids
      BY <1>2 DEF BInv, TInv, WorldOK
    <2>2. \/ UNCHANGED <<executed, late>> /\ calls'[i].status # "ok"
          \/ executed' = [executed EXCEPT ![d] = executed[d] + 1] /\ late' = late
          \/ late' = [late EXCEPT ![d] = late[d] + 1] /\ executed' = executed
             /\ calls'[i].status # "ok"
      BY MovedCall DEF Ran
    <2>. HIDE DEF d
    <2>. QED BY <2>1, <2>2
  <1>4. PastInv'
    <2>1. \A c \in Cids : c[2] < Live.round => c # d
      BY <1>2
    <2>2. \A c \in Cids : c[2] < Live.round =>
            executed'[c] = executed[c] /\ Runs(c)' = Runs(c)
      BY <1>3, <2>1 DEF Runs
    <2>3. \A c \in Cids : executed[c] >= executed[c]
      BY WorldFields
    <2>. QED BY <1>1, <2>2, <2>3, PastKept DEF EffectInv
  <1>5. CallRuns(i)'
    <2>1. /\ calls[i].tries \in Nat /\ calls[i].tries < MaxTries(calls[i].tool)
          /\ Runs(d) <= calls[i].tries /\ Runs(d) \in Nat
      BY <1>1, <1>2, CidsNow, WorldFields DEF EffectInv, BatchInv, CallRuns, CidsOK
    <2>2. Runs(Cid(i))' <= calls[i].tries + 1 /\ Runs(Cid(i))' \in Nat
      <3>1. Runs(Cid(i))' = executed'[d] + late'[d]
        BY <1>1 DEF Runs
      <3>2. Runs(d) = executed[d] + late[d]
        BY DEF Runs
      <3>. HIDE DEF d
      <3>. QED BY <1>3, <2>1, <3>1, <3>2
    <2>3. \/ calls'[i].status = "ok"
          \/ /\ calls'[i].tries = calls[i].tries + 1
             /\ calls'[i].status = IF calls[i].tries + 1 < MaxTries(calls[i].tool)
                                   THEN "running" ELSE "failed"
      BY MovedCall
    <2>4. calls'[i].status = "ok" => executed'[Cid(i)'] > 0
      BY <1>1, <1>3
    <2>5. MaxTries(calls[i].tool) \in Nat
      BY TriesType
    <2>. DEFINE m == MaxTries(calls[i].tool)
                t == calls[i].tries
                r == Runs(Cid(i))'
    <2>6. r <= m /\ (calls'[i].status = "running" => calls'[i].tries < m /\ r <= calls'[i].tries)
          /\ calls'[i].status # "waiting"
      <3>1. m \in Nat /\ t \in Nat /\ t < m /\ r <= t + 1 /\ r \in Nat
        BY <2>1, <2>2, <2>5
      <3>. HIDE DEF m, t, r
      <3>2. r <= m
        BY <3>1
      <3>3. \/ calls'[i].status = "ok"
            \/ calls'[i].tries = t + 1 /\ calls'[i].status = IF t + 1 < m THEN "running" ELSE "failed"
        BY <2>3 DEF m, t
      <3>. QED BY <3>1, <3>2, <3>3
    <2>7. MaxTries(calls'[i].tool) = m
      BY <1>1
    <2>. QED BY <2>4, <2>6, <2>7 DEF CallRuns
  <1>6. ASSUME NEW j \in 1..Len(calls), j # i PROVE CallRuns(j)'
    <2>1. CallRuns(j) /\ calls'[j] = calls[j] /\ Cid(j)' = Cid(j) /\ Cid(j) # d /\ Cid(j) \in Cids
      BY <1>1, <1>2, <1>6 DEF EffectInv, BatchInv
    <2>2. executed'[Cid(j)] = executed[Cid(j)] /\ late'[Cid(j)] = late[Cid(j)]
      BY <1>3, <2>1
    <2>. QED BY <2>1, <2>2 DEF CallRuns, Runs
  <1>7. BatchInv'
    BY <1>1, <1>5, <1>6 DEF BatchInv
  <1>8. PresentInv'
    <2>. SUFFICES ASSUME outcome # "activity_failed", NEW c \in Cids,
                         c[2] >= Live.round, Runs(c)' > 0
                  PROVE  \E j \in 1..Len(calls) : c = Cid(j) /\ calls'[j].status # "waiting"
      BY <1>1, MovedCall DEF PresentInv
    <2>1. CASE c = d
      BY <1>1, <1>5, <2>1, MovedCall
    <2>2. CASE c # d
      <3>1. Runs(c) > 0
        BY <1>3, <2>2 DEF Runs
      <3>2. PICK j \in 1..Len(calls) : c = Cid(j) /\ calls[j].status # "waiting"
        BY <3>1 DEF EffectInv, PresentInv
      <3>. QED BY <1>1, <2>2, <3>2
    <2>. QED BY <2>1, <2>2
  <1>. QED BY <1>4, <1>7, <1>8 DEF EffectInv


(* A run that fails abandons the attempts under way; they, and those given *)
(* up before, may still run the tool.                                      *)
LEMMA EffectFailure ==
  ASSUME BInv, BInv', EffectInv, Failure, Live' = Live
  PROVE  EffectInv'
  <1>1. PICK abandoned \in SUBSET With("running") : Fails(abandoned)
    BY DEF Failure
  <1>2. /\ late' = [c \in Cids |-> late[c] +
                      (IF c \in {Cid(i) : i \in abandoned} THEN 1 ELSE 0)]
        /\ outcome' = "activity_failed" /\ pc' = "raise" /\ calls' = <<>>
        /\ executed' = executed
    BY <1>1 DEF Fails
  <1>3. \A i \in abandoned : Cid(i)[2] = Live.round
    BY CidsNow DEF With, CidsOK
  <1>4. ASSUME NEW c \in Cids, c[2] < Live.round
        PROVE  executed'[c] >= executed[c] /\ Runs(c)' = Runs(c)
    <2>1. c[2] # Live.round
      BY <1>4, WorldFields, LiveNow DEF LiveOK
    <2>2. c \notin {Cid(i) : i \in abandoned}
      BY <1>3, <2>1
    <2>3. late'[c] = late[c] + 0 /\ late[c] \in Nat /\ executed[c] \in Nat
      BY <1>2, <2>2, WorldFields
    <2>. QED BY <1>2, <2>3 DEF Runs
  <1>5. PastInv'
    BY <1>4, PastKept DEF EffectInv
  <1>6. BatchInv' /\ PresentInv'
    BY <1>2 DEF BatchInv, PresentInv
  <1>. QED BY <1>5, <1>6 DEF EffectInv

LEMMA EffectLate ==
  ASSUME BInv, BInv', EffectInv, NEW cid \in Cids, LateAttemptRuns(cid), Live' = Live
  PROVE  EffectInv'
  <1>1. /\ late[cid] > 0 /\ late' = [late EXCEPT ![cid] = late[cid] - 1]
        /\ executed' = [executed EXCEPT ![cid] = executed[cid] + 1]
        /\ UNCHANGED <<state, pc, many, calls, outcome>>
    BY DEF LateAttemptRuns, Ran, loop
  <1>2. executed \in [Cids -> Nat] /\ late \in [Cids -> Nat]
    BY DEF BInv, TInv, WorldOK
  <1>3. \A c \in Cids : executed'[c] >= executed[c] /\ Runs(c)' = Runs(c)
    BY <1>1, <1>2 DEF Runs
  <1>4. PastInv'
    BY <1>3, PastKept DEF EffectInv
  <1>5. \A i \in 1..Len(calls) : Cid(i)' = Cid(i) /\ Cid(i) \in Cids
    BY <1>1, CidsNow DEF Cid, CidsOK
  <1>6. BatchInv'
    <2>1. ASSUME NEW i \in 1..Len(calls) PROVE CallRuns(i)'
      <3>1. /\ CallRuns(i) /\ Cid(i)' = Cid(i) /\ Runs(Cid(i))' = Runs(Cid(i))
            /\ executed'[Cid(i)] >= executed[Cid(i)]
            /\ executed'[Cid(i)] \in Nat /\ executed[Cid(i)] \in Nat
        BY <1>3, <1>5, WorldFields, WorldFieldsNext DEF EffectInv, BatchInv, Runs, WorldNow
      <3>. QED BY <1>1, <3>1 DEF CallRuns
    <2>. QED BY <1>1, <2>1 DEF EffectInv, BatchInv
  <1>7. PresentInv'
    BY <1>1, <1>3, <1>5 DEF EffectInv, PresentInv
  <1>. QED BY <1>4, <1>6, <1>7 DEF EffectInv

LEMMA EffectEnd ==
  ASSUME BInv, BInv', EffectInv, NEW entries \in Seq(TraceEntry),
         ReaskStep(entries) \/ EndStep(entries)
  PROVE  EffectInv'
  <1>1. /\ OfRound(entries) /\ calls' = <<>> /\ UNCHANGED <<executed, late>>
        /\ \E cost : Moves(cost, entries)
        /\ outcome = Open /\ outcome # "activity_failed"
    <2>1. pc \in {"think", "output", "inputs", "calls", "sub"}
      BY DEF ReaskStep, EndStep
    <2>2. outcome = Open /\ outcome # "activity_failed"
      BY <2>1 DEF BInv, TInv, Shape, Settled, Open
    <2>. QED BY <2>2 DEF ReaskStep, EndStep, SameWorld
  <1>2. \A i \in 1..Len(entries) : entries[i].cid \in Cids /\ entries[i].cid[2] = Live.round
    <2>1. \A i \in 1..Len(entries) : entries[i] \in TraceEntry
      BY ElementOfSeq
    <2>2. \A e \in TraceEntry : e.cid \in Cids
      BY DEF TraceEntry
    <2>. QED BY <1>1, <2>1, <2>2 DEF OfRound
  <1>3. Live.round \in Nat
    BY LiveNow DEF LiveOK
  <1>4. CASE ReaskStep(entries) \/ pc = "sub"
    <2>1. pc # "calls"
      BY <1>4 DEF ReaskStep
    <2>2. \A c \in Cids : c[2] = Live.round => Runs(c) = 0
      BY <1>1, <1>3, <2>1, NothingRan
    <2>3. \A i \in 1..Len(entries) : Runs(entries[i].cid) = 0
      BY <1>2, <2>2
    <2>4. \A i \in 1..Len(entries) : entries[i].decision # "call"
      <3>1. CASE ReaskStep(entries)
        BY <3>1 DEF ReaskStep
      <3>2. CASE pc = "sub" /\ EndStep(entries)
        <4>1. entries = <<Entry("sub", NoTool, <<"sub", Live.round>>, FALSE)>>
          BY <3>2 DEF EndStep
        <4>. QED BY <4>1 DEF Entry
      <3>. QED BY <1>4, <3>1, <3>2
    <2>5. \A c \in Cids : c[2] = Live.round => ~(Runs(c) > 0)
      BY <2>2
    <2>. QED BY <1>1, <2>3, <2>4, <2>5, EffectMoves
  <1>5. CASE EndStep(entries) /\ pc = "calls"
    <2>1. /\ With("waiting") \cup With("running") = {}
          /\ entries = [i \in 1..Len(calls) |->
                         Entry("call", calls[i].tool, Cid(i), calls[i].status = "failed")]
      BY <1>5 DEF EndStep
    <2>2. Len(entries) = Len(calls)
      BY <2>1, CidsNow DEF CidsOK
    <2>3. \A i \in 1..Len(calls) : calls[i].status \in {"ok", "failed"}
      BY <2>1, CidsNow DEF CidsOK, With
    <2>4. \A i \in 1..Len(calls) :
            /\ entries[i].decision = "call" /\ entries[i].cid = Cid(i)
            /\ entries[i].ref = calls[i].tool
            /\ entries[i].failed = (calls[i].status = "failed")
      BY <2>1 DEF Entry
    <2>5. ASSUME NEW i \in 1..Len(entries)
          PROVE  /\ entries[i].cid[1] = "call"
                 /\ entries[i].failed \/ executed[entries[i].cid] > 0
                 /\ Runs(entries[i].cid) <= MaxTries(entries[i].ref)
                 /\ entries[i].decision = "call"
      <3>1. CallRuns(i) /\ Cid(i)[1] = "call" /\ i \in 1..Len(calls)
        BY <2>2, CidsNow DEF EffectInv, BatchInv, CidsOK
      <3>. QED BY <2>3, <2>4, <3>1 DEF CallRuns
    <2>6. ASSUME NEW c \in Cids, c[2] = Live.round, Runs(c) > 0
          PROVE  \E i \in 1..Len(entries) : entries[i].decision = "call" /\ entries[i].cid = c
      <3>1. PICK i \in 1..Len(calls) : c = Cid(i)
        BY <1>1, <1>3, <2>6 DEF EffectInv, PresentInv
      <3>. QED BY <2>2, <2>4, <3>1
    <2>7. \A i \in 1..Len(entries) : entries[i].decision # "tool_input_reask"
      BY <2>5
    <2>. QED BY <1>1, <2>5, <2>6, <2>7, EffectMoves
  <1>. QED BY <1>4, <1>5 DEF EndStep

LEMMA InitEffect == Init => EffectInv
  <1>. SUFFICES ASSUME Init PROVE EffectInv
    OBVIOUS
  <1>1. calls = <<>> /\ pc = "boot" /\ \A c \in Cids : executed[c] = 0 /\ late[c] = 0
    BY DEF Init
  <1>2. Live.trace = <<>>
    BY BlankType DEF Init, Live, Carried
  <1>. QED BY <1>1, <1>2 DEF EffectInv, BatchInv, PresentInv, PastInv, Runs

LEMMA NextEffect ==
  ASSUME BInv, BInv', [Next]_vars, EffectInv
  PROVE  EffectInv'
  <1>0. outcome = Open <=> pc \notin Settled
    BY DEF BInv, TInv, Shape
  <1>1. CASE QuietStep \/ AskStep \/ SubStep
    <2>1. /\ Live' = Live /\ UNCHANGED <<executed, late, many, calls, outcome>>
          /\ pc' = "inputs" => pc = "inputs"
      BY <1>1 DEF QuietStep, AskStep, SubStep, SameWorld
    <2>. QED BY <2>1, EffectQuiet
  <1>2. CASE ChargeStep
    BY <1>2, EffectQuiet DEF ChargeStep, Spends, SameWorld
  <1>3. CASE SettleStep
    <2>1. /\ calls' = <<>> /\ pc # "calls" /\ outcome = Open
          /\ Live'.round = Live.round /\ Live'.trace = Live.trace
          /\ UNCHANGED <<executed, late>>
      BY <1>0, <1>3 DEF SettleStep, Spends, SameWorld, Settled
    <2>. QED BY <2>1, EffectDrop
  <1>4. CASE PlanStep
    <2>1. /\ pc # "calls" /\ outcome = Open
          /\ Live'.round = Live.round /\ Live'.trace = Live.trace
          /\ UNCHANGED <<executed, late>>
      BY <1>0, <1>4 DEF PlanStep, Spends, SameWorld, Settled
    <2>2. \A i \in 1..Len(calls') : calls'[i].status = "waiting" /\ calls'[i].tries = 0
      <3>1. CASE pc' = "inputs"
        BY <1>4, <3>1 DEF PlanStep
      <3>2. CASE pc' # "inputs"
        BY <1>4, <3>2, CidsNext DEF PlanStep, CidsOK
      <3>. QED BY <3>1, <3>2
    <2>. QED BY <2>1, <2>2, EffectDrop
  <1>5. ASSUME NEW entries \in Seq(TraceEntry), ReaskStep(entries) \/ EndStep(entries)
        PROVE  EffectInv'
    BY <1>5, EffectEnd
  <1>6. CASE /\ Live' = Live
             /\ \/ StartCalls \/ Failure
                \/ \E i \in DOMAIN calls : CallAnswers(i) \/ AttemptFails(i)
                \/ \E cid \in Cids : LateAttemptRuns(cid)
    BY <1>6, EffectStart, EffectFailure, EffectOfCall, EffectLate
  <1>. QED BY <1>1, <1>2, <1>3, <1>4, <1>5, <1>6, NextKinds DEF Kinds

-----------------------------------------------------------------------------
(* A run that is done called a tool first, if it must, and its trajectory  *)
(* is finished once.                                                       *)
ToolInv == pc = "output" \/ outcome = "done" => MayEnd

CloseInv ==
  /\ pc \notin Settled => ended = <<>> /\ finished = FALSE
  /\ pc = "return" =>
       /\ finished = TRUE
       /\ ended = <<IF outcome \in Failed THEN "failed" ELSE "completed">>
  /\ pc = "raise" => \/ finished = TRUE /\ ended = <<"failed">>
                     \/ finished = FALSE /\ ended = <<>>
  /\ pc \in {"completed", "failed"} => ended = <<pc>>

LEMMA NextTool ==
  ASSUME BInv, BInv', [Next]_vars, ToolInv
  PROVE  ToolInv'
  <1>0. outcome = "done" => pc \in Settled
    BY DEF BInv, TInv, Shape, Open
  <1>1. Live'.trace = Live.trace => MayEnd' = MayEnd
    BY DEF MayEnd, CalledTool
  <1>2. CASE QuietStep \/ AskStep \/ SubStep \/ ChargeStep
    BY <1>1, <1>2 DEF QuietStep, AskStep, SubStep, ChargeStep, Spends, ToolInv
  <1>3. CASE SettleStep
    BY <1>1, <1>3 DEF SettleStep, Spends, ToolInv
  <1>4. CASE PlanStep
    BY <1>0, <1>1, <1>4 DEF PlanStep, Spends, ToolInv, Settled
  <1>5. ASSUME NEW entries \in Seq(TraceEntry), ReaskStep(entries) \/ EndStep(entries)
        PROVE  ToolInv'
    BY <1>0, <1>5 DEF ReaskStep, EndStep, ToolInv, Settled
  <1>6. CASE /\ Live' = Live
             /\ \/ StartCalls \/ Failure
                \/ \E i \in DOMAIN calls : CallAnswers(i) \/ AttemptFails(i)
                \/ \E cid \in Cids : LateAttemptRuns(cid)
    <2>1. UNCHANGED <<pc, outcome>> \/ (outcome' = "activity_failed" /\ pc' = "raise")
      BY <1>6 DEF StartCalls, Failure, Fails, CallAnswers, AttemptFails,
         LateAttemptRuns, loop
    <2>. QED BY <1>1, <1>6, <2>1 DEF ToolInv
  <1>. QED BY <1>2, <1>3, <1>4, <1>5, <1>6, NextKinds DEF Kinds

LEMMA NextClose ==
  ASSUME BInv, BInv', [Next]_vars, CloseInv
  PROVE  CloseInv'
  <1>1. CASE UNCHANGED <<pc, outcome, finished, ended>>
    BY <1>1 DEF CloseInv
  <1>2. CASE /\ pc \notin Settled /\ pc' = "return" /\ finished' = TRUE
             /\ ended' = Append(ended, IF outcome' \in Failed THEN "failed" ELSE "completed")
    BY <1>2 DEF CloseInv, Settled
  <1>3. CASE /\ pc \notin Settled /\ ended' = ended /\ finished' \in {finished, FALSE}
             /\ pc' \notin Settled \/ pc' = "raise"
    BY <1>3 DEF CloseInv, Settled
  <1>4. CASE Return
    <2>1. /\ pc = "return" /\ UNCHANGED <<outcome, finished, ended>>
          /\ pc' = IF outcome \in Failed THEN "raise" ELSE "completed"
      BY <1>4 DEF Return, world
    <2>. QED BY <2>1 DEF CloseInv, Settled
  <1>5. CASE Raise
    <2>1. /\ pc = "raise" /\ pc' = "failed"
          /\ ended' = IF finished THEN ended ELSE Append(ended, "failed")
      BY <1>5 DEF Raise
    <2>2. ended' = <<"failed">>
      <3>1. CASE finished = TRUE /\ ended = <<"failed">>
        BY <2>1, <3>1
      <3>2. CASE finished = FALSE /\ ended = <<>>
        BY <2>1, <3>2
      <3>. QED BY <2>1, <3>1, <3>2 DEF CloseInv
    <2>. QED BY <2>1, <2>2 DEF CloseInv, Settled
  <1>6. \/ UNCHANGED <<pc, outcome, finished, ended>>
        \/ /\ pc \notin Settled /\ pc' = "return" /\ finished' = TRUE
           /\ ended' = Append(ended, IF outcome' \in Failed THEN "failed" ELSE "completed")
        \/ /\ pc \notin Settled /\ ended' = ended /\ finished' \in {finished, FALSE}
           /\ pc' \notin Settled \/ pc' = "raise"
        \/ Return \/ Raise
    <2>. USE DEF Settled, world
    <2>1. CASE ControllerStep
      BY <2>1 DEF ControllerStep, FinishTooEarly, Done, Output, Escalate, Malformed,
         MayFinish, ChooseCalls, ChooseSub, Finish, Reask, Await
    <2>2. CASE LoopStep
      <3>1. CASE EndRound(state, SubCost, <<Entry("sub", NoTool, <<"sub", state.round>>, FALSE)>>)
                 /\ pc = "sub"
        BY <3>1 DEF EndRound, Await
      <3>2. CASE CallsDone
        BY <3>2 DEF CallsDone, EndRound, Await
      <3>3. CASE Boot \/ RoundsExhausted \/ CannotThink \/ AskController \/ OutputValid
                 \/ OutputInvalid \/ ContinueAsNew \/ StartSub \/ StartCalls \/ ChargeCalls
        BY <3>3 DEF Boot, RoundsExhausted, CannotThink, AskController, OutputValid,
           OutputInvalid, ContinueAsNew, StartSub, StartCalls, ChargeCalls, Finish,
           Reask, Await
      <3>4. ASSUME NEW bad \in Rising, InputsInvalid(bad)
            PROVE  pc \notin Settled /\ ended' = ended /\ finished' = finished
                   /\ pc' \notin Settled
        BY <3>4 DEF InputsInvalid, Reask
      <3>. QED BY <2>2, <3>1, <3>2, <3>3, <3>4 DEF LoopStep, SubReturns
    <2>3. CASE ActivityStep
      BY <2>3 DEF ActivityStep, CallAnswers, AttemptFails, IssueCommit, RunCommit, loop
    <2>4. CASE Failure
      BY <2>4 DEF Failure, Fails
    <2>5. CASE (\E cid \in Cids : LateAttemptRuns(cid)) \/ Rest \/ UNCHANGED vars
      BY <2>5 DEF LateAttemptRuns, Rest, vars, loop
    <2>. QED BY <2>1, <2>2, <2>3, <2>4, <2>5 DEF Next
  <1>. QED BY <1>1, <1>2, <1>3, <1>4, <1>5, <1>6

(* A run ends as it must: it is done only after a tool ran, if it has to   *)
(* call one, and its trajectory is finished exactly once, by the segment   *)
(* that ends it and with the status that the run ends with.                *)
THEOREM RunsEndProperly == Spec => []EndsProperly
  <1>1. Init => ToolInv /\ CloseInv
    <2>1. Init => pc = "boot" /\ outcome = "open" /\ ended = <<>> /\ finished = FALSE
      BY DEF Init, Open
    <2>. QED BY <2>1 DEF ToolInv, CloseInv, Settled
  <1>2. ASSUME BInv, EffectInv, ToolInv, CloseInv PROVE EndsProperly
    <2>1. TrajectoryClosed
      <3>1. /\ pc \in PCs /\ ended \in Seq({"failed", "completed"})
        BY <1>2 DEF BInv, TInv, LoopOK, WorldOK
      <3>2. ended = <<>> \/ \E x : ended = <<x>>
        BY <1>2, <3>1 DEF CloseInv, Settled
      <3>3. Len(ended) <= 1
        <4>1. \A x : Len(<<x>>) = 1
          OBVIOUS
        <4>2. Len(ended) = 0 \/ Len(ended) = 1
          BY <3>2, <4>1
        <4>3. \A n : n = 0 \/ n = 1 => n <= 1
          OBVIOUS
        <4>. QED BY <4>2, <4>3
      <3>. QED BY <1>2, <3>3 DEF TrajectoryClosed, CloseInv, Ended
    <2>2. DoneMeansCalled
      <3>. SUFFICES ASSUME RequireToolCall, outcome = "done"
                    PROVE  \E c \in Cids : c[1] = "call" /\ executed[c] > 0
        BY DEF DoneMeansCalled
      <3>1. CalledTool(Live)
        BY <1>2 DEF ToolInv, MayEnd
      <3>2. PICK i \in DOMAIN Live.trace :
              Live.trace[i].decision = "call" /\ ~Live.trace[i].failed
        BY <3>1 DEF CalledTool, Range
      <3>3. Live.trace[i].cid \in Cids /\ EntryOK(Live.trace[i])
        BY <1>2, TraceFields DEF EffectInv, PastInv
      <3>. QED BY <3>2, <3>3 DEF EntryOK
    <2>. QED BY <2>1, <2>2 DEF EndsProperly
  <1>. QED BY <1>1, <1>2, BaseHolds, InitEffect, NextEffect, NextTool, NextClose, PTL
           DEF Spec


-----------------------------------------------------------------------------
(* Entries appear in order: within a round as its calls were asked for,    *)
(* and those of a round behind those of all rounds before.                 *)
LEMMA NextOrder ==
  ASSUME BInv, BInv', [Next]_vars, EffectInv, TraceInOrder
  PROVE  TraceInOrder'
  <1>1. CASE Live'.trace = Live.trace
    BY <1>1 DEF TraceInOrder
  <1>2. ASSUME NEW entries \in Seq(TraceEntry), ReaskStep(entries) \/ EndStep(entries)
        PROVE  TraceInOrder'
    <2>. DEFINE T == Live.trace
                n == Len(T)
                m == Len(entries)
                both == T \o entries
    <2>1. /\ Live'.trace = both /\ InOrder(entries) /\ OfRound(entries)
          /\ T \in Seq(TraceEntry) /\ n \in Nat /\ m \in Nat
      BY <1>2, LiveNow, LenProperties DEF ReaskStep, EndStep, Moves, LiveOK
    <2>2. /\ Len(both) = n + m
          /\ \A i \in 1..(n + m) : both[i] = IF i <= n THEN T[i] ELSE entries[i - n]
      BY <2>1, ConcatProperties
    <2>3. /\ \A i \in 1..n : EntryOK(T[i])
          /\ \A i \in 1..n - 1 : Precedes(T[i].cid, T[i + 1].cid)
          /\ \A i \in 1..m - 1 : Precedes(entries[i].cid, entries[i + 1].cid)
          /\ \A i \in 1..m : entries[i].cid[2] = Live.round
      BY <2>1 DEF EffectInv, PastInv, TraceInOrder, InOrder, OfRound
    <2>. HIDE DEF T, both
    <2>4. ASSUME NEW i \in 1..(n + m) - 1 PROVE Precedes(both[i].cid, both[i + 1].cid)
      <3>1. /\ i \in 1..(n + m) /\ i + 1 \in 1..(n + m) /\ i \in Nat
            /\ n \in Nat /\ m \in Nat
        BY <2>1 DEF n, m
      <3>2. CASE i + 1 <= n
        <4>1. i <= n /\ i \in 1..n - 1
          BY <3>1, <3>2
        <4>2. both[i] = T[i] /\ both[i + 1] = T[i + 1]
          BY <2>2, <3>1, <3>2, <4>1
        <4>. QED BY <2>3, <4>1, <4>2
      <3>3. CASE i = n
        <4>1. i <= n /\ ~(i + 1 <= n) /\ i \in 1..n /\ 1 \in 1..m /\ (i + 1) - n = 1
          BY <3>1, <3>3
        <4>2. both[i] = T[i] /\ both[i + 1] = entries[1]
          BY <2>2, <3>1, <4>1
        <4>. QED BY <2>3, <4>1, <4>2 DEF Precedes, EntryOK
      <3>4. CASE ~(i <= n)
        <4>1. /\ ~(i + 1 <= n) /\ i - n \in 1..m - 1 /\ (i + 1) - n = (i - n) + 1
          BY <3>1, <3>4
        <4>2. both[i] = entries[i - n] /\ both[i + 1] = entries[(i - n) + 1]
          BY <2>2, <3>1, <3>4, <4>1
        <4>. QED BY <2>3, <4>1, <4>2
      <3>5. i + 1 <= n \/ i = n \/ ~(i <= n)
        BY <3>1
      <3>. QED BY <3>2, <3>3, <3>4, <3>5
    <2>. QED BY <2>1, <2>2, <2>4 DEF TraceInOrder
  <1>3. \/ Live'.trace = Live.trace
        \/ \E entries \in Seq(TraceEntry) : ReaskStep(entries) \/ EndStep(entries)
    BY NextKinds DEF Kinds, QuietStep, AskStep, SettleStep, PlanStep, ChargeStep,
       SubStep, Spends
  <1>. QED BY <1>1, <1>2, <1>3

(* What was asked for under the cids of the present round, and that nothing*)
(* was asked for under those of rounds to come.                            *)
AskedInv ==
  /\ \A c \in Cids : asked[c] <= 1
  /\ pc \notin Settled =>
       \A c \in Cids : c[2] >= Live.round /\ asked[c] > 0 =>
         /\ c[2] = Live.round
         /\ \/ c[1] = "round" /\ pc \in Busy
            \/ c[1] = "sub" /\ pc = "sub"
            \/ \E i \in 1..Len(calls) : c = Cid(i) /\ calls[i].status # "waiting"

LEMMA AskedKept ==
  ASSUME BInv, BInv', AskedInv, UNCHANGED <<asked, many, calls>>, Live'.round = Live.round,
         pc' \notin Settled => pc \notin Settled /\ (pc \in Busy => pc' \in Busy)
                               /\ (pc = "sub" => pc' = "sub")
  PROVE  AskedInv'
  <1>1. \A i \in 1..Len(calls) : Cid(i)' = Cid(i)
    <2>1. \A i \in 1..Len(calls) : state'.round = state.round
      BY CidsNow, CidsNext DEF CidsOK
    <2>. QED BY <2>1 DEF Cid
  <1>. QED BY <1>1 DEF AskedInv

LEMMA AskedMore ==
  ASSUME BInv, BInv', AskedInv, NEW cids \in SUBSET Cids, NEW cost, Ask(cids, cost),
         pc \notin Settled, Live' = Live,
         \A c \in cids :
           /\ c[2] = Live.round
           /\ ~(c[1] = "round" /\ pc \in Busy) /\ ~(c[1] = "sub" /\ pc = "sub")
           /\ \A i \in 1..Len(calls) : c = Cid(i) => calls[i].status = "waiting"
           /\ \/ c[1] = "round" /\ pc' \in Busy
              \/ c[1] = "sub" /\ pc' = "sub"
              \/ \E i \in 1..Len(calls') : c = Cid(i)' /\ calls'[i].status # "waiting",
         pc \in Busy => pc' \in Busy, pc = "sub" => pc' = "sub",
         Len(calls') = Len(calls),
         \A i \in 1..Len(calls) : /\ Cid(i)' = Cid(i)
                                  /\ calls[i].status # "waiting" => calls'[i].status # "waiting"
  PROVE  AskedInv'
  <1>1. \A c \in Cids : asked[c] \in Nat /\ c[2] \in Nat
    BY WorldFields
  <1>2. \A c \in Cids : asked'[c] = asked[c] + (IF c \in cids THEN 1 ELSE 0)
    BY DEF Ask
  <1>3. Live.round \in Nat
    BY LiveNow DEF LiveOK
  <1>4. \A c \in cids : asked[c] = 0
    <2>. TAKE c \in cids
    <2>1. ~(asked[c] > 0)
      BY <1>1, <1>3 DEF AskedInv
    <2>. QED BY <1>1, <2>1
  <1>5. \A c \in Cids : asked'[c] <= 1
    BY <1>1, <1>2, <1>4 DEF AskedInv
  <1>6. ASSUME NEW c \in Cids, c[2] >= Live.round, asked'[c] > 0
        PROVE  /\ c[2] = Live.round
               /\ \/ c[1] = "round" /\ pc' \in Busy
                  \/ c[1] = "sub" /\ pc' = "sub"
                  \/ \E i \in 1..Len(calls) : c = Cid(i) /\ calls'[i].status # "waiting"
    <2>1. CASE c \in cids
      BY <2>1
    <2>2. CASE c \notin cids
      <3>1. asked[c] > 0
        BY <1>1, <1>2, <1>6, <2>2
      <3>. QED BY <1>6, <3>1 DEF AskedInv
    <2>. QED BY <2>1, <2>2
  <1>. QED BY <1>5, <1>6 DEF AskedInv

LEMMA InitAsked == Init => AskedInv
  BY DEF Init, AskedInv

LEMMA NextAsked ==
  ASSUME BInv, BInv', [Next]_vars, AskedInv
  PROVE  AskedInv'
  <1>0. /\ outcome = Open <=> pc \notin Settled
        /\ Live.round \in Nat
        /\ pc \in Busy => pc \notin Settled
    BY LiveNow DEF BInv, TInv, Shape, LiveOK, Busy, Settled
  <1>1. CASE QuietStep
    <2>1. pc' \notin Settled => pc \notin Settled /\ (pc \in Busy => pc' \in Busy)
                                /\ (pc = "sub" => pc' = "sub")
      BY <1>1 DEF QuietStep, Settled, Busy
    <2>. QED BY <1>1, <2>1, AskedKept DEF QuietStep, SameWorld
  <1>2. CASE ChargeStep
    <2>1. pc \notin Settled /\ pc' \in Busy /\ pc # "sub"
      BY <1>2 DEF ChargeStep, Settled, Busy
    <2>. QED BY <1>2, <2>1, AskedKept DEF ChargeStep, SameWorld, Spends
  <1>3. CASE AskStep \/ SubStep
    <2>1. PICK x \in {"round", "sub"}, cost \in {ThinkCost, SubCost} :
            /\ Ask({<<x, Live.round>>}, cost)
            /\ x = "round" => pc = "round" /\ pc' = "think"
            /\ x = "sub" => pc = "resolve" /\ pc' = "sub"
      BY <1>3 DEF AskStep, SubStep
    <2>2. Live.round \in Rounds
      <3>1. Live.round < MaxRounds
        <4>1. CASE AskStep
          BY <4>1 DEF AskStep
        <4>2. CASE SubStep
          <5>1. pc = "resolve" /\ pc \in Busy
            BY <4>2 DEF SubStep, Busy
          <5>. QED BY <5>1, LiveNow DEF BInv, TInv, Shape, LiveOK, Loaded
        <4>. QED BY <1>3, <4>1, <4>2
      <3>. QED BY <1>0, <3>1, Constants DEF Rounds
    <2>. DEFINE c == <<x, Live.round>>
    <2>3. /\ c \in Cids /\ c[1] = x /\ c[2] = Live.round
      BY <2>1, <2>2 DEF Cids
    <2>4. /\ pc \notin Settled /\ (pc \in Busy => pc' \in Busy) /\ pc # "sub"
          /\ ~(x = "round" /\ pc \in Busy)
          /\ (x = "round" /\ pc' \in Busy) \/ (x = "sub" /\ pc' = "sub")
      BY <2>1 DEF Settled, Busy
    <2>5. /\ Len(calls) = 0 /\ calls' = calls /\ Live' = Live
      BY <1>3, CidsNow DEF AskStep, SubStep, CidsOK
    <2>. HIDE DEF c
    <2>6. {c} \in SUBSET Cids /\ Ask({c}, cost)
      BY <2>1, <2>3 DEF c
    <2>. QED BY <2>3, <2>4, <2>5, <2>6, AskedMore
  <1>4. CASE SettleStep
    BY <1>4 DEF SettleStep, SameWorld, AskedInv, Settled
  <1>5. CASE PlanStep
    <2>1. /\ pc \notin Settled /\ pc' \in Busy /\ pc = "think" /\ Len(calls) = 0
          /\ asked' = asked /\ Live'.round = Live.round
      BY <1>5, CidsNow DEF PlanStep, CidsOK, Busy, Settled, SameWorld, Spends
    <2>. QED BY <2>1 DEF AskedInv
  <1>6. ASSUME NEW entries \in Seq(TraceEntry), ReaskStep(entries) \/ EndStep(entries)
        PROVE  AskedInv'
    <2>1. /\ asked' = asked /\ Live'.round = Live.round + 1 /\ pc \notin Settled
      BY <1>6 DEF ReaskStep, EndStep, Moves, SameWorld, Settled
    <2>2. \A c \in Cids : c[2] >= Live.round + 1 => c[2] >= Live.round /\ c[2] # Live.round
      BY <1>0, WorldFields
    <2>3. \A c \in Cids : c[2] >= Live.round + 1 => ~(asked[c] > 0)
      BY <2>1, <2>2 DEF AskedInv
    <2>. QED BY <2>1, <2>3 DEF AskedInv
  <1>7. CASE StartCalls
    <2>1. /\ Len(calls') = Len(calls)
          /\ \A i \in 1..Len(calls) :
                /\ i \in Startable => calls'[i].status = "running"
                /\ i \notin Startable => calls'[i].status = calls[i].status
                /\ Cid(i)' = Cid(i)
          /\ \A i \in Startable : i \in 1..Len(calls) /\ calls[i].status = "waiting"
          /\ pc = "calls" /\ Live' = Live
      BY <1>7, StartedCalls
    <2>. DEFINE cids == {Cid(i) : i \in Startable}
                cost == ToolCost * Cardinality(Startable)
    <2>2. Ask(cids, cost) /\ pc' = pc
      BY <1>7 DEF StartCalls
    <2>3. \A i \in Startable : /\ Cid(i) \in Cids /\ Cid(i)[1] = "call" /\ Cid(i)[2] = Live.round
                               /\ \A j \in 1..Len(calls) : Cid(i) = Cid(j) => i = j
      BY <2>1, CidsNow DEF CidsOK
    <2>4. \A c \in cids : \E i \in Startable : c = Cid(i)
      OBVIOUS
    <2>5. cids \in SUBSET Cids
      BY <2>3
    <2>. HIDE DEF cids, cost
    <2>6. \A c \in cids :
            /\ c[2] = Live.round /\ c[1] = "call"
            /\ \A i \in 1..Len(calls) : c = Cid(i) => calls[i].status = "waiting"
            /\ \E i \in 1..Len(calls') : c = Cid(i)' /\ calls'[i].status # "waiting"
      <3>. TAKE c \in cids
      <3>1. PICK i \in Startable : c = Cid(i)
        BY <2>4
      <3>. QED BY <2>1, <2>3, <3>1
    <2>7. pc \notin Settled
      BY <2>1 DEF Settled
    <2>. QED BY <2>1, <2>2, <2>5, <2>6, <2>7, AskedMore
  <1>8. ASSUME NEW i \in DOMAIN calls, CallAnswers(i) \/ AttemptFails(i) PROVE AskedInv'
    <2>1. /\ Len(calls') = Len(calls) /\ i \in 1..Len(calls)
          /\ \A j \in 1..Len(calls) : j # i => calls'[j] = calls[j]
          /\ \A j \in 1..Len(calls) : Cid(j)' = Cid(j)
          /\ calls'[i].status # "waiting"
          /\ pc' = pc /\ Live' = Live /\ asked' = asked
      BY <1>8, MovedCall
    <2>. QED BY <2>1 DEF AskedInv
  <1>9. CASE Failure
    BY <1>9 DEF Failure, Fails, AskedInv, Settled
  <1>10. ASSUME NEW cid \in Cids, LateAttemptRuns(cid), Live' = Live PROVE AskedInv'
    <2>1. UNCHANGED <<asked, many, calls, pc>>
      BY <1>10 DEF LateAttemptRuns, loop
    <2>. QED BY <1>10, <2>1, AskedKept
  <1>. QED BY <1>1, <1>2, <1>3, <1>4, <1>5, <1>6, <1>7, <1>8, <1>9, <1>10, NextKinds
           DEF Kinds

(* What the caller reads of a run is what happened: no cid is given to two *)
(* activities, a call entry without error ran, no call ran more often than *)
(* its contract allows, no refused input reached a tool, no call of a past *)
(* round is missing, and entries stand in the order they were asked for.   *)
THEOREM TracesTellWhatHappened == Spec => []TraceFaithful
  <1>1. Init => TraceInOrder
    <2>1. Init => Live.trace = <<>>
      BY BlankType DEF Init, Live, Carried
    <2>. QED BY <2>1 DEF TraceInOrder
  <1>2. ASSUME BInv, EffectInv, AskedInv, TraceInOrder PROVE TraceFaithful
    <2>1. CidsUnique
      BY <1>2 DEF CidsUnique, AskedInv
    <2>2. \A e \in Range(Live.trace) :
            /\ e \in TraceEntry /\ e.cid \in Cids /\ EntryOK(e)
      BY <1>2, TraceFields DEF Range, EffectInv, PastInv
    <2>3. ASSUME NEW e \in CallEntries
          PROVE  /\ e.failed \/ executed[e.cid] > 0
                 /\ executed[e.cid] + late[e.cid] <= IF e.ref \in Retryable THEN Attempts ELSE 1
      BY <2>2 DEF CallEntries, EntryOK, Runs, MaxTries
    <2>4. ASSUME NEW e \in Range(Live.trace), e.decision = "tool_input_reask"
          PROVE  executed[e.cid] + late[e.cid] = 0
      BY <2>2, <2>4 DEF EntryOK, Runs
    <2>5. ASSUME NEW c \in Cids, c[1] = "call", executed[c] > 0, c[2] < Live.round
          PROVE  \E e \in CallEntries : e.cid = c
      <3>1. Runs(c) > 0
        BY <1>2, <2>5, WorldFields DEF Runs
      <3>2. PICK i \in 1..Len(Live.trace) :
              Live.trace[i].decision = "call" /\ Live.trace[i].cid = c
        BY <1>2, <2>5, <3>1 DEF EffectInv, PastInv
      <3>3. i \in DOMAIN Live.trace
        BY <1>2, TraceFields
      <3>. QED BY <3>2, <3>3 DEF CallEntries, Range
    <2>6. TraceTellsEffects
      BY <2>3, <2>4, <2>5 DEF TraceTellsEffects
    <2>. QED BY <1>2, <2>1, <2>6 DEF TraceFaithful
  <1>. QED BY <1>1, <1>2, BaseHolds, InitEffect, NextEffect, NextOrder, InitAsked,
              NextAsked, PTL DEF Spec


-----------------------------------------------------------------------------
(* The account: what was asked for is what is charged and what the step at *)
(* hand owes, and the budget has room for what it may still ask for.       *)
Started == {i \in 1..Len(calls) : calls[i].status # "waiting"}
Owed ==
  CASE pc = "think" -> ThinkCost
    [] pc = "calls" -> Cardinality(Started)
    [] pc = "sub" -> SubCost
    [] OTHER -> 0
BillInv ==
  /\ bill <= Budget
  /\ outcome # "activity_failed" => bill = Live.spent + Owed
  /\ pc \in {"inputs", "calls"} => Live.spent + Len(calls) <= Budget
  /\ pc = "resolve" => Live.spent + SubCost <= Budget

LEMMA InitBill == Init => BillInv
  <1>. SUFFICES ASSUME Init PROVE BillInv
    OBVIOUS
  <1>1. bill = 0 /\ pc = "boot" /\ Live.spent = 0
    BY BlankType DEF Init, Live, Carried
  <1>. QED BY <1>1, Constants DEF BillInv, Owed

LEMMA StartedFacts ==
  ASSUME BInv
  PROVE  /\ Cardinality(Started) \in Nat /\ Cardinality(Started) <= Len(calls)
         /\ IsFiniteSet(Started) /\ Len(calls) \in Nat
  <1>1. calls \in Seq(Call) /\ Started \subseteq DOMAIN calls /\ Len(calls) \in Nat
        /\ Started \subseteq 1..Len(calls)
    BY CidsNow DEF Started, CidsOK, BInv, TInv, LoopOK
  <1>2. IsFiniteSet(1..Len(calls))
    BY <1>1, FS_Interval
  <1>. QED BY <1>1, <1>2, CountIn, FS_Subset

StartedFit == Cardinality(Started) <= Len(calls)
LEMMA StartedFitNext == BInv' => StartedFit'
  <1>1. BInv => StartedFit
    BY StartedFacts DEF StartedFit
  <1>. QED BY <1>1, PTL

LEMMA StartedAdds ==
  ASSUME BInv, BInv', StartCalls
  PROVE  /\ Cardinality(Started)' = Cardinality(Started) + Cardinality(Startable)
         /\ Cardinality(Startable) \in Nat
  <1>1. Started' = Started \cup Startable /\ Started \cap Startable = {}
        /\ Startable \subseteq 1..Len(calls)
    BY StartedCalls DEF Started
  <1>2. IsFiniteSet(Started) /\ Len(calls) \in Nat /\ Cardinality(Started) \in Nat
    BY StartedFacts
  <1>3. IsFiniteSet(Startable)
    BY <1>1, <1>2, FS_Interval, FS_Subset
  <1>4. Cardinality(Started \cup Startable)
          = Cardinality(Started) + Cardinality(Startable) - Cardinality(Started \cap Startable)
    BY <1>2, <1>3, FS_Union
  <1>5. Cardinality(Started \cap Startable) = 0 /\ Cardinality(Startable) \in Nat
    BY <1>1, <1>3, FS_EmptySet, FS_CardinalityType
  <1>. QED BY <1>1, <1>2, <1>4, <1>5

LEMMA NextBill ==
  ASSUME BInv, BInv', [Next]_vars, EffectInv, BillInv
  PROVE  BillInv'
  <1>0. /\ outcome = Open <=> pc \notin Settled
        /\ Live.spent \in Nat /\ Live'.spent \in Nat /\ bill \in Nat /\ bill' \in Nat
        /\ Budget \in Nat /\ ThinkCost \in Nat /\ SubCost = 5
    BY LiveNow, LiveNext, Constants DEF BInv, TInv, Shape, LiveOK, WorldOK, SubCost
  <1>1. CASE QuietStep
    <2>1. /\ Live' = Live /\ bill' = bill /\ UNCHANGED <<calls, outcome>>
          /\ pc' = pc \/ (pc \notin {"think", "calls", "sub"}
                          /\ pc' \notin {"think", "inputs", "calls", "resolve", "sub"})
      BY <1>1 DEF QuietStep, SameWorld
    <2>2. Owed' = Owed
      BY <2>1 DEF Owed, Started
    <2>. QED BY <2>1, <2>2 DEF BillInv
  <1>2. CASE AskStep
    <2>1. /\ pc = "round" /\ pc' = "think" /\ Live' = Live /\ bill' = bill + ThinkCost
          /\ Live.spent + ThinkCost <= Budget /\ outcome' = outcome
          /\ outcome # "activity_failed"
      BY <1>0, <1>2 DEF AskStep, Ask, Settled, Open
    <2>2. Owed = 0 /\ Owed' = ThinkCost
      BY <2>1 DEF Owed
    <2>. QED BY SMTT(20), <1>0, <2>1, <2>2 DEF BillInv
  <1>3. CASE SettleStep
    <2>1. /\ pc' = "return" /\ bill' = bill /\ Live'.spent = Live.spent + Thinking
          /\ outcome # "activity_failed" /\ Owed = Thinking
      BY <1>0, <1>3 DEF SettleStep, Spends, SameWorld, Settled, Open, Owed, Thinking
    <2>2. Owed' = 0
      BY <2>1 DEF Owed
    <2>. QED BY <1>0, <2>1, <2>2 DEF BillInv
  <1>4. CASE PlanStep
    <2>1. /\ pc = "think" /\ pc' \in {"output", "resolve", "inputs"} /\ bill' = bill
          /\ Live'.spent = Live.spent + ThinkCost /\ outcome # "activity_failed"
          /\ pc' = "resolve" => Live'.spent + SubCost <= Budget
          /\ pc' = "inputs" => Live'.spent + Len(calls') <= Budget
      BY <1>0, <1>4 DEF PlanStep, Spends, SameWorld, Settled, Open
    <2>2. Owed = ThinkCost /\ Owed' = 0
      BY <2>1 DEF Owed
    <2>. QED BY <1>0, <2>1, <2>2 DEF BillInv
  <1>5. CASE ChargeStep
    <2>1. /\ pc = "inputs" /\ pc' = "calls" /\ bill' = bill /\ calls' = calls
          /\ Live'.spent = Live.spent /\ outcome' = outcome
      BY <1>0, <1>5 DEF ChargeStep, Spends, SameWorld
    <2>2. Started' = {}
      BY <2>1 DEF EffectInv, BatchInv, Started
    <2>3. Owed = 0 /\ Owed' = 0
      BY <2>1, <2>2, FS_EmptySet DEF Owed
    <2>. QED BY <1>0, <2>1, <2>3 DEF BillInv
  <1>6. CASE SubStep
    <2>1. /\ pc = "resolve" /\ pc' = "sub" /\ Live' = Live /\ bill' = bill + SubCost
          /\ outcome' = outcome /\ outcome # "activity_failed"
      BY <1>0, <1>6 DEF SubStep, Ask, Settled, Open
    <2>2. Owed = 0 /\ Owed' = SubCost
      BY <2>1 DEF Owed
    <2>. QED BY <1>0, <2>1, <2>2 DEF BillInv
  <1>7. ASSUME NEW entries \in Seq(TraceEntry), ReaskStep(entries) PROVE BillInv'
    <2>1. /\ pc' = "round" /\ bill' = bill /\ Live'.spent = Live.spent + Thinking
          /\ outcome # "activity_failed" /\ outcome' = outcome /\ Owed = Thinking
      BY <1>0, <1>7 DEF ReaskStep, Moves, SameWorld, Settled, Open, Owed, Thinking
    <2>2. Owed' = 0
      BY <2>1 DEF Owed
    <2>. QED BY <1>0, <2>1, <2>2 DEF BillInv
  <1>8. ASSUME NEW entries \in Seq(TraceEntry), EndStep(entries) PROVE BillInv'
    <2>1. /\ pc' \in {"round", "commit"} /\ bill' = bill /\ outcome' = outcome
          /\ Live'.spent = Live.spent + Owed
      <3>1. CASE pc = "calls"
        <4>1. Started = 1..Len(calls)
          BY <1>8, <3>1, CidsNow DEF EndStep, CidsOK, With, Started
        <4>2. Cardinality(Started) = Len(calls)
          BY <4>1, StartedFacts, FS_Interval
        <4>. QED BY <1>8, <3>1, <4>2 DEF EndStep, Moves, SameWorld, Owed
      <3>2. CASE pc = "sub"
        BY <1>8, <3>2 DEF EndStep, Moves, SameWorld, Owed
      <3>. QED BY <1>8, <3>1, <3>2 DEF EndStep
    <2>2. Owed' = 0
      BY <2>1 DEF Owed
    <2>3. Owed \in Nat
      BY <1>0, StartedFacts DEF Owed
    <2>. QED BY <1>0, <2>1, <2>2, <2>3 DEF BillInv
  <1>9. CASE StartCalls
    <2>1. /\ pc = "calls" /\ pc' = "calls" /\ Live' = Live /\ outcome' = outcome
          /\ Len(calls') = Len(calls) /\ bill' = bill + Cardinality(Startable)
          /\ outcome # "activity_failed"
      <3>1. ToolCost * Cardinality(Startable) = Cardinality(Startable)
        BY <1>9, StartedAdds DEF ToolCost
      <3>. QED BY <1>0, <1>9, <3>1, StartedCalls DEF StartCalls, Ask, Settled, Open
    <2>2. /\ Owed = Cardinality(Started) /\ Owed' = Cardinality(Started)'
          /\ Owed' = Owed + Cardinality(Startable)
          /\ Cardinality(Startable) \in Nat
      BY <1>9, <2>1, StartedAdds DEF Owed
    <2>3. Owed \in Nat /\ Owed' \in Nat /\ Len(calls) \in Nat /\ Owed' <= Len(calls)
      <3>1. Cardinality(Started)' <= Len(calls)
        BY <2>1, StartedFitNext DEF StartedFit
      <3>. QED BY <2>1, <2>2, <3>1, StartedFacts
    <2>4. /\ bill = Live.spent + Owed /\ Live.spent + Len(calls) <= Budget
      BY <2>1 DEF BillInv
    <2>5. /\ bill' = Live'.spent + Owed' /\ bill' <= Budget
          /\ Live'.spent + Len(calls') <= Budget
      <3>. DEFINE b == bill
                  s == Live.spent
                  o == Owed
                  k == Cardinality(Startable)
                  n == Len(calls)
      <3>1. /\ b = s + o /\ s + n <= Budget /\ o + k <= n
            /\ s \in Nat /\ o \in Nat /\ k \in Nat /\ n \in Nat /\ Budget \in Nat
            /\ bill' = b + k /\ Owed' = o + k /\ Live'.spent = s /\ Len(calls') = n
        BY <1>0, <2>1, <2>2, <2>3, <2>4
      <3>. HIDE DEF b, s, o, k, n
      <3>2. b + k = s + (o + k) /\ b + k <= Budget /\ s + n <= Budget
        BY <3>1
      <3>. QED BY <3>1, <3>2
    <2>. QED BY <2>1, <2>5 DEF BillInv
  <1>10. ASSUME NEW i \in DOMAIN calls, CallAnswers(i) \/ AttemptFails(i) PROVE BillInv'
    <2>1. /\ Len(calls') = Len(calls) /\ i \in 1..Len(calls)
          /\ \A j \in 1..Len(calls) : j # i => calls'[j] = calls[j]
          /\ calls'[i].status # "waiting" /\ calls[i].status # "waiting"
          /\ pc' = pc /\ Live' = Live /\ UNCHANGED <<bill, outcome>>
      BY <1>10, MovedCall
    <2>2. Started' = Started
      BY <2>1 DEF Started
    <2>3. Owed' = Owed
      BY <2>1, <2>2 DEF Owed
    <2>. QED BY <2>1, <2>3 DEF BillInv
  <1>11. CASE Failure
    <2>1. bill' = bill /\ pc' = "raise" /\ outcome' = "activity_failed"
      BY <1>11 DEF Failure, Fails
    <2>. QED BY <2>1 DEF BillInv
  <1>12. ASSUME NEW cid \in Cids, LateAttemptRuns(cid), Live' = Live PROVE BillInv'
    <2>1. UNCHANGED <<bill, calls, pc, outcome>>
      BY <1>12 DEF LateAttemptRuns, loop
    <2>2. Owed' = Owed
      BY <2>1 DEF Owed, Started
    <2>. QED BY <1>12, <2>1, <2>2 DEF BillInv
  <1>. QED BY <1>1, <1>2, <1>3, <1>4, <1>5, <1>6, <1>7, <1>8, <1>9, <1>10, <1>11, <1>12,
              NextKinds DEF Kinds


(* The counters: behind each wire tool, the calls made under its limited   *)
(* names, and those about to be made, are no more than were counted, and no*)
(* more were counted than one of those names allows.                       *)
Logged(w) ==
  {Live.trace[i].cid :
     i \in {j \in 1..Len(Live.trace) :
              Live.trace[j].decision = "call" /\ Limited(Live.trace[j].ref, w)}}
UpTo(n, w) == {i \in 1..n : Limited(calls[i].tool, w)}
Reserved(w) == IF pc = "calls" THEN Cardinality(UpTo(Len(calls), w)) ELSE 0
InLimit(count, w) == count > 0 => \E t \in Tools : Limited(t, w) /\ count <= Limit[t]
CountInv ==
  \A w \in Wires :
    /\ InLimit(Live.counts[w], w)
    /\ IsFiniteSet(Logged(w)) /\ Cardinality(Logged(w)) + Reserved(w) <= Live.counts[w]

LEMMA InitCount == Init => CountInv
  <1>. SUFFICES ASSUME Init PROVE CountInv
    OBVIOUS
  <1>1. pc = "boot" /\ Live = Blank
    BY DEF Init, Live, Carried
  <1>2. \A w \in Wires : Live.counts[w] = 0
    BY <1>1 DEF Blank
  <1>3. \A w : Logged(w) = {}
    BY <1>1, BlankType DEF Logged
  <1>. QED BY <1>1, <1>2, <1>3, FS_EmptySet DEF CountInv, InLimit, Reserved

LEMMA UpToFacts ==
  ASSUME BInv, NEW w \in Wires, NEW n \in 0..Len(calls)
  PROVE  IsFiniteSet(UpTo(n, w)) /\ Cardinality(UpTo(n, w)) \in Nat /\ n \in Nat
  <1>1. n \in Nat /\ UpTo(n, w) \subseteq 1..n
    BY CidsNow DEF UpTo, CidsOK
  <1>2. IsFiniteSet(1..n)
    BY <1>1, FS_Interval
  <1>3. IsFiniteSet(UpTo(n, w))
    BY <1>1, <1>2, FS_Subset
  <1>. QED BY <1>1, <1>3, FS_CardinalityType

LEMMA CountFields ==
  ASSUME BInv, NEW w \in Wires
  PROVE  /\ Live.counts[w] \in Nat /\ Reserved(w) \in Nat
         /\ IsFiniteSet(Logged(w)) => Cardinality(Logged(w)) \in Nat
  <1>1. Live.counts[w] \in Nat
    BY LiveNow DEF LiveOK
  <1>2. Len(calls) \in 0..Len(calls)
    BY CidsNow DEF CidsOK
  <1>. QED BY <1>1, <1>2, UpToFacts, FS_CardinalityType DEF Reserved

(* As long as no call is refused, the counters stay in their limits.       *)
LEMMA ChargedInLimit ==
  ASSUME BInv, CountInv, pc = "inputs", NEW n \in 0..Len(calls),
         \A i \in 1..n : ~Refused(i), NEW w \in Wires
  PROVE  /\ ChargedCounts(n)[w] = Live.counts[w] + Cardinality(UpTo(n, w))
         /\ InLimit(ChargedCounts(n)[w], w)
  <1>1. Live = state /\ w \in DOMAIN state.counts /\ state.counts[w] \in Nat
    <2>1. Live = state /\ Live.counts \in [Tools \cup Wires -> Nat]
      BY LiveNow DEF LiveOK, Loaded
    <2>. QED BY <2>1
  <1>2. \A m : ChargedCounts(m)[w] = Live.counts[w] + Cardinality(UpTo(m, w))
    <2>. TAKE m
    <2>1. UpTo(m, w) = {i \in 1..m : /\ CountKey(calls[i].tool) = w
                                     /\ Limit[calls[i].tool] # NoLimit}
      BY DEF UpTo, Limited, CountKey
    <2>. QED BY <1>1, <2>1 DEF ChargedCounts
  <1>3. CASE UpTo(n, w) = {}
    <2>1. ChargedCounts(n)[w] = Live.counts[w]
      <3>1. Cardinality(UpTo(n, w)) = 0
        BY <1>3, FS_EmptySet
      <3>2. Live.counts[w] \in Nat
        BY <1>1
      <3>3. ChargedCounts(n)[w] = Live.counts[w] + Cardinality(UpTo(n, w))
        BY <1>2
      <3>. QED BY <3>1, <3>2, <3>3
    <2>. QED BY <1>2, <2>1 DEF CountInv
  <1>4. CASE UpTo(n, w) # {}
    <2>. DEFINE P == UpTo(n, w)
    <2>1. n \in Nat /\ P \subseteq 1..n /\ P \subseteq Nat /\ \A y \in P : y <= n
      BY CidsNow DEF CidsOK, UpTo
    <2>. HIDE DEF P
    <2>2. PICK i \in P : \A y \in P : y <= i
      <3>1. Max(P) \in P /\ \A y \in P : Max(P) >= y
        BY <1>4, <2>1, MaxInSet DEF P
      <3>. QED BY <2>1, <3>1
    <2>3. i \in 1..n /\ i - 1 \in 0..Len(calls) /\ i \in 1..Len(calls)
      BY <2>1, <2>2, CidsNow DEF CidsOK
    <2>4. UpTo(i - 1, w) = P \ {i} /\ i \in P
      <3>1. \A j \in 1..n : j # i /\ j <= i <=> j \in 1..i - 1
        BY <2>1, <2>3
      <3>2. \A j \in 1..i - 1 : j \in 1..n
        BY <2>1, <2>3
      <3>3. \A j : j \in P <=> j \in 1..n /\ Limited(calls[j].tool, w)
        BY DEF P, UpTo
      <3>4. \A j : j \in UpTo(i - 1, w) <=> j \in 1..i - 1 /\ Limited(calls[j].tool, w)
        BY DEF UpTo
      <3>. QED BY <2>2, <3>1, <3>2, <3>3, <3>4
    <2>5. Cardinality(P) = Cardinality(UpTo(i - 1, w)) + 1
          /\ Cardinality(UpTo(i - 1, w)) \in Nat
      <3>1. IsFiniteSet(UpTo(i - 1, w)) /\ Cardinality(UpTo(i - 1, w)) \in Nat
        BY <2>3, UpToFacts
      <3>2. P = UpTo(i - 1, w) \cup {i} /\ i \notin UpTo(i - 1, w)
        BY <2>4
      <3>. QED BY <3>1, <3>2, FS_AddElement
    <2>6. ~Refused(i) /\ Limited(calls[i].tool, w) /\ calls[i].tool \in Tools
      BY <2>2, <2>3, CidsNow DEF CidsOK, P, UpTo
    <2>7. Limit[calls[i].tool] \in Nat
      BY <2>6, AgentAssumption DEF Limited
    <2>8. ~(ChargedCounts(i - 1)[w] >= Limit[calls[i].tool])
      BY <2>6 DEF Refused, Limited, CountKey
    <2>. DEFINE c == Live.counts[w]
                k == Cardinality(UpTo(i - 1, w))
                l == Limit[calls[i].tool]
    <2>9. /\ ChargedCounts(i - 1)[w] = c + k /\ ChargedCounts(n)[w] = c + (k + 1)
          /\ c \in Nat /\ k \in Nat /\ l \in Nat /\ ~(c + k >= l)
      BY <1>1, <1>2, <2>5, <2>7, <2>8 DEF P
    <2>. HIDE DEF c, k, l
    <2>10. ChargedCounts(n)[w] <= l
      <3>1. c + (k + 1) <= l
        BY <2>9
      <3>. QED BY <2>9, <3>1
    <2>. QED BY <1>2, <2>6, <2>10 DEF InLimit, l
  <1>. QED BY <1>3, <1>4

(* Steps that charge nothing.                                              *)
LEMMA CountKept ==
  ASSUME BInv, BInv', CountInv, Live'.counts = Live.counts,
         \A w \in Wires : Logged(w)' = Logged(w),
         pc' = "calls" => /\ pc = "calls" /\ Len(calls') = Len(calls)
                          /\ \A i \in 1..Len(calls) : calls'[i].tool = calls[i].tool
  PROVE  CountInv'
  <1>. SUFFICES ASSUME NEW w \in Wires
                PROVE  /\ InLimit(Live.counts[w], w)'
                       /\ IsFiniteSet(Logged(w))'
                       /\ (Cardinality(Logged(w)) + Reserved(w) <= Live.counts[w])'
    BY DEF CountInv
  <1>1. /\ InLimit(Live.counts[w], w) /\ IsFiniteSet(Logged(w))
        /\ Cardinality(Logged(w)) + Reserved(w) <= Live.counts[w]
    BY DEF CountInv
  <1>2. Reserved(w)' = 0 \/ Reserved(w)' = Reserved(w)
    <2>1. CASE pc' = "calls"
      <3>1. UpTo(Len(calls), w)' = UpTo(Len(calls), w)
        BY <2>1 DEF UpTo
      <3>. QED BY <2>1, <3>1 DEF Reserved
    <2>2. CASE pc' # "calls"
      BY <2>2 DEF Reserved
    <2>. QED BY <2>1, <2>2
  <1>3. Cardinality(Logged(w)) \in Nat /\ Reserved(w) \in Nat /\ Live.counts[w] \in Nat
    BY <1>1, CountFields
  <1>4. Cardinality(Logged(w))' = Cardinality(Logged(w))
    OBVIOUS
  <1>5. Cardinality(Logged(w))' + Reserved(w)' <= Live.counts[w]
    BY <1>1, <1>2, <1>3, <1>4
  <1>. QED BY <1>1, <1>5 DEF InLimit

(* The charge of a batch, up to the call that is refused, if one is.       *)
LEMMA CountCharged ==
  ASSUME BInv, BInv', CountInv, pc = "inputs", NEW n \in 0..Len(calls),
         \A i \in 1..n : ~Refused(i), Live'.counts = ChargedCounts(n),
         Live'.trace = Live.trace,
         pc' # "calls" \/ (pc' = "calls" /\ n = Len(calls) /\ calls' = calls)
  PROVE  CountInv'
  <1>. SUFFICES ASSUME NEW w \in Wires
                PROVE  /\ InLimit(Live.counts[w], w)'
                       /\ IsFiniteSet(Logged(w))'
                       /\ (Cardinality(Logged(w)) + Reserved(w) <= Live.counts[w])'
    BY DEF CountInv
  <1>1. /\ IsFiniteSet(Logged(w)) /\ Reserved(w) = 0
        /\ Cardinality(Logged(w)) + Reserved(w) <= Live.counts[w]
        /\ Cardinality(Logged(w)) \in Nat /\ Live.counts[w] \in Nat
    BY CountFields DEF CountInv, Reserved
  <1>2. /\ Live'.counts[w] = Live.counts[w] + Cardinality(UpTo(n, w))
        /\ InLimit(Live'.counts[w], w)
    BY ChargedInLimit
  <1>3. Logged(w)' = Logged(w)
    BY DEF Logged
  <1>4. Reserved(w)' = 0 \/ Reserved(w)' = Cardinality(UpTo(n, w))
    <2>1. CASE pc' = "calls"
      <3>1. UpTo(Len(calls), w)' = UpTo(n, w)
        BY <2>1 DEF UpTo
      <3>. QED BY <2>1, <3>1 DEF Reserved
    <2>2. CASE pc' # "calls"
      BY <2>2 DEF Reserved
    <2>. QED BY <2>1, <2>2
  <1>5. Cardinality(UpTo(n, w)) \in Nat
    BY UpToFacts
  <1>6. Cardinality(Logged(w)) + Reserved(w)' <= Live'.counts[w]
    <2>. DEFINE g == Cardinality(Logged(w))
                c == Live.counts[w]
                u == Cardinality(UpTo(n, w))
    <2>1. /\ g \in Nat /\ c \in Nat /\ u \in Nat /\ g <= c
          /\ Live'.counts[w] = c + u /\ (Reserved(w)' = 0 \/ Reserved(w)' = u)
      BY <1>1, <1>2, <1>4, <1>5
    <2>. HIDE DEF g, c, u
    <2>2. g + 0 <= c + u /\ g + u <= c + u
      BY <2>1
    <2>3. g + Reserved(w)' <= c + u
      BY <2>1, <2>2
    <2>. QED BY <2>1, <2>3 DEF g
  <1>. QED BY <1>1, <1>2, <1>3, <1>6 DEF InLimit


(* A batch that is done: what was reserved for its calls is recorded.      *)
LEMMA CountEnd ==
  ASSUME BInv, BInv', CountInv, NEW entries \in Seq(TraceEntry), EndStep(entries),
         pc = "calls"
  PROVE  CountInv'
  <1>. DEFINE T == Live.trace
              n == Len(T)
              m == Len(calls)
  <1>1. /\ Live'.trace = T \o entries /\ Live'.counts = Live.counts /\ pc' # "calls"
        /\ T \in Seq(TraceEntry) /\ n \in Nat /\ m \in Nat
        /\ entries = [i \in 1..m |->
                        Entry("call", calls[i].tool, Cid(i), calls[i].status = "failed")]
    <2>1. T \in Seq(TraceEntry) /\ n \in Nat /\ m \in Nat
      BY LiveNow, CidsNow, LenProperties DEF LiveOK, CidsOK
    <2>. QED BY <2>1 DEF EndStep, Moves
  <1>2. /\ Len(entries) = m
        /\ \A i \in 1..m : entries[i].cid = Cid(i) /\ entries[i].ref = calls[i].tool
    BY <1>1 DEF Entry
  <1>3. /\ Len(T \o entries) = n + m
        /\ \A i \in 1..(n + m) : \/ i \in 1..n /\ (T \o entries)[i] = T[i]
                                 \/ i - n \in 1..m /\ (T \o entries)[i] = entries[i - n]
    BY <1>1, <1>2, ConcatElement, ConcatProperties
  <1>. SUFFICES ASSUME NEW w \in Wires
                PROVE  /\ InLimit(Live.counts[w], w)'
                       /\ IsFiniteSet(Logged(w))'
                       /\ (Cardinality(Logged(w)) + Reserved(w) <= Live.counts[w])'
    BY DEF CountInv
  <1>. DEFINE P == UpTo(m, w)
              f == [i \in P |-> Cid(i)]
              I == {f[i] : i \in P}
  <1>4. /\ InLimit(Live.counts[w], w) /\ IsFiniteSet(Logged(w))
        /\ Cardinality(Logged(w)) + Cardinality(P) <= Live.counts[w]
        /\ Live.counts[w] \in Nat /\ Cardinality(Logged(w)) \in Nat
    BY CountFields DEF CountInv, Reserved
  <1>5. /\ IsFiniteSet(I) /\ Cardinality(I) <= Cardinality(P)
        /\ Cardinality(I) \in Nat /\ Cardinality(P) \in Nat
    <2>1. m \in 0..Len(calls)
      BY <1>1
    <2>2. IsFiniteSet(P)
      BY <2>1, UpToFacts
    <2>. HIDE DEF P, f
    <2>. QED BY <2>2, ImageCount
  <1>6. Logged(w)' \subseteq Logged(w) \cup I
    <2>. DEFINE both == T \o entries
    <2>0. Logged(w)' = {both[i].cid : i \in {j \in 1..(n + m) :
                          both[j].decision = "call" /\ Limited(both[j].ref, w)}}
      <3>1. Live'.trace = both /\ Len(both) = n + m
        BY <1>1, <1>3
      <3>. QED BY <3>1 DEF Logged
    <2>. HIDE DEF both
    <2>. SUFFICES ASSUME NEW i \in 1..(n + m),
                         both[i].decision = "call", Limited(both[i].ref, w)
                  PROVE  both[i].cid \in Logged(w) \cup I
      BY <2>0
    <2>. USE DEF both
    <2>1. CASE i \in 1..n /\ (T \o entries)[i] = T[i]
      BY <2>1 DEF Logged
    <2>2. CASE i - n \in 1..m /\ (T \o entries)[i] = entries[i - n]
      <3>1. PICK k \in 1..m : (T \o entries)[i] = entries[k]
        BY <2>2
      <3>2. k \in P /\ entries[k].cid = f[k]
        BY <1>2, <3>1 DEF UpTo
      <3>. QED BY <3>1, <3>2
    <2>. QED BY <1>3, <2>1, <2>2
  <1>. HIDE DEF P, I, T
  <1>7. /\ IsFiniteSet(Logged(w) \cup I)
        /\ Cardinality(Logged(w) \cup I) <= Cardinality(Logged(w)) + Cardinality(I)
    <2>1. /\ IsFiniteSet(Logged(w) \cup I)
          /\ Cardinality(Logged(w) \cup I)
               = Cardinality(Logged(w)) + Cardinality(I) - Cardinality(Logged(w) \cap I)
      BY <1>4, <1>5, FS_Union
    <2>2. Cardinality(Logged(w) \cap I) \in Nat
      <3>1. IsFiniteSet(Logged(w) \cap I)
        BY <1>4, FS_Subset
      <3>. QED BY <3>1, FS_CardinalityType
    <2>. QED BY <1>4, <1>5, <2>1, <2>2
  <1>8. /\ IsFiniteSet(Logged(w)') /\ Cardinality(Logged(w)') <= Cardinality(Logged(w) \cup I)
        /\ Cardinality(Logged(w)') \in Nat /\ Cardinality(Logged(w) \cup I) \in Nat
    BY <1>6, <1>7, FS_Subset, FS_CardinalityType
  <1>9. Reserved(w)' = 0
    BY <1>1 DEF Reserved
  <1>10. Cardinality(Logged(w)') + 0 <= Live.counts[w]
    BY <1>4, <1>5, <1>7, <1>8
  <1>. QED BY <1>1, <1>4, <1>8, <1>9, <1>10 DEF InLimit

LEMMA NextCount ==
  ASSUME BInv, BInv', [Next]_vars, CountInv
  PROVE  CountInv'
  <1>1. Live'.trace = Live.trace => \A w \in Wires : Logged(w)' = Logged(w)
    BY DEF Logged
  <1>2. CASE QuietStep
    <2>1. pc' = "calls" => pc = "calls"
      BY <1>2 DEF QuietStep
    <2>. QED BY <1>1, <1>2, <2>1, CountKept DEF QuietStep
  <1>3. CASE AskStep \/ SubStep
    BY <1>1, <1>3, CountKept DEF AskStep, SubStep
  <1>4. CASE PlanStep
    BY <1>1, <1>4, CountKept DEF PlanStep, Spends
  <1>5. CASE SettleStep
    <2>1. CASE pc = "inputs"
      <3>1. RefusedCalls # {} /\ RefusedCalls \subseteq 1..Len(calls) /\ Len(calls) \in Nat
            /\ RefusedCalls \subseteq Nat
        BY <1>5, <2>1, CidsNow DEF SettleStep, RefusedCalls, CidsOK
      <3>2. \E n \in RefusedCalls : \A k \in RefusedCalls : n <= k
        BY <3>1, LeastNumber
      <3>3. Min(RefusedCalls) \in RefusedCalls /\ \A k \in RefusedCalls : Min(RefusedCalls) <= k
        BY <3>2 DEF Min
      <3>. DEFINE r == Min(RefusedCalls)
      <3>4. r \in 1..Len(calls) /\ \A k \in RefusedCalls : r <= k
        BY <3>1, <3>3
      <3>. HIDE DEF r
      <3>5. r - 1 \in 0..Len(calls) /\ \A k \in 1..(r - 1) : k \in 1..Len(calls) /\ ~(r <= k)
        BY <3>1, <3>4
      <3>6. \A k \in 1..(r - 1) : ~Refused(k)
        BY <3>4, <3>5, CidsNow DEF RefusedCalls, CidsOK
      <3>7. Live'.counts = ChargedCounts(r - 1) /\ Live'.trace = Live.trace /\ pc' # "calls"
        BY <1>5, <2>1 DEF SettleStep, Spends, r
      <3>. QED BY <2>1, <3>5, <3>6, <3>7, CountCharged
    <2>2. CASE pc # "inputs"
      BY <1>1, <1>5, <2>2, CountKept DEF SettleStep, Spends
    <2>. QED BY <2>1, <2>2
  <1>6. CASE ChargeStep
    <2>1. Len(calls) \in 0..Len(calls) /\ \A k \in 1..Len(calls) : ~Refused(k)
      BY <1>6, CidsNow DEF ChargeStep, RefusedCalls, CidsOK
    <2>. QED BY <1>6, <2>1, CountCharged DEF ChargeStep, Spends
  <1>7. ASSUME NEW entries \in Seq(TraceEntry), ReaskStep(entries) \/ EndStep(entries),
               pc # "calls"
        PROVE  CountInv'
    <2>1. /\ Live'.trace = Live.trace \o entries /\ Live'.counts = Live.counts
          /\ pc' # "calls"
      BY <1>7 DEF ReaskStep, EndStep, Moves
    <2>2. \A i \in 1..Len(entries) : entries[i].decision # "call"
      <3>1. CASE ReaskStep(entries)
        BY <3>1 DEF ReaskStep
      <3>2. CASE EndStep(entries)
        <4>1. entries = <<Entry("sub", NoTool, <<"sub", Live.round>>, FALSE)>>
          BY <1>7, <3>2 DEF EndStep
        <4>. QED BY <4>1 DEF Entry
      <3>. QED BY <1>7, <3>1, <3>2
    <2>. DEFINE T == Live.trace
                n == Len(T)
                m == Len(entries)
    <2>3. /\ T \in Seq(TraceEntry) /\ n \in Nat /\ m \in Nat
          /\ Len(T \o entries) = n + m
          /\ \A i \in 1..(n + m) : \/ i \in 1..n /\ (T \o entries)[i] = T[i]
                                   \/ i - n \in 1..m /\ (T \o entries)[i] = entries[i - n]
          /\ \A i \in 1..n : i \in 1..(n + m) /\ (T \o entries)[i] = T[i]
      <3>1. T \in Seq(TraceEntry) /\ n \in Nat /\ m \in Nat
        BY LiveNow, LenProperties DEF LiveOK
      <3>2. /\ Len(T \o entries) = n + m
            /\ \A i \in 1..(n + m) :
                 (T \o entries)[i] = IF i <= n THEN T[i] ELSE entries[i - n]
        BY <3>1, ConcatProperties
      <3>3. \A i \in 1..(n + m) :
              (i \in 1..n /\ i <= n) \/ (i - n \in 1..m /\ ~(i <= n))
        BY <3>1
      <3>4. \A i \in 1..n : i \in 1..(n + m) /\ i <= n
        BY <3>1
      <3>. HIDE DEF T
      <3>. QED BY <3>1, <3>2, <3>3, <3>4
    <2>4. ASSUME NEW w \in Wires PROVE Logged(w)' = Logged(w)
      <3>. DEFINE both == T \o entries
      <3>1. Logged(w)' = {both[i].cid : i \in {j \in 1..(n + m) :
                            both[j].decision = "call" /\ Limited(both[j].ref, w)}}
        BY <2>1, <2>3 DEF Logged
      <3>2. \A i \in 1..(n + m) : both[i].decision = "call" => i \in 1..n /\ both[i] = T[i]
        BY <2>2, <2>3
      <3>3. \A i \in 1..n : i \in 1..(n + m) /\ both[i] = T[i]
        BY <2>3
      <3>4. Logged(w) = {T[i].cid : i \in {j \in 1..n :
                            T[j].decision = "call" /\ Limited(T[j].ref, w)}}
        BY DEF Logged
      <3>. HIDE DEF T, both, n, m
      <3>5. \A i \in 1..(n + m) : both[i].decision = "call" /\ Limited(both[i].ref, w) =>
              both[i].cid \in Logged(w)
        BY <3>2, <3>4
      <3>6. \A i \in 1..n : T[i].decision = "call" /\ Limited(T[i].ref, w) =>
              T[i].cid \in Logged(w)'
        BY <3>1, <3>3
      <3>7. Logged(w)' \subseteq Logged(w)
        BY <3>1, <3>5
      <3>8. Logged(w) \subseteq Logged(w)'
        BY <3>4, <3>6
      <3>. QED BY <3>7, <3>8
    <2>. QED BY <2>1, <2>4, CountKept
  <1>8. ASSUME NEW entries \in Seq(TraceEntry), ReaskStep(entries) \/ EndStep(entries),
               pc = "calls"
        PROVE  CountInv'
    BY <1>8, CountEnd DEF ReaskStep
  <1>9. CASE StartCalls
    <2>1. pc' = pc
      BY <1>9 DEF StartCalls
    <2>. QED BY <1>1, <1>9, <2>1, StartedCalls, CountKept
  <1>10. ASSUME NEW i \in DOMAIN calls, CallAnswers(i) \/ AttemptFails(i) PROVE CountInv'
    <2>1. /\ Len(calls') = Len(calls) /\ Live' = Live /\ pc' = pc
          /\ \A j \in 1..Len(calls) : calls'[j].tool = calls[j].tool
      BY <1>10, MovedCall
    <2>. QED BY <1>1, <2>1, CountKept
  <1>11. CASE Live' = Live /\ (Failure \/ \E cid \in Cids : LateAttemptRuns(cid))
    <2>1. pc' # "calls" \/ UNCHANGED <<pc, calls>>
      BY <1>11 DEF Failure, Fails, LateAttemptRuns, loop
    <2>. QED BY <1>1, <1>11, <2>1, CountKept
  <1>. QED BY <1>2, <1>3, <1>4, <1>5, <1>6, <1>7, <1>8, <1>9, <1>10, <1>11, NextKinds
           DEF Kinds

(* The account tells what the budget and the limits allow, over all        *)
(* segments and failures: nothing is asked for that the budget has no room *)
(* for, what is charged is what was asked for whenever nothing is under    *)
(* way, and the calls behind a wire tool stay within the largest limit of  *)
(* its names.                                                              *)
THEOREM AccountsAreKept == Spec => []AccountsKept
  <1>1. ASSUME BInv, BillInv PROVE AccountExact
    BY <1>1, LiveNow DEF AccountExact, BillInv, Owed, LiveOK
  <1>2. ASSUME BInv, EffectInv, CountInv, NEW w \in Wires
        PROVE  LET made == {e.cid : e \in {f \in CallEntries : Limited(f.ref, w)}} \cup
                           {Cid(i) : i \in {j \in DOMAIN calls \ With("waiting") :
                                              Limited(calls[j].tool, w)}}
                   limits == {Limit[t] : t \in {u \in Tools : Limited(u, w)}}
               IN  made # {} => \E limit \in limits : Cardinality(made) <= limit
    <2>. DEFINE made == {e.cid : e \in {f \in CallEntries : Limited(f.ref, w)}} \cup
                           {Cid(i) : i \in {j \in DOMAIN calls \ With("waiting") :
                                              Limited(calls[j].tool, w)}}
                P == IF pc = "calls" THEN UpTo(Len(calls), w) ELSE {}
                f == [i \in P |-> Cid(i)]
                I == {f[i] : i \in P}
    <2>1. made \subseteq Logged(w) \cup I
      <3>1. ASSUME NEW e \in CallEntries, Limited(e.ref, w) PROVE e.cid \in Logged(w)
        <4>1. PICK i \in 1..Len(Live.trace) : e = Live.trace[i]
          BY <1>2, TraceFields DEF CallEntries, Range
        <4>. QED BY <3>1, <4>1 DEF Logged, CallEntries
      <3>2. ASSUME NEW i \in DOMAIN calls \ With("waiting"), Limited(calls[i].tool, w)
            PROVE  Cid(i) \in I
        <4>1. pc = "calls" /\ i \in 1..Len(calls)
          BY <1>2, CidsNow DEF CidsOK, BatchInv, EffectInv, With
        <4>. QED BY <3>2, <4>1 DEF UpTo
      <3>. QED BY <3>1, <3>2
    <2>2. /\ IsFiniteSet(P) /\ IsFiniteSet(Logged(w))
          /\ Cardinality(Logged(w)) \in Nat /\ Live.counts[w] \in Nat
          /\ Cardinality(Logged(w)) + Cardinality(P) <= Live.counts[w]
      <3>1. /\ IsFiniteSet(Logged(w)) /\ Cardinality(Logged(w)) \in Nat
            /\ Live.counts[w] \in Nat
            /\ Cardinality(Logged(w)) + Reserved(w) <= Live.counts[w]
        BY <1>2, CountFields DEF CountInv
      <3>2. Len(calls) \in 0..Len(calls)
        BY <1>2, CidsNow DEF CidsOK
      <3>3. IsFiniteSet(P) /\ Cardinality(P) = Reserved(w)
        BY <1>2, <3>2, UpToFacts, FS_EmptySet DEF Reserved
      <3>. QED BY <3>1, <3>3
    <2>. HIDE DEF P, f
    <2>3. /\ IsFiniteSet(I) /\ Cardinality(I) <= Cardinality(P)
          /\ Cardinality(I) \in Nat /\ Cardinality(P) \in Nat
      BY <2>2, ImageCount
    <2>. HIDE DEF I, made
    <2>4. /\ IsFiniteSet(Logged(w) \cup I)
          /\ Cardinality(Logged(w) \cup I)
               = Cardinality(Logged(w)) + Cardinality(I) - Cardinality(Logged(w) \cap I)
          /\ Cardinality(Logged(w) \cap I) \in Nat
      <3>1. IsFiniteSet(Logged(w) \cap I)
        BY <2>2, FS_Subset
      <3>. QED BY <2>2, <2>3, <3>1, FS_Union, FS_CardinalityType
    <2>5. /\ IsFiniteSet(made) /\ Cardinality(made) <= Cardinality(Logged(w) \cup I)
          /\ Cardinality(made) \in Nat /\ Cardinality(Logged(w) \cup I) \in Nat
      BY <2>1, <2>4, FS_Subset, FS_CardinalityType
    <2>6. Cardinality(made) <= Live.counts[w]
      BY <2>2, <2>3, <2>4, <2>5
    <2>7. ASSUME made # {}
          PROVE  \E limit \in {Limit[t] : t \in {u \in Tools : Limited(u, w)}} :
                   Cardinality(made) <= limit
      <3>1. Cardinality(made) > 0
        BY <2>5, <2>7, FS_EmptySet
      <3>2. Live.counts[w] > 0
        BY <2>2, <2>5, <2>6, <3>1
      <3>3. PICK t \in Tools : Limited(t, w) /\ Live.counts[w] <= Limit[t]
        BY <1>2, <3>2 DEF CountInv, InLimit
      <3>4. Limit[t] \in Nat
        BY <3>3, AgentAssumption DEF Limited
      <3>5. Cardinality(made) <= Limit[t]
        BY <2>2, <2>5, <2>6, <3>3, <3>4
      <3>. QED BY <3>3, <3>5
    <2>. QED BY <2>7 DEF made
  <1>3. ASSUME BInv, EffectInv, BillInv, CountInv PROVE AccountsKept
    <2>1. BillWithinBudget
      BY <1>3 DEF BillWithinBudget, BillInv
    <2>2. CallsWithinLimit
      BY <1>2, <1>3 DEF CallsWithinLimit
    <2>. QED BY <1>1, <1>3, <2>1, <2>2 DEF AccountsKept
  <1>. QED BY <1>3, BaseHolds, InitEffect, NextEffect, InitBill, NextBill, InitCount,
              NextCount, PTL DEF Spec


-----------------------------------------------------------------------------
(* The accounts of a run implement AgentLedger.  A state function of the   *)
(* loop is charged with what the controller or an action costs in the step *)
(* that records it, which the bill shows the budget to have room for.      *)
Account == <<Live.round, Live.spent, Live.trace, outcome>>

LEMMA LedgerInit == Init => Ledger!Init
  <1>1. Init => Live = Blank /\ outcome = Open
    BY DEF Init, Live, Carried
  <1>. QED BY <1>1, BlankType DEF Ledger!Init

LEMMA LedgerEnds ==
  ASSUME BInv, BInv', BillInv, NEW cost \in Nat, NEW entries \in Seq(TraceEntry),
         Moves(cost, entries), Len(entries) > 0, pc \in Busy, outcome' = outcome,
         Live.spent + cost <= Budget
  PROVE  /\ Ledger!Charge(cost) /\ Ledger!EndRound /\ outcome = Open
         /\ cost \in 0..Budget
  <1>1. /\ Live.trace \in Seq(TraceEntry) /\ Live.spent \in Nat /\ Budget \in Nat
        /\ pc \notin Settled /\ Loaded
    BY LiveNow, Constants DEF LiveOK, Busy, Settled, Loaded
  <1>2. outcome = Open /\ Live.round < MaxRounds
    BY <1>1, LiveNow DEF BInv, TInv, Shape, LiveOK
  <1>3. /\ Live'.round = Live.round + 1 /\ Live'.spent = Live.spent + cost
        /\ Live'.trace = Live.trace \o entries
    BY DEF Moves
  <1>4. Len(Live'.trace) > Len(Live.trace) /\ SubSeq(Live'.trace, 1, Len(Live.trace)) = Live.trace
    BY <1>1, <1>3, ConcatGrows
  <1>5. cost \in 0..Budget
    BY <1>1
  <1>. QED BY <1>2, <1>3, <1>4, <1>5 DEF Ledger!Charge, Ledger!EndRound

LEMMA LedgerNext ==
  ASSUME BInv, BInv', [Next]_vars, BillInv
  PROVE  [Ledger!Next]_Account
  <1>0. /\ outcome = Open <=> pc \notin Settled
        /\ Live.spent \in Nat /\ bill \in Nat /\ Budget \in Nat /\ ThinkCost \in Nat
        /\ bill <= Budget
        /\ outcome # "activity_failed" => bill = Live.spent + Owed
        /\ Open # "activity_failed"
    BY LiveNow, Constants DEF BInv, TInv, Shape, LiveOK, WorldOK, BillInv, Open
  <1>a. Owed \in Nat
    BY <1>0, StartedFacts DEF Owed, SubCost
  <1>b. pc \notin Settled => Live.spent + Owed <= Budget
    <2>. DEFINE s == Live.spent
                o == Owed
    <2>1. pc \notin Settled => bill = s + o
      BY <1>0
    <2>. HIDE DEF s, o
    <2>2. pc \notin Settled => s + o <= Budget
      BY <1>0, <2>1
    <2>. QED BY <2>2 DEF s, o
  <1>1. ASSUME pc = "think"
        PROVE  /\ Live.round < MaxRounds /\ Live.spent + ThinkCost <= Budget
               /\ outcome = Open /\ pc \in Busy
    <2>1. pc \in Busy /\ pc \notin Settled /\ Loaded /\ Owed = ThinkCost
      BY <1>1 DEF Busy, Settled, Loaded, Owed
    <2>2. Live.spent + ThinkCost <= Budget /\ outcome = Open
      BY <1>0, <1>b, <2>1
    <2>3. Live.round < MaxRounds
      BY <2>1, LiveNow DEF BInv, TInv, Shape, LiveOK
    <2>. QED BY <2>1, <2>2, <2>3
  <1>2. CASE QuietStep \/ AskStep \/ ChargeStep \/ SubStep
    <2>1. UNCHANGED Account
      <3>1. CASE QuietStep
        BY <3>1 DEF Account, QuietStep
      <3>2. CASE AskStep
        BY <3>2 DEF Account, AskStep
      <3>3. CASE SubStep
        BY <3>3 DEF Account, SubStep
      <3>4. CASE ChargeStep
        BY <1>0, <3>4 DEF Account, ChargeStep, Spends
      <3>. QED BY <1>2, <3>1, <3>2, <3>3, <3>4
    <2>. QED BY <2>1
  <1>3. CASE SettleStep
    <2>1. /\ outcome' \in Outcomes /\ Live'.round = Live.round /\ Live'.trace = Live.trace
          /\ Live'.spent = Live.spent + Thinking /\ outcome = Open
      BY <1>0, <1>3 DEF SettleStep, Spends, Settled
    <2>2. CASE pc = "think"
      <3>1. Ledger!Charge(ThinkCost) /\ Ledger!Settle
        BY <1>1, <2>1, <2>2 DEF Ledger!Charge, Ledger!Settle, Thinking
      <3>2. Ledger!Think
        BY <1>1, <2>1, <2>2, <3>1 DEF Ledger!Think
      <3>. QED BY <3>2 DEF Ledger!Next
    <2>3. CASE pc # "think"
      <3>1. Live'.spent = Live.spent
        BY <1>0, <2>1, <2>3 DEF Thinking
      <3>2. Ledger!End
        BY <2>1, <3>1 DEF Ledger!End, Ledger!Settle
      <3>. QED BY <3>2 DEF Ledger!Next
    <2>. QED BY <2>2, <2>3
  <1>4. CASE PlanStep
    <2>1. /\ pc = "think" /\ outcome' = outcome /\ Live'.round = Live.round
          /\ Live'.trace = Live.trace /\ Live'.spent = Live.spent + ThinkCost
      BY <1>4 DEF PlanStep, Spends
    <2>2. Ledger!Charge(ThinkCost)
      BY <1>1, <2>1 DEF Ledger!Charge
    <2>3. Ledger!Think
      BY <1>1, <2>1, <2>2 DEF Ledger!Think
    <2>. QED BY <2>3 DEF Ledger!Next
  <1>5. ASSUME NEW entries \in Seq(TraceEntry), ReaskStep(entries)
        PROVE  Ledger!Next
    <2>1. /\ Moves(Thinking, entries) /\ Len(entries) > 0 /\ outcome' = outcome
          /\ pc \in Busy /\ pc \notin Settled /\ Owed = Thinking
      BY <1>5 DEF ReaskStep, Busy, Settled, Owed, Thinking
    <2>2. Live.spent + Thinking <= Budget /\ Thinking \in Nat
      BY <1>a, <1>b, <2>1
    <2>3. /\ Ledger!Charge(Thinking) /\ Ledger!EndRound /\ outcome = Open
          /\ Thinking \in 0..Budget
      BY <2>1, <2>2, LedgerEnds
    <2>4. CASE pc = "think"
      <3>1. Thinking = ThinkCost
        BY <2>4 DEF Thinking
      <3>2. Ledger!Think
        BY <1>1, <2>3, <2>4, <3>1 DEF Ledger!Think
      <3>. QED BY <3>2 DEF Ledger!Next
    <2>5. CASE pc # "think"
      <3>1. Ledger!Act
        BY <2>3 DEF Ledger!Act
      <3>. QED BY <3>1 DEF Ledger!Next
    <2>. QED BY <2>4, <2>5
  <1>6. ASSUME NEW entries \in Seq(TraceEntry), EndStep(entries)
        PROVE  Ledger!Next
    <2>1. /\ Len(entries) > 0 /\ outcome' = outcome /\ pc \in Busy /\ pc \notin Settled
          /\ Moves(Owed, entries)
      <3>1. CASE pc = "calls" /\ With("waiting") \cup With("running") = {}
        <4>1. Started = 1..Len(calls)
          BY <3>1, CidsNow DEF CidsOK, With, Started
        <4>2. Cardinality(Started) = Len(calls)
          BY <4>1, StartedFacts, FS_Interval
        <4>. QED BY <1>6, <3>1, <4>2 DEF EndStep, Owed, Busy, Settled
      <3>2. CASE pc = "sub"
        BY <1>6, <3>2 DEF EndStep, Owed, Busy, Settled
      <3>. QED BY <1>6, <3>1, <3>2 DEF EndStep
    <2>2. Owed \in Nat /\ Live.spent + Owed <= Budget
      BY <1>a, <1>b, <2>1
    <2>3. Ledger!Charge(Owed) /\ Ledger!EndRound /\ outcome = Open /\ Owed \in 0..Budget
      BY <2>1, <2>2, LedgerEnds
    <2>4. Ledger!Act
      BY <2>3 DEF Ledger!Act
    <2>. QED BY <2>4 DEF Ledger!Next
  <1>7. CASE /\ Live' = Live
             /\ \/ StartCalls \/ Failure
                \/ \E i \in DOMAIN calls : CallAnswers(i) \/ AttemptFails(i)
                \/ \E cid \in Cids : LateAttemptRuns(cid)
    <2>1. CASE outcome' = outcome
      BY <1>7, <2>1 DEF Account
    <2>2. CASE outcome' = "activity_failed" /\ pc \notin Settled
      <3>1. Ledger!End
        BY <1>0, <1>7, <2>2 DEF Ledger!End, Ledger!Settle, Outcomes
      <3>. QED BY <3>1 DEF Ledger!Next
    <2>3. outcome' = outcome \/ (outcome' = "activity_failed" /\ pc \notin Settled)
      BY <1>7 DEF StartCalls, Failure, Fails, CallAnswers, AttemptFails,
         LateAttemptRuns, loop, Settled
    <2>. QED BY <2>1, <2>2, <2>3
  <1>. QED BY <1>2, <1>3, <1>4, <1>5, <1>6, <1>7, NextKinds DEF Kinds

(* The accounts of a run, wherever its state is and in whatever segments,  *)
(* implement AgentLedger: rounds, cost and actions only grow, nothing is   *)
(* charged beyond the budget, and a run that settled changes no more.      *)
THEOREM AgentImplementsLedger == Spec => ImplementsLedger
  <1>1. BInv /\ BInv' /\ [Next]_vars /\ BillInv => [Ledger!Next]_Account
    BY LedgerNext
  <1>2. Account = <<Live.round, Live.spent, Live.trace, outcome>>
    BY DEF Account
  <1>. QED BY <1>1, BaseHolds, InitEffect, NextEffect, InitBill, NextBill, LedgerInit,
              PTL DEF Spec, ImplementsLedger, Ledger!Spec, Ledger!vars, Account
=============================================================================
