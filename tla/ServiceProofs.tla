---------------------------- MODULE ServiceProofs ----------------------------
(***************************************************************************)
(* Proofs about services that runs share, each on its own: ModelCalls, for *)
(* any chain, budgets and threshold (a call follows its policy),           *)
(* ReasonerCall, for any skills, error budget and re-asks (a call stays    *)
(* one call), WorkerRegistry, for any bundles, pures, sources and runs (a  *)
(* run computes with the sources that its bundle pins), and the two sweeps,*)
(* for any bundles, runs and values, shared between them in any way, and   *)
(* any number of sweeps (gc() of the artifact store spares leased code, the*)
(* retention sweep of the projection spares what is referred to); about a  *)
(* flow on the DBOS backend, for any flow, limit, submissions and crashes  *)
(* (its recoveries are faithful); about the collectors, for any window and *)
(* any number of submissions (they lose nothing, and fire for a reason and *)
(* once there is one), and the coalescer, for any callers and batch (it    *)
(* forgets nobody); and about sessions outside Temporal: a local one, for  *)
(* any channel and limits (it ends as it says), and one on managed agents, *)
(* for any costs and limits (its turns stay in their bounds).              *)
(***************************************************************************)
EXTENDS WorkerRegistry, Sweeps, ModelCalls, ReasonerCall, DbosChain, Collector,
        Coalescer, CmaSession, LocalSession, DataLemmas, TLAPS

-----------------------------------------------------------------------------
(* The pures of a worker.                                                  *)
RunRecord ==
  [bundle : Versions \union {Absent}, pc : {"new", "register", "runs", "replayed", "failed"},
   left : SUBSET Pures, look : Pures \union {Absent}]

WorkerTypeOK ==
  /\ registry = [p \in Pures |-> registry[p]]
  /\ run \in [Runs -> RunRecord]
  /\ crossed \subseteq Pures

(* A pure is looked at while it is left to register, by a run that has a   *)
(* bundle.                                                                 *)
LooksAtLeft ==
  \A r \in Runs :
    /\ run[r].look # Absent => run[r].pc = "register" /\ run[r].look \in run[r].left
    /\ run[r].left # {} => run[r].pc = "register"
    /\ run[r].pc \in {"register", "runs"} => run[r].bundle \in Versions
    /\ run[r].left \subseteq {p \in Pures : SourceOf[run[r].bundle][p] # Absent}

(* What was seen of an entry still holds when it is set, unless another    *)
(* thread set it in between.                                               *)
LookStillHolds ==
  \A r \in Runs : run[r].look # Absent /\ run[r].look \notin crossed =>
    Agrees(run[r].bundle, run[r].look)

WorkerInv ==
  WorkerTypeOK /\ LooksAtLeft /\ LookStillHolds /\ RunsItsPures

-----------------------------------------------------------------------------
(* An image gives each pure an entry.                                      *)
LEMMA ImagesType ==
  ASSUME NEW g \in Images
  PROVE  g = [p \in Pures |-> g[p]]
  BY DEF Images

LEMMA InitInv == WorkerInit => WorkerInv
  <1>. SUFFICES ASSUME WorkerInit PROVE WorkerInv
    OBVIOUS
  <1>1. WorkerTypeOK
    BY ImagesType DEF WorkerInit, WorkerTypeOK, RunRecord
  <1>2. LooksAtLeft /\ LookStillHolds /\ RunsItsPures
    BY DEF WorkerInit, LooksAtLeft, LookStillHolds, RunsItsPures
  <1>. QED BY <1>1, <1>2 DEF WorkerInv

LEMMA ResolveKeepsInv ==
  ASSUME WorkerInv, NEW r \in Runs, Resolve(r)
  PROVE  WorkerInv'
  <1>. USE DEF WorkerInv
  <1>. DEFINE Present(b) == {p \in Pures : SourceOf[b][p] # Absent}
  <1>1. PICK b \in IF run[r].bundle = Absent THEN Versions ELSE {run[r].bundle} :
          run' = [run EXCEPT ![r] =
            IF \A p \in Pures : Agrees(b, p)
            THEN [@ EXCEPT !.bundle = b, !.pc = "register", !.left = Present(b)]
            ELSE [@ EXCEPT !.bundle = b, !.pc = Refused(r)]]
    BY DEF Resolve
  <1>2. run[r].pc = "new" /\ UNCHANGED <<registry, crossed>>
    BY DEF Resolve
  <1>3. run[r] \in RunRecord /\ run \in [Runs -> RunRecord]
    BY DEF WorkerTypeOK
  <1>4. b \in Versions
    BY <1>1, <1>3 DEF RunRecord
  <1>5. Present(b) \in SUBSET Pures
    OBVIOUS
  <1>6. run[r].look = Absent /\ run[r].left = {}
    BY <1>2, <1>3 DEF LooksAtLeft
  <1>7. /\ \A o \in Runs \ {r} : run'[o] = run[o]
        /\ run' = [run EXCEPT ![r] = run'[r]]
    BY <1>1, <1>3
  <1>8. \/ run'[r] = [run[r] EXCEPT !.bundle = b, !.pc = "register", !.left = Present(b)]
        \/ run'[r] = [run[r] EXCEPT !.bundle = b, !.pc = Refused(r)]
    BY <1>1, <1>3
  <1>9. /\ run'[r] \in RunRecord /\ run'[r].look = Absent /\ run'[r].bundle = b
        /\ run'[r].pc \in {"register", "new", "failed"}
        /\ \/ run'[r].left = {}
           \/ run'[r].left = Present(b) /\ run'[r].pc = "register"
    <2>. HIDE DEF Present
    <2>1. Refused(r) \in {"new", "failed"}
      BY DEF Refused
    <2>. QED BY <1>3, <1>4, <1>5, <1>6, <1>8, <2>1 DEF RunRecord
  <1>10. WorkerTypeOK'
    BY <1>2, <1>3, <1>7, <1>9 DEF WorkerTypeOK
  <1>11. LooksAtLeft'
    BY <1>4, <1>7, <1>9 DEF LooksAtLeft
  <1>12. LookStillHolds'
    BY <1>2, <1>7, <1>9 DEF LookStillHolds, Agrees
  <1>13. RunsItsPures'
    BY <1>2, <1>7, <1>9 DEF RunsItsPures, ComputesWithItsPures
  <1>. QED BY <1>10, <1>11, <1>12, <1>13

LEMMA LookUpKeepsInv ==
  ASSUME WorkerInv, NEW r \in Runs, LookUp(r)
  PROVE  WorkerInv'
  <1>. USE DEF WorkerInv
  <1>1. PICK p \in run[r].left : Look(r, p)
    BY DEF LookUp
  <1>2. run[r].pc = "register" /\ run[r].look = Absent /\ UNCHANGED <<registry, crossed>>
    BY DEF LookUp
  <1>3. run[r] \in RunRecord /\ run \in [Runs -> RunRecord] /\ p \in Pures
    BY DEF WorkerTypeOK, RunRecord
  <1>4. \A o \in Runs \ {r} : run'[o] = run[o]
    BY <1>1, <1>3 DEF Look
  <1>5. CASE Agrees(run[r].bundle, p)
    <2>1. run'[r] = [run[r] EXCEPT !.look = p] /\ run' = [run EXCEPT ![r] = run'[r]]
      BY <1>1, <1>3, <1>5 DEF Look
    <2>2. /\ run'[r] \in RunRecord /\ run'[r].look = p
          /\ run'[r].bundle = run[r].bundle /\ run'[r].pc = run[r].pc
          /\ run'[r].left = run[r].left
      BY <1>3, <2>1 DEF RunRecord
    <2>3. WorkerTypeOK'
      BY <1>2, <1>3, <2>1, <2>2 DEF WorkerTypeOK
    <2>4. LooksAtLeft'
      BY <1>2, <1>4, <2>2 DEF LooksAtLeft
    <2>5. LookStillHolds'
      BY <1>2, <1>4, <1>5, <2>2 DEF LookStillHolds, Agrees
    <2>6. RunsItsPures'
      BY <1>2, <1>4, <2>2 DEF RunsItsPures, ComputesWithItsPures
    <2>. QED BY <2>3, <2>4, <2>5, <2>6
  <1>6. CASE ~Agrees(run[r].bundle, p)
    <2>. DEFINE pc == Refused(r)
    <2>0. pc \in {"new", "failed"}
      BY DEF Refused
    <2>. HIDE DEF pc
    <2>1. run'[r] = [run[r] EXCEPT !.pc = pc, !.left = {}]
          /\ run' = [run EXCEPT ![r] = run'[r]]
      BY <1>1, <1>3, <1>6 DEF Look, pc
    <2>2. /\ run'[r] \in RunRecord /\ run'[r].look = Absent
          /\ run'[r].pc \in {"new", "failed"} /\ run'[r].left = {}
      BY <1>2, <1>3, <2>0, <2>1 DEF RunRecord
    <2>3. WorkerTypeOK'
      BY <1>2, <1>3, <2>1, <2>2 DEF WorkerTypeOK
    <2>4. LooksAtLeft'
      BY <1>4, <2>2 DEF LooksAtLeft
    <2>5. LookStillHolds'
      BY <1>2, <1>4, <2>2 DEF LookStillHolds, Agrees
    <2>6. RunsItsPures'
      BY <1>2, <1>4, <2>2 DEF RunsItsPures, ComputesWithItsPures
    <2>. QED BY <2>3, <2>4, <2>5, <2>6
  <1>. QED BY <1>5, <1>6

(* The entry that is set was seen empty or with the same source: whoever   *)
(* runs with it loses nothing, and whoever looks at it now is crossed.     *)
LEMMA RegisterKeepsInv ==
  ASSUME WorkerInv, NEW r \in Runs, RegisterPure(r)
  PROVE  WorkerInv'
  <1>. USE DEF WorkerInv
  <1>. DEFINE p == run[r].look
              src == SourceOf[run[r].bundle][p]
              rest == run[r].left \ {p}
              later == [run[r] EXCEPT !.left = rest, !.look = Absent]
  <1>1. /\ run[r].pc = "register" /\ p # Absent
        /\ registry' = [registry EXCEPT ![p] = src]
        /\ run' = [run EXCEPT ![r] = later]
        /\ crossed' = crossed \union {q \in {p} : \E o \in Runs \ {r} : run[o].look = q}
    BY DEF RegisterPure
  <1>2. run[r] \in RunRecord /\ run \in [Runs -> RunRecord] /\ p \in Pures
    BY <1>1 DEF WorkerTypeOK, RunRecord
  <1>4. /\ run'[r] \in RunRecord /\ run'[r].look = Absent
        /\ run'[r].pc = run[r].pc /\ run'[r].bundle = run[r].bundle
        /\ run'[r].left = rest
    <2>1. rest \in SUBSET Pures
      BY <1>2 DEF RunRecord
    <2>2. run'[r] = later
      <3>. HIDE DEF later
      <3>. QED BY <1>1, <1>2
    <2>. HIDE DEF rest
    <2>. QED BY <1>2, <2>1, <2>2 DEF RunRecord
  <1>5. (\A o \in Runs \ {r} : run'[o] = run[o]) /\ run' = [run EXCEPT ![r] = run'[r]]
    <2>. HIDE DEF later
    <2>. QED BY <1>1, <1>2
  <1>6. /\ registry'[p] = src
        /\ \A q \in Pures \ {p} : registry'[q] = registry[q]
        /\ registry' = [q \in Pures |-> registry'[q]]
    BY <1>1, <1>2 DEF WorkerTypeOK
  <1>7. src # Absent
    BY <1>1 DEF LooksAtLeft
  <1>8. p \notin crossed => registry[p] \in {Absent, src}
    BY <1>1, <1>7 DEF LookStillHolds, Agrees
  <1>9. WorkerTypeOK'
    BY <1>1, <1>2, <1>4, <1>5, <1>6 DEF WorkerTypeOK
  <1>10. LooksAtLeft'
    BY <1>4, <1>5 DEF LooksAtLeft
  <1>11. LookStillHolds'
    <2>. SUFFICES ASSUME NEW o \in Runs, run'[o].look # Absent,
                         run'[o].look \notin crossed'
                  PROVE  Agrees(run[o].bundle, run[o].look)' 
      BY DEF LookStillHolds
    <2>1. o # r /\ run'[o] = run[o]
      BY <1>4, <1>5
    <2>2. run[o].look # p /\ run[o].look \notin crossed
      BY <1>1, <2>1
    <2>3. run[o].look \in Pures
      BY <1>2, <2>1 DEF WorkerTypeOK, RunRecord
    <2>4. Agrees(run[o].bundle, run[o].look)
      BY <2>1, <2>2 DEF LookStillHolds
    <2>. QED BY <1>6, <2>1, <2>2, <2>3, <2>4 DEF Agrees
  <1>12. RunsItsPures'
    <2>. SUFFICES ASSUME NEW o \in Runs, run'[o].pc = "runs", NEW q \in Pures \ crossed'
                  PROVE  SourceOf[run'[o].bundle][q] \in {Absent, registry'[q]}
      BY DEF RunsItsPures, ComputesWithItsPures
    <2>1. o # r /\ run'[o] = run[o] /\ q \notin crossed
      BY <1>1, <1>4, <1>5
    <2>2. SourceOf[run[o].bundle][q] \in {Absent, registry[q]}
      BY <2>1 DEF RunsItsPures, ComputesWithItsPures
    <2>3. CASE q = p
      BY <1>6, <1>8, <2>1, <2>2, <2>3
    <2>4. CASE q # p
      BY <1>6, <2>1, <2>2, <2>4
    <2>. QED BY <2>3, <2>4
  <1>. QED BY <1>9, <1>10, <1>11, <1>12

LEMMA VerifyKeepsInv ==
  ASSUME WorkerInv, NEW r \in Runs, verifyPures(r)
  PROVE  WorkerInv'
  <1>. USE DEF WorkerInv
  <1>. DEFINE agreed == \A p \in Pures : SourceOf[run[r].bundle][p] \in {Absent, registry[p]}
              pc == IF agreed THEN "runs" ELSE "failed"
  <1>1. /\ run[r].pc = "register" /\ run[r].left = {}
        /\ run' = [run EXCEPT ![r].pc = pc]
        /\ UNCHANGED <<registry, crossed>>
    BY DEF verifyPures
  <1>2. run[r] \in RunRecord /\ run \in [Runs -> RunRecord]
    BY DEF WorkerTypeOK
  <1>3. run'[r] = [run[r] EXCEPT !.pc = pc] /\ run' = [run EXCEPT ![r] = run'[r]]
    BY <1>1, <1>2
  <1>4. /\ run'[r] \in RunRecord /\ run'[r].look = run[r].look /\ run'[r].left = {}
        /\ run'[r].bundle = run[r].bundle /\ run'[r].pc = pc
    BY <1>1, <1>2, <1>3 DEF RunRecord
  <1>5. \A o \in Runs \ {r} : run'[o] = run[o]
    BY <1>2, <1>3
  <1>6. run[r].look = Absent /\ run[r].bundle \in Versions
    BY <1>1 DEF LooksAtLeft
  <1>7. WorkerTypeOK'
    BY <1>1, <1>2, <1>3, <1>4 DEF WorkerTypeOK
  <1>8. LooksAtLeft'
    BY <1>4, <1>5, <1>6 DEF LooksAtLeft
  <1>9. LookStillHolds'
    BY <1>1, <1>4, <1>5, <1>6 DEF LookStillHolds, Agrees
  <1>10. RunsItsPures'
    BY <1>1, <1>4, <1>5 DEF RunsItsPures, ComputesWithItsPures
  <1>. QED BY <1>7, <1>8, <1>9, <1>10

LEMMA RestartKeepsInv ==
  ASSUME WorkerInv, WorkerRestarts
  PROVE  WorkerInv'
  <1>. USE DEF WorkerInv
  <1>1. /\ registry' \in Images /\ crossed' = {}
        /\ run' = [r \in Runs |-> [bundle |-> run[r].bundle, pc |-> AfterRestart(r),
                                  left |-> {}, look |-> Absent]]
    BY DEF WorkerRestarts
  <1>2. ASSUME NEW r \in Runs
        PROVE  /\ run'[r] \in RunRecord /\ run'[r].look = Absent /\ run'[r].left = {}
               /\ run'[r].pc \in {"new", "replayed", "failed"}
    <2>1. run[r] \in RunRecord
      BY DEF WorkerTypeOK
    <2>2. AfterRestart(r) \in {"new", "replayed", "failed"}
      BY DEF AfterRestart, Refused
    <2>. QED BY <1>1, <2>1, <2>2 DEF RunRecord
  <1>3. WorkerTypeOK'
    <2>1. run' \in [Runs -> RunRecord]
      BY <1>1, <1>2
    <2>. QED BY <1>1, <2>1, ImagesType DEF WorkerTypeOK
  <1>4. LooksAtLeft'
    BY <1>2 DEF LooksAtLeft
  <1>5. LookStillHolds' /\ RunsItsPures'
    BY <1>2 DEF LookStillHolds, RunsItsPures, ComputesWithItsPures
  <1>. QED BY <1>3, <1>4, <1>5

LEMMA NextKeepsInv == WorkerInv /\ [WorkerNext]_workerVars => WorkerInv'
  <1>. SUFFICES ASSUME WorkerInv, [WorkerNext]_workerVars PROVE WorkerInv'
    OBVIOUS
  <1>1. ASSUME NEW r \in Runs,
               Resolve(r) \/ LookUp(r) \/ RegisterPure(r) \/ verifyPures(r)
        PROVE  WorkerInv'
    BY <1>1, ResolveKeepsInv, LookUpKeepsInv, RegisterKeepsInv, VerifyKeepsInv
  <1>2. CASE WorkerRestarts
    BY <1>2, RestartKeepsInv
  <1>3. CASE UNCHANGED workerVars
    BY <1>3 DEF workerVars, WorkerInv, WorkerTypeOK, LooksAtLeft, LookStillHolds,
                RunsItsPures, ComputesWithItsPures, Agrees
  <1>. QED BY <1>1, <1>2, <1>3 DEF WorkerNext

(* While a run goes on, every pure of its bundle is registered with the    *)
(* source that the bundle pins, whatever other threads resolve and         *)
(* register beside it (RunsItsPures says which ones it excepts).           *)
THEOREM RunsComputeWithTheirPures == WorkerSpec => []RunsItsPures
  <1>1. WorkerInv => RunsItsPures
    BY DEF WorkerInv
  <1>. QED BY <1>1, InitInv, NextKeepsInv, PTL DEF WorkerSpec

-----------------------------------------------------------------------------
(* The artifact store.  What a sweep marked protects the bundles that were *)
(* whole by then, until what it may collect is listed, and after that      *)
(* nothing of theirs is on the list.                                       *)
SweepRecord ==
  [pc : {"idle", "list", "delete"}, reachable : {sweep.reachable},
   collectable : {sweep.collectable}, done : {sweep.done}]

MarkProtects ==
  \A b \in whole :
    /\ sweep.pc = "list" => Kept(b) \subseteq sweep.reachable
    /\ sweep.pc = "delete" => Kept(b) \intersect sweep.collectable = {}

ArtifactInv == sweep \in SweepRecord /\ MarkProtects /\ LeasedStays

LEMMA ArtifactInitInv == ArtifactInit => ArtifactInv
  BY DEF ArtifactInit, ArtifactInv, SweepRecord, MarkProtects, LeasedStays

(* A lease holds more than before only where it names the signature that   *)
(* the one before it did not.                                              *)
LEMMA LeaseKeepsInv ==
  ASSUME ArtifactInv, NEW b \in Bundles, NEW signed \in BOOLEAN, Lease(b, signed),
         UNCHANGED <<store, sweep>>
  PROVE  ArtifactInv'
  <1>. USE DEF ArtifactInv
  <1>1. sweep' \in SweepRecord'
    BY DEF SweepRecord
  <1>2. ASSUME NEW c \in whole'
        PROVE  \/ c \in whole /\ Kept(c)' \subseteq Kept(c)
               \/ sweep.pc = "idle" /\ Kept(c)' \subseteq store
    <2>1. CASE c # b
      BY <1>2, <2>1 DEF Lease, Kept, Content, Sources, Flow, Manifest, Signature
    <2>2. CASE c = b
      <3>1. Kept(b)' = Content(b, signed)
        BY DEF Lease, Kept, Content, Sources, Flow, Manifest, Signature
      <3>2. CASE sweep.pc = "idle" /\ Content(b, signed) \subseteq store
        BY <2>2, <3>1, <3>2
      <3>3. CASE ~(sweep.pc = "idle" /\ Content(b, signed) \subseteq store)
        <4>1. c \in whole /\ ~(signed /\ b \in unsigned)
          BY <1>2, <2>2, <3>3 DEF Lease
        <4>. QED BY <2>2, <3>1, <4>1 DEF Kept, Content
      <3>. QED BY <3>2, <3>3
    <2>. QED BY <2>1, <2>2
  <1>3. MarkProtects'
    BY <1>2 DEF MarkProtects
  <1>4. LeasedStays'
    BY <1>2 DEF LeasedStays
  <1>. QED BY <1>1, <1>3, <1>4

LEMMA PublishKeepsInv ==
  ASSUME ArtifactInv, NEW b \in Bundles,
         PutBlob(b) \/ AcquireLease(b) \/ LeaseByHand(b) \/ ReleaseLease(b)
  PROVE  ArtifactInv'
  <1>1. CASE AcquireLease(b) \/ LeaseByHand(b)
    BY <1>1, LeaseKeepsInv DEF AcquireLease, LeaseByHand
  <1>2. CASE PutBlob(b) \/ ReleaseLease(b)
    <2>. USE DEF ArtifactInv
    <2>1. /\ sweep' = sweep /\ store \subseteq store' /\ whole' \subseteq whole
          /\ \A c \in whole' : c \in unsigned' <=> c \in unsigned
      BY <1>2 DEF PutBlob, ReleaseLease
    <2>2. sweep' \in SweepRecord'
      BY <2>1 DEF SweepRecord
    <2>3. \A c \in whole' : Kept(c)' = Kept(c)
      BY <2>1 DEF Kept, Content, Sources, Flow, Manifest, Signature
    <2>4. MarkProtects'
      BY <2>1, <2>3 DEF MarkProtects
    <2>5. LeasedStays'
      BY <2>1, <2>3 DEF LeasedStays
    <2>. QED BY <2>2, <2>4, <2>5
  <1>. QED BY <1>1, <1>2

LEMMA KeptStays ==
  ASSUME unsigned' = unsigned
  PROVE  \A b : Kept(b)' = Kept(b)
  BY DEF Kept, Content, Sources, Flow, Manifest, Signature

LEMMA MarkKeepsInv ==
  ASSUME ArtifactInv, Mark
  PROVE  ArtifactInv'
  <1>. USE DEF ArtifactInv
  <1>. DEFINE closure == UNION {reachable_closure(b) : b \in leases}
              marked == [sweep EXCEPT !.pc = "list", !.reachable = closure]
  <1>1. /\ sweep' = marked /\ store' = store /\ unsigned' = unsigned
        /\ whole' = {b \in leases : Kept(b) \subseteq store}
    BY DEF Mark, published
  <1>2. \A b \in leases : Kept(b) \subseteq closure
    BY DEF reachable_closure
  <1>. HIDE DEF closure
  <1>3. sweep' \in SweepRecord' /\ sweep'.pc = "list" /\ sweep'.reachable = closure
    BY <1>1 DEF SweepRecord
  <1>4. MarkProtects'
    BY <1>1, <1>2, <1>3, KeptStays DEF MarkProtects
  <1>5. LeasedStays'
    BY <1>1, KeptStays DEF LeasedStays
  <1>. QED BY <1>3, <1>4, <1>5

LEMMA EnumerateKeepsInv ==
  ASSUME ArtifactInv, Enumerate
  PROVE  ArtifactInv'
  <1>. USE DEF ArtifactInv
  <1>. DEFINE garbage == store \ sweep.reachable
  <1>1. /\ sweep.pc = "list" /\ store' = store /\ whole' = whole /\ unsigned' = unsigned
        /\ sweep' = [sweep EXCEPT !.pc = "delete", !.collectable = garbage]
    BY DEF Enumerate, published
  <1>2. \A b \in whole : Kept(b) \intersect garbage = {}
    BY <1>1 DEF MarkProtects
  <1>. HIDE DEF garbage
  <1>3. sweep' \in SweepRecord' /\ sweep'.pc = "delete" /\ sweep'.collectable = garbage
    BY <1>1 DEF SweepRecord
  <1>4. MarkProtects'
    BY <1>1, <1>2, <1>3, KeptStays DEF MarkProtects
  <1>5. LeasedStays'
    BY <1>1, KeptStays DEF LeasedStays
  <1>. QED BY <1>3, <1>4, <1>5

LEMMA DeleteKeepsInv ==
  ASSUME ArtifactInv, DeleteObject
  PROVE  ArtifactInv'
  <1>. USE DEF ArtifactInv
  <1>1. sweep.pc = "delete" /\ whole' = whole /\ unsigned' = unsigned
    BY DEF DeleteObject
  <1>2. CASE sweep.collectable = {}
    <2>1. /\ store' = store
          /\ sweep' = [pc |-> "idle", reachable |-> {}, collectable |-> {},
                       done |-> sweep.done + 1]
      BY <1>2 DEF DeleteObject
    <2>2. sweep' \in SweepRecord' /\ sweep'.pc = "idle"
      BY <2>1 DEF SweepRecord
    <2>3. MarkProtects' /\ LeasedStays'
      BY <1>1, <2>1, <2>2, KeptStays DEF MarkProtects, LeasedStays
    <2>. QED BY <2>2, <2>3
  <1>3. CASE sweep.collectable # {}
    <2>1. PICK d \in sweep.collectable :
            /\ store' = store \ {d}
            /\ sweep' = [sweep EXCEPT !.collectable = @ \ {d}]
      BY <1>3 DEF DeleteObject
    <2>2. /\ sweep' \in SweepRecord' /\ sweep'.pc = "delete"
          /\ sweep'.collectable = sweep.collectable \ {d}
      BY <1>1, <2>1 DEF SweepRecord
    <2>3. \A b \in whole : d \notin Kept(b)
      BY <1>1 DEF MarkProtects
    <2>4. \A b : Kept(b)' = Kept(b)
      BY <1>1, KeptStays
    <2>5. MarkProtects'
      BY <1>1, <2>2, <2>4 DEF MarkProtects
    <2>6. LeasedStays'
      BY <1>1, <2>1, <2>3, <2>4 DEF LeasedStays
    <2>. QED BY <2>2, <2>5, <2>6
  <1>. QED BY <1>2, <1>3

LEMMA ArtifactNextInv == ArtifactInv /\ [ArtifactNext]_artifactVars => ArtifactInv'
  <1>. SUFFICES ASSUME ArtifactInv, [ArtifactNext]_artifactVars PROVE ArtifactInv'
    OBVIOUS
  <1>1. CASE UNCHANGED artifactVars
    BY <1>1 DEF artifactVars, published, ArtifactInv, SweepRecord, MarkProtects,
                LeasedStays, Kept, Content, Sources, Flow, Manifest, Signature
  <1>. QED BY <1>1, PublishKeepsInv, MarkKeepsInv, EnumerateKeepsInv, DeleteKeepsInv
           DEF ArtifactNext

(* Leased code stays (LeasedStays): however often gc() runs, and whatever  *)
(* is published, released and deleted beside it, a bundle that was whole   *)
(* when a sweep read the leases, or when it was leased and none ran, keeps *)
(* every blob until its lease is released.                                 *)
THEOREM SweepsSpareLeasedCode == ArtifactSpec => []LeasedStays
  <1>1. ArtifactInv => LeasedStays
    BY DEF ArtifactInv
  <1>. QED BY <1>1, ArtifactInitInv, ArtifactNextInv, PTL DEF ArtifactSpec

-----------------------------------------------------------------------------
(* The value store.  A row names its input before the value is put, so a   *)
(* reference that appears is none of a run whose input is there already.   *)
(* What the sweep has deleted and not yet committed, only references that  *)
(* it deletes too, or that came behind it, refer to.                       *)
RetentionRecord ==
  [pc : {"idle", "events", "rows", "values", "commit"}, candidates : {retention.candidates},
   deleted : {retention.deleted}, doomed : {retention.doomed}, late : {retention.late}]

DoomedUnused ==
  /\ retention.doomed # {} => retention.pc = "commit"
  /\ \A x \in references :
       x.value \in retention.doomed => x \in retention.deleted \union retention.late
  /\ \A r \in claimed :
       Input(r) \in references /\ InputOf[r] \in retention.doomed =>
         Input(r) \in retention.deleted

RowsTypeOK ==
  /\ rows = [r \in Recorded |-> rows[r]]
  /\ claimed \subseteq {r \in Recorded : rows[r] # "none"}

ValueInv == RowsTypeOK /\ retention \in RetentionRecord /\ DoomedUnused /\ InputsKept

(* Nothing but the commit of a sweep takes a value away.                   *)
LEMMA OthersAdd ==
  ASSUME ValueNext, ~Commit
  PROVE  values \subseteq values'
  BY DEF ValueNext, Sweeps, create_run, PutInput, EndWithoutResult, Expire, PersistPut,
         PersistInsert, PersistFails, FinalizeValue, finalize_run, put_value,
         SelectCandidates, DeleteEvents, ClearRows, DeleteValues

(* A reference of a new row, of a batch or of a result may come late, and  *)
(* changes nothing else of the sweep.                                      *)
LEMMA ReferKeepsRecord ==
  ASSUME ValueInv, NEW refs, Refer(refs)
  PROVE  /\ retention' \in RetentionRecord'
         /\ retention'.pc = retention.pc /\ retention'.deleted = retention.deleted
         /\ retention'.doomed = retention.doomed
         /\ retention'.late =
              retention.late \union {x \in refs : x.value \in retention.doomed}
  <1>. DEFINE late == retention.late \union {x \in refs : x.value \in retention.doomed}
  <1>1. retention' = [retention EXCEPT !.late = late]
    BY DEF Refer
  <1>. HIDE DEF late
  <1>2. /\ retention' \in RetentionRecord'
        /\ retention'.pc = retention.pc /\ retention'.deleted = retention.deleted
        /\ retention'.doomed = retention.doomed /\ retention'.late = late
    BY <1>1 DEF ValueInv, RetentionRecord
  <1>. QED BY <1>2 DEF late

(* So it keeps what the invariant says, unless it is the input of a run    *)
(* whose input is put.                                                     *)
LEMMA ReferKeepsDoomed ==
  ASSUME ValueInv, NEW refs, Refer(refs), UNCHANGED claimed,
         \A r \in claimed : Input(r) \notin refs
  PROVE  retention' \in RetentionRecord' /\ DoomedUnused'
  <1>1. /\ retention' \in RetentionRecord'
        /\ retention'.pc = retention.pc /\ retention'.deleted = retention.deleted
        /\ retention'.doomed = retention.doomed
        /\ retention'.late =
             retention.late \union {x \in refs : x.value \in retention.doomed}
    BY ReferKeepsRecord
  <1>2. references' = references \union refs
    BY DEF Refer
  <1>3. \A r : Input(r)' = Input(r)
    BY DEF Input, Ref
  <1>4. DoomedUnused'
    BY <1>1, <1>2, <1>3 DEF DoomedUnused, ValueInv
  <1>. QED BY <1>1, <1>4

LEMMA InputsAreNoSteps ==
  ASSUME NEW r, NEW s
  PROVE  Input(r) # Step(s) /\ Input(r) \notin Final(s) /\ (Input(r) = Input(s) => r = s)
  BY DEF Input, Step, Final, Ref

(* Every step of the others keeps the invariant.                           *)
LEMMA RowKeepsInv ==
  ASSUME ValueInv, NEW r \in Recorded,
         create_run(r) \/ PutInput(r) \/ EndWithoutResult(r) \/ Expire(r)
  PROVE  ValueInv'
  <1>. USE DEF ValueInv
  <1>1. CASE create_run(r)
    <2>1. r \notin claimed
      BY <1>1 DEF create_run, RowsTypeOK
    <2>2. \A s \in claimed : Input(s) \notin {Input(r)}
      BY <2>1, InputsAreNoSteps
    <2>3. retention' \in RetentionRecord' /\ DoomedUnused'
      BY <1>1, <2>2, ReferKeepsDoomed DEF create_run
    <2>4. RowsTypeOK'
      BY <1>1 DEF create_run, RowsTypeOK
    <2>5. InputsKept'
      BY <1>1, <2>2 DEF create_run, Refer, InputsKept, Input, Ref
    <2>. QED BY <2>3, <2>4, <2>5
  <1>2. CASE PutInput(r)
    <2>1. InputOf[r] \notin retention.doomed /\ InputOf[r] \in values'
      BY <1>2 DEF PutInput, put_value, Inserting
    <2>2. UNCHANGED <<references, rows, retention>> /\ claimed' = claimed \union {r}
          /\ values \subseteq values'
      BY <1>2 DEF PutInput, put_value
    <2>3. RowsTypeOK' /\ retention' \in RetentionRecord'
      BY <1>2, <2>2 DEF PutInput, RowsTypeOK, RetentionRecord
    <2>4. DoomedUnused' /\ InputsKept'
      BY <2>1, <2>2 DEF DoomedUnused, InputsKept, Input, Ref
    <2>. QED BY <2>3, <2>4
  <1>3. CASE EndWithoutResult(r) \/ Expire(r)
    <2>1. UNCHANGED <<values, references, claimed, retention>>
      BY <1>3 DEF EndWithoutResult, Expire
    <2>2. RowsTypeOK' /\ retention' \in RetentionRecord'
      BY <1>3, <2>1 DEF EndWithoutResult, Expire, RowsTypeOK, RetentionRecord
    <2>3. DoomedUnused' /\ InputsKept'
      BY <2>1 DEF DoomedUnused, InputsKept, Input, Ref
    <2>. QED BY <2>2, <2>3
  <1>. QED BY <1>1, <1>2, <1>3

LEMMA EgressKeepsInv ==
  ASSUME ValueInv, NEW r \in DOMAIN StepOf,
         PersistPut(r) \/ PersistInsert(r) \/ PersistFails(r)
  PROVE  ValueInv'
  <1>. USE DEF ValueInv
  <1>1. UNCHANGED <<rows, claimed>> /\ values \subseteq values'
    BY DEF PersistPut, PersistInsert, PersistFails, put_value
  <1>2. RowsTypeOK'
    BY <1>1 DEF RowsTypeOK
  <1>3. CASE PersistInsert(r)
    <2>1. \A s : Input(s) \notin {Step(r)}
      BY InputsAreNoSteps
    <2>2. retention' \in RetentionRecord' /\ DoomedUnused'
      BY <1>1, <1>3, <2>1, ReferKeepsDoomed DEF PersistInsert
    <2>3. InputsKept'
      BY <1>1, <1>3, <2>1 DEF PersistInsert, Refer, InputsKept, Input, Ref
    <2>. QED BY <1>2, <2>2, <2>3
  <1>4. CASE PersistPut(r) \/ PersistFails(r)
    <2>1. UNCHANGED <<references, retention>>
      BY <1>4 DEF PersistPut, PersistFails
    <2>2. retention' \in RetentionRecord' /\ DoomedUnused' /\ InputsKept'
      BY <1>1, <2>1 DEF RetentionRecord, DoomedUnused, InputsKept, Input, Ref
    <2>. QED BY <1>2, <2>2
  <1>. QED BY <1>3, <1>4

LEMMA FinalizeKeepsInv ==
  ASSUME ValueInv, NEW r \in DOMAIN ResultOf, FinalizeValue(r) \/ finalize_run(r)
  PROVE  ValueInv'
  <1>. USE DEF ValueInv
  <1>1. claimed' = claimed /\ values \subseteq values'
    BY DEF FinalizeValue, finalize_run
  <1>2. RowsTypeOK'
    BY <1>1 DEF FinalizeValue, finalize_run, RowsTypeOK
  <1>3. CASE finalize_run(r)
    <2>1. \A s : Input(s) \notin Final(r)
      BY InputsAreNoSteps
    <2>2. retention' \in RetentionRecord' /\ DoomedUnused'
      BY <1>1, <1>3, <2>1, ReferKeepsDoomed DEF finalize_run
    <2>3. references' = references \union Final(r)
      BY <1>3 DEF finalize_run, Refer
    <2>4. InputsKept'
      BY <1>1, <2>1, <2>3 DEF InputsKept, Input, Ref
    <2>. QED BY <1>2, <2>2, <2>4
  <1>4. CASE FinalizeValue(r)
    <2>1. UNCHANGED <<references, retention>>
      BY <1>4 DEF FinalizeValue
    <2>2. retention' \in RetentionRecord' /\ DoomedUnused' /\ InputsKept'
      BY <1>1, <2>1 DEF RetentionRecord, DoomedUnused, InputsKept, Input, Ref
    <2>. QED BY <1>2, <2>2
  <1>. QED BY <1>3, <1>4

(* So does every statement of the sweep, and its commit.                   *)
LEMMA SweepKeepsInv ==
  ASSUME ValueInv, Sweeps
  PROVE  ValueInv'
  <1>. USE DEF ValueInv
  <1>1. UNCHANGED <<rows, claimed>>
    BY DEF Sweeps, SelectCandidates, DeleteEvents, ClearRows, DeleteValues, Commit
  <1>2. RowsTypeOK'
    BY <1>1 DEF RowsTypeOK
  <1>3. CASE SelectCandidates \/ DeleteEvents \/ ClearRows
    <2>1. UNCHANGED <<values, references>> /\ retention.pc # "commit"
      BY <1>3 DEF SelectCandidates, DeleteEvents, ClearRows
    <2>2. retention' \in RetentionRecord' /\ retention'.doomed = retention.doomed
      <3>1. CASE SelectCandidates
        <4>. DEFINE found == {x.value : x \in Expired({"input", "result", "step", "end"})}
        <4>1. retention' = [retention EXCEPT !.pc = "events", !.candidates = found]
          BY <3>1 DEF SelectCandidates
        <4>. HIDE DEF found
        <4>. QED BY <4>1 DEF RetentionRecord
      <3>2. CASE DeleteEvents
        <4>. DEFINE gone == Expired({"step", "end"})
        <4>1. retention' = [retention EXCEPT !.pc = "rows", !.deleted = gone]
          BY <3>2 DEF DeleteEvents
        <4>. HIDE DEF gone
        <4>. QED BY <4>1 DEF RetentionRecord
      <3>3. CASE ClearRows
        <4>. DEFINE gone == retention.deleted \union Expired({"input", "result"})
        <4>1. retention' = [retention EXCEPT !.pc = "values", !.deleted = gone]
          BY <3>3 DEF ClearRows
        <4>. HIDE DEF gone
        <4>. QED BY <4>1 DEF RetentionRecord
      <3>. QED BY <1>3, <3>1, <3>2, <3>3
    <2>3. DoomedUnused' /\ InputsKept'
      BY <1>1, <2>1, <2>2 DEF DoomedUnused, InputsKept, Input, Ref
    <2>. QED BY <1>2, <2>2, <2>3
  <1>4. CASE DeleteValues
    <2>. DEFINE gone == values \intersect
                   (retention.candidates \ {x.value : x \in references \ retention.deleted})
    <2>1. /\ retention' = [retention EXCEPT !.pc = "commit", !.doomed = gone]
          /\ UNCHANGED <<values, references>>
      BY <1>4 DEF DeleteValues
    <2>2. \A x \in references : x.value \in gone => x \in retention.deleted
      OBVIOUS
    <2>3. \A r : Input(r).value = InputOf[r]
      BY DEF Input, Ref
    <2>. HIDE DEF gone
    <2>4. /\ retention' \in RetentionRecord' /\ retention'.pc = "commit"
          /\ retention'.doomed = gone /\ retention'.deleted = retention.deleted
      BY <2>1 DEF RetentionRecord
    <2>5. DoomedUnused' /\ InputsKept'
      <3>1. \A r : Input(r)' = Input(r)
        BY DEF Input, Ref
      <3>. QED BY <1>1, <2>1, <2>2, <2>3, <2>4, <3>1 DEF DoomedUnused, InputsKept
    <2>. QED BY <1>2, <2>4, <2>5
  <1>5. CASE Commit
    <2>1. retention' \in RetentionRecord' /\ retention'.doomed = {}
      BY <1>5 DEF Commit, NoSweep, RetentionRecord
    <2>2. DoomedUnused'
      BY <2>1 DEF DoomedUnused
    <2>3. InputsKept'
      BY <1>5 DEF Commit, DoomedUnused, InputsKept, Input, Ref
    <2>. QED BY <1>2, <2>1, <2>2, <2>3
  <1>. QED BY <1>3, <1>4, <1>5 DEF Sweeps

LEMMA ValueInitInv == ValueInit => ValueInv
  BY DEF ValueInit, ValueInv, RowsTypeOK, RetentionRecord, NoSweep, DoomedUnused, InputsKept

LEMMA ValueNextInv == ValueInv /\ [ValueNext]_valueVars => ValueInv'
  <1>. SUFFICES ASSUME ValueInv, [ValueNext]_valueVars PROVE ValueInv'
    OBVIOUS
  <1>1. CASE UNCHANGED valueVars
    BY <1>1 DEF valueVars, ValueInv, RowsTypeOK, RetentionRecord, DoomedUnused, InputsKept,
                Input, Ref
  <1>2. CASE ValueNext
    BY <1>2, RowKeepsInv, EgressKeepsInv, FinalizeKeepsInv, SweepKeepsInv DEF ValueNext
  <1>. QED BY <1>1, <1>2

(* A run keeps its input (InputsKept): once it is put, no sweep takes it   *)
(* while the row names it, in the middle of a submission either, and       *)
(* whichever other runs share it and expire.                               *)
THEOREM SweepsSpareInputs == ValueSpec => []InputsKept
  <1>1. ValueInv => InputsKept
    BY DEF ValueInv
  <1>. QED BY <1>1, ValueInitInv, ValueNextInv, PTL DEF ValueSpec

(* What a reference found, it finds until it is swept itself               *)
(* (ReferencesHold), however egress, finalization and sweeps meet, unless  *)
(* it came between the last statement of a sweep and its commit.           *)
THEOREM SweepsSpareReferences == ValueSpec => ReferencesHold
  <1>1. ASSUME ValueInv, [ValueNext]_valueVars,
               NEW x \in references \intersect references',
               x.value \in values, x \notin retention.late
        PROVE  x.value \in values'
    <2>1. CASE Commit
      BY <1>1, <2>1 DEF Commit, ValueInv, DoomedUnused
    <2>2. CASE ValueNext /\ ~Commit
      BY <1>1, <2>2, OthersAdd
    <2>. QED BY <1>1, <2>1, <2>2 DEF valueVars
  <1>2. ValueInv /\ [ValueNext]_valueVars =>
          [\A x \in references \intersect references' :
             x.value \in values /\ x \notin retention.late => x.value \in values']_valueVars
    BY <1>1
  <1>. QED BY <1>2, ValueInitInv, ValueNextInv, PTL DEF ValueSpec, ReferencesHold

(* Both sweeps spare what is in use (SweepsSpare): they share no state, so *)
(* what holds of each holds of the two beside each other.                  *)
THEOREM SweepsSpareTheUsed == ArtifactSpec /\ ValueSpec => SweepsSpare
  BY SweepsSpareLeasedCode, SweepsSpareInputs, SweepsSpareReferences, PTL DEF SweepsSpare

-----------------------------------------------------------------------------
(* Model calls.  Faithful says of any log what WalkFaithful says of the    *)
(* present one.  Ready says that a call which has told s is about to try   *)
(* candidate k, after a failures of it.                                    *)
ToldRecord == [at : Nat, outcome : Outcomes \union {"skipped", "exhausted"}]

Tries(s, n, k) == {j \in 1..n : s[j].at = k}

Faithful(s) ==
  \A i \in 1..Len(s) :
    /\ i = 1 => s[i].at = 1
    /\ i < Len(s) =>
         /\ s[i].outcome \notin {"ok", "raised", "exhausted"}
         /\ s[i + 1].at \in {s[i].at, s[i].at + 1}
         /\ s[i + 1].at = s[i].at /\ s[i + 1].outcome # "exhausted" =>
              /\ s[i].outcome \in Failures
              /\ Cardinality(Tries(s, i, s[i].at)) < Attempts[s[i].outcome]
    /\ s[i].outcome = "exhausted" => s[i].at = Len(candidates)

LastLeadsTo(s, k, a) ==
  LET last == s[Len(s)]
  IN  /\ last.outcome \notin {"ok", "raised", "exhausted"}
      /\ a = 0 => last.at + 1 = k
      /\ a > 0 => last.at = k /\ last.outcome \in Failures /\ a < Attempts[last.outcome]

Ready(s, k, a) ==
  /\ s \in Seq(ToldRecord) /\ k \in Nat \ {0} /\ a \in Nat
  /\ Faithful(s)
  /\ \A j \in 1..Len(s) : s[j].at <= k
  /\ Cardinality(Tries(s, Len(s), k)) = a
  /\ Len(s) = 0 => k = 1
  /\ Len(s) > 0 => LastLeadsTo(s, k, a)

WalkInv ==
  /\ call = [c \in Callers |-> call[c]]
  /\ log \in Seq(ToldRecord) /\ Faithful(log)
  /\ call[Watched].pc \in {"calling", "backoff"} =>
       /\ call[Watched].at \in 1..Len(candidates)
       /\ Ready(log, call[Watched].at, call[Watched].attempt)

LEMMA CandidateCount == Len(candidates) \in Nat /\ Len(candidates) > 0
  <1>. DEFINE new == {i \in DOMAIN Chain : \A j \in 1..(i - 1) : Chain[j] # Chain[i]}
  <1>1. Chain \in Seq(Models) /\ DOMAIN Chain = 1..Len(Chain) /\ Len(Chain) \in Nat
        /\ Len(Chain) > 0
    BY ModelCallsAssumption, EmptySeq, LenProperties
  <1>2. new \subseteq DOMAIN Chain /\ Cardinality(new) \in Nat
    BY <1>1, CountIn
  <1>3. 1 \in new
    BY <1>1
  <1>4. IsFiniteSet(new)
    <2>1. IsFiniteSet(1..Len(Chain))
      BY <1>1, FS_Interval
    <2>. HIDE DEF new
    <2>. QED BY <1>1, <1>2, <2>1, FS_Subset
  <1>5. Cardinality(new) # 0
    <2>. HIDE DEF new
    <2>. QED BY <1>3, <1>4, FS_EmptySet
  <1>6. Len(candidates) = Cardinality(new)
    <2>. DEFINE nth(n) == CHOOSE i \in new : Cardinality(new \intersect (1..i)) = n
    <2>1. candidates = [n \in 1..Cardinality(new) |-> Chain[nth(n)]]
      BY DEF candidates
    <2>. DEFINE count == Cardinality(new)
    <2>2. candidates = [n \in 1..count |-> Chain[nth(n)]] /\ count \in Nat
      BY <1>2, <2>1
    <2>. HIDE DEF nth, count
    <2>3. Len(candidates) = count
      BY <2>2
    <2>. QED BY <2>3 DEF count
  <1>. QED BY <1>2, <1>5, <1>6

(* What is appended leaves what was told, and is the last.                 *)
LEMMA AppendTold ==
  ASSUME NEW s \in Seq(ToldRecord), NEW r \in ToldRecord
  PROVE  /\ Append(s, r) \in Seq(ToldRecord) /\ Len(s) \in Nat
         /\ Len(Append(s, r)) = Len(s) + 1
         /\ \A i \in 1..Len(s) : Append(s, r)[i] = s[i] /\ s[i] \in ToldRecord
         /\ Append(s, r)[Len(s) + 1] = r
  BY AppendProperties, ElementOfSeq, LenProperties

LEMMA AppendFaithful ==
  ASSUME NEW s, NEW k, NEW a, Ready(s, k, a), NEW r \in ToldRecord,
         \/ r.at = k /\ r.outcome # "exhausted"
         \/ r.at = Len(candidates) /\ r.outcome = "exhausted" /\ a = 0
            /\ k = Len(candidates) + 1
  PROVE  Faithful(Append(s, r))
  <1>. DEFINE t == Append(s, r)
              n == Len(s)
  <1>1. /\ s \in Seq(ToldRecord) /\ k \in Nat \ {0} /\ a \in Nat /\ Faithful(s)
        /\ Cardinality(Tries(s, n, k)) = a
        /\ n = 0 => k = 1
        /\ n > 0 => LastLeadsTo(s, k, a)
    BY DEF Ready
  <1>2. /\ t \in Seq(ToldRecord) /\ n \in Nat /\ Len(t) = n + 1 /\ t[n + 1] = r
        /\ \A i \in 1..n : t[i] = s[i] /\ s[i] \in ToldRecord
    BY <1>1, AppendTold
  <1>3. \A i \in 1..n : s[i].at \in Nat
    BY <1>2 DEF ToldRecord
  <1>. HIDE DEF t
  <1>4. n = 0 => r.at = 1
    BY <1>1, CandidateCount
  <1>5. ASSUME NEW i \in 1..n
        PROVE  Tries(t, i, t[i].at) = Tries(s, i, s[i].at)
    <2>1. \A j \in 1..i : t[j] = s[j]
      BY <1>2, <1>5
    <2>. QED BY <1>2, <2>1 DEF Tries
  <1>6. ASSUME n > 0
        PROVE  /\ s[n].outcome \notin {"ok", "raised", "exhausted"}
               /\ r.at \in {s[n].at, s[n].at + 1}
               /\ r.at = s[n].at /\ r.outcome # "exhausted" =>
                    /\ s[n].outcome \in Failures
                    /\ Cardinality(Tries(s, n, s[n].at)) < Attempts[s[n].outcome]
    <2>1. LastLeadsTo(s, k, a) /\ n \in 1..n
      BY <1>1, <1>2, <1>6
    <2>2. s[n].at \in Nat
      BY <1>3, <2>1
    <2>3. CASE a = 0
      BY <1>1, <2>1, <2>2, <2>3, CandidateCount DEF LastLeadsTo
    <2>4. CASE a > 0
      BY <1>1, <2>1, <2>2, <2>4 DEF LastLeadsTo
    <2>. QED BY <1>1, <2>3, <2>4
  <1>7. ASSUME NEW i \in 1..n
        PROVE  /\ i = 1 => t[i].at = 1
               /\ t[i].outcome \notin {"ok", "raised", "exhausted"}
               /\ t[i + 1].at \in {t[i].at, t[i].at + 1}
               /\ t[i + 1].at = t[i].at /\ t[i + 1].outcome # "exhausted" =>
                    /\ t[i].outcome \in Failures
                    /\ Cardinality(Tries(t, i, t[i].at)) < Attempts[t[i].outcome]
    <2>1. t[i] = s[i] /\ Tries(t, i, t[i].at) = Tries(s, i, s[i].at)
      BY <1>2, <1>5
    <2>2. i = 1 => s[i].at = 1
      BY <1>1 DEF Faithful
    <2>3. CASE i = n
      BY <1>2, <1>6, <2>1, <2>2, <2>3
    <2>4. CASE i < n
      <3>1. i + 1 \in 1..n /\ t[i + 1] = s[i + 1]
        BY <1>2, <2>4
      <3>. QED BY <1>1, <2>1, <2>2, <2>4, <3>1 DEF Faithful
    <2>. QED BY <1>2, <2>3, <2>4
  <1>8. ASSUME NEW i \in 1..(n + 1)
        PROVE  /\ i = 1 => t[i].at = 1
               /\ i < n + 1 =>
                    /\ t[i].outcome \notin {"ok", "raised", "exhausted"}
                    /\ t[i + 1].at \in {t[i].at, t[i].at + 1}
                    /\ t[i + 1].at = t[i].at /\ t[i + 1].outcome # "exhausted" =>
                         /\ t[i].outcome \in Failures
                         /\ Cardinality(Tries(t, i, t[i].at)) < Attempts[t[i].outcome]
               /\ t[i].outcome = "exhausted" => t[i].at = Len(candidates)
    <2>1. CASE i \in 1..n
      BY <1>7, <2>1
    <2>2. CASE i = n + 1
      BY <1>2, <1>4, <2>2
    <2>. QED BY <1>2, <2>1, <2>2
  <1>9. Faithful(t)
    BY <1>2, <1>8 DEF Faithful
  <1>. QED BY <1>9 DEF t

(* A try that does not end the call leads on to the next candidate, and a  *)
(* failure, as long as its class has a budget, to the same one again.      *)
LEMMA TryReady ==
  ASSUME NEW s, NEW k, NEW a, Ready(s, k, a), NEW r \in ToldRecord,
         r.at = k, r.outcome \notin {"ok", "raised", "exhausted"}
  PROVE  /\ Ready(Append(s, r), k + 1, 0)
         /\ r.outcome \in Failures /\ a + 1 < Attempts[r.outcome] =>
              Ready(Append(s, r), k, a + 1)
  <1>. DEFINE t == Append(s, r)
              n == Len(s)
  <1>1. /\ s \in Seq(ToldRecord) /\ k \in Nat \ {0} /\ a \in Nat
        /\ Cardinality(Tries(s, n, k)) = a /\ \A j \in 1..n : s[j].at <= k
    BY DEF Ready
  <1>2. /\ t \in Seq(ToldRecord) /\ n \in Nat /\ Len(t) = n + 1 /\ t[n + 1] = r
        /\ \A i \in 1..n : t[i] = s[i] /\ s[i] \in ToldRecord
    BY <1>1, AppendTold
  <1>3. Faithful(t)
    BY AppendFaithful
  <1>. HIDE DEF t
  <1>4. \A j \in 1..(n + 1) : t[j].at \in Nat /\ t[j].at <= k
    <2>1. \A i \in 1..n : s[i].at \in Nat
      BY <1>2 DEF ToldRecord
    <2>2. \A j \in 1..(n + 1) : j \in 1..n \/ j = n + 1
      BY <1>2
    <2>. QED BY <1>1, <1>2, <2>1, <2>2
  <1>5. Cardinality(Tries(t, n + 1, k + 1)) = 0
    <2>1. Tries(t, n + 1, k + 1) = {}
      BY <1>1, <1>4 DEF Tries
    <2>. QED BY <2>1, FS_EmptySet
  <1>6. Cardinality(Tries(t, n + 1, k)) = a + 1
    <2>1. Tries(t, n + 1, k) = Tries(s, n, k) \union {n + 1}
      BY <1>2 DEF Tries
    <2>2. n + 1 \notin Tries(s, n, k) /\ Tries(s, n, k) \subseteq 1..n
      BY <1>2 DEF Tries
    <2>3. IsFiniteSet(Tries(s, n, k))
      <3>1. IsFiniteSet(1..n)
        BY <1>2, FS_Interval
      <3>. QED BY <2>2, <3>1, FS_Subset
    <2>. DEFINE T == Tries(s, n, k)
    <2>4. Cardinality(T \union {n + 1}) = Cardinality(T) + 1
      <3>1. IsFiniteSet(T) /\ n + 1 \notin T
        BY <2>2, <2>3
      <3>. HIDE DEF T
      <3>. QED BY <3>1, FS_AddElement
    <2>. QED BY <1>1, <2>1, <2>4
  <1>7. Len(t) > 0 /\ t[Len(t)] = r
    BY <1>2
  <1>8. Ready(t, k + 1, 0)
    <2>1. LastLeadsTo(t, k + 1, 0)
      BY <1>1, <1>7 DEF LastLeadsTo
    <2>2. \A j \in 1..Len(t) : t[j].at <= k + 1
      BY <1>1, <1>2, <1>4
    <2>. QED BY <1>1, <1>2, <1>3, <1>5, <1>7, <2>1, <2>2 DEF Ready
  <1>9. ASSUME r.outcome \in Failures, a + 1 < Attempts[r.outcome]
        PROVE  Ready(t, k, a + 1)
    <2>1. LastLeadsTo(t, k, a + 1)
      BY <1>1, <1>7, <1>9 DEF LastLeadsTo
    <2>2. \A j \in 1..Len(t) : t[j].at <= k
      BY <1>2, <1>4
    <2>. QED BY <1>1, <1>2, <1>3, <1>6, <1>7, <2>1, <2>2 DEF Ready
  <1>. QED BY <1>8, <1>9 DEF t


(* Open circuits are passed over one by one.                               *)
Skips(k, m) == [i \in 1..m |-> Record(k + i - 1, "skipped")]

LEMMA SkipsType ==
  ASSUME NEW k \in Nat, NEW m \in Nat, k > 0
  PROVE  /\ Skips(k, m) \in Seq(ToldRecord)
         /\ Skips(k, m + 1) = Append(Skips(k, m), Record(k + m, "skipped"))
         /\ Record(k + m, "skipped") \in ToldRecord
  <1>1. \A n \in Nat : \A i \in 1..n : Record(k + i - 1, "skipped") \in ToldRecord
    <2>. SUFFICES ASSUME NEW n \in Nat, NEW i \in 1..n
                  PROVE  Record(k + i - 1, "skipped") \in ToldRecord
      OBVIOUS
    <2>1. k + i - 1 \in Nat
      OBVIOUS
    <2>. QED BY <2>1 DEF Record, ToldRecord
  <1>2. Skips(k, m) \in [1..m -> ToldRecord]
    BY <1>1 DEF Skips
  <1>3. Skips(k, m) \in Seq(ToldRecord) /\ Len(Skips(k, m)) = m
    <2>. DEFINE s == Skips(k, m)
    <2>1. s \in [1..m -> ToldRecord]
      BY <1>2
    <2>. HIDE DEF s
    <2>2. s \in Seq(ToldRecord) /\ Len(s) = m
      BY <2>1
    <2>. QED BY <2>2 DEF s
  <1>4. Record(k + m, "skipped") \in ToldRecord
    BY DEF Record, ToldRecord
  <1>5. Skips(k, m + 1) = Append(Skips(k, m), Record(k + m, "skipped"))
    <2>. DEFINE s == Skips(k, m)
                r == Record(k + m, "skipped")
                t == Skips(k, m + 1)
    <2>1. t = [i \in 1..(m + 1) |-> Record(k + i - 1, "skipped")]
          /\ s = [i \in 1..m |-> Record(k + i - 1, "skipped")]
      BY DEF Skips
    <2>2. \A i \in 1..(m + 1) : t[i] = IF i <= m THEN s[i] ELSE r
      <3>1. k + (m + 1) - 1 = k + m
        OBVIOUS
      <3>. QED BY <2>1, <3>1
    <2>3. s \in Seq(ToldRecord) /\ Len(s) = m
      BY <1>3
    <2>. HIDE DEF s, r, t
    <2>4. t \in [1..(m + 1) -> ToldRecord]
      <3>1. m + 1 \in Nat
        OBVIOUS
      <3>2. \A i \in 1..(m + 1) : Record(k + i - 1, "skipped") \in ToldRecord
        BY <1>1, <3>1
      <3>. QED BY <2>1, <3>2
    <2>5. t \in Seq(ToldRecord) /\ Len(t) = m + 1
      BY <2>4
    <2>6. r \in ToldRecord
      BY <1>4 DEF r
    <2>7. /\ Append(s, r) \in Seq(ToldRecord) /\ Len(Append(s, r)) = m + 1
          /\ \A i \in 1..m : Append(s, r)[i] = s[i]
          /\ Append(s, r)[m + 1] = r
      BY <2>3, <2>6, AppendTold
    <2>8. \A i \in 1..(m + 1) : (i \in 1..m /\ i <= m) \/ (i = m + 1 /\ ~ (i <= m))
      OBVIOUS
    <2>9. \A i \in 1..Len(t) : t[i] = Append(s, r)[i]
      BY <2>2, <2>5, <2>7, <2>8
    <2>10. t = Append(s, r)
      BY <2>5, <2>7, <2>9, SeqEqual
    <2>. QED BY <2>10 DEF s, r, t
  <1>. QED BY <1>3, <1>4, <1>5

LEMMA SkipsReady ==
  ASSUME NEW s, NEW k, Ready(s, k, 0), NEW m \in Nat
  PROVE  Ready(s \o Skips(k, m), k + m, 0)
  <1>. DEFINE bad == {n \in Nat : ~ Ready(s \o Skips(k, n), k + n, 0)}
  <1>1. s \in Seq(ToldRecord) /\ k \in Nat /\ k > 0
    BY DEF Ready
  <1>2. 0 \notin bad
    <2>1. Skips(k, 0) = <<>>
      BY DEF Skips
    <2>2. s \o <<>> = s /\ k + 0 = k
      BY <1>1, ConcatEmptySeq
    <2>. QED BY <2>1, <2>2
  <1>3. ASSUME NEW n \in Nat, n \notin bad
        PROVE  n + 1 \notin bad
    <2>. DEFINE r == Record(k + n, "skipped")
    <2>1. Ready(s \o Skips(k, n), k + n, 0)
      BY <1>3
    <2>2. /\ Skips(k, n) \in Seq(ToldRecord) /\ r \in ToldRecord
          /\ Skips(k, n + 1) = Append(Skips(k, n), r)
      BY <1>1, SkipsType
    <2>3. s \o Skips(k, n + 1) = Append(s \o Skips(k, n), r)
      <3>. HIDE DEF r
      <3>1. s \o Append(Skips(k, n), r) = Append(s \o Skips(k, n), r)
        BY SMTT(20), <1>1, <2>2, AppendBehind
      <3>. QED BY <2>2, <3>1
    <2>4. r.at = k + n /\ r.outcome \notin {"ok", "raised", "exhausted"}
      BY DEF Record
    <2>5. Ready(Append(s \o Skips(k, n), r), k + n + 1, 0)
      <3>. HIDE DEF r
      <3>. QED BY <2>1, <2>2, <2>4, TryReady
    <2>6. k + n + 1 = k + (n + 1)
      BY <1>1
    <2>. QED BY <2>3, <2>5, <2>6
  <1>4. bad = {}
    <2>1. SUFFICES ASSUME bad # {} PROVE FALSE
      OBVIOUS
    <2>2. PICK n \in bad : \A x \in bad : n <= x
      <3>1. bad \subseteq Nat
        OBVIOUS
      <3>. HIDE DEF bad
      <3>. QED BY <2>1, <3>1, LeastNumber
    <2>3. n \in Nat /\ n # 0
      BY <1>2, <2>2
    <2>4. n - 1 \in Nat /\ n - 1 \notin bad /\ (n - 1) + 1 = n
      <3>. HIDE DEF bad
      <3>. QED BY <2>2, <2>3
    <2>5. n \notin bad
      <3>. HIDE DEF bad
      <3>. QED BY <1>3, <2>4
    <2>. QED BY <2>2, <2>5
  <1>. QED BY <1>4

(* The walk of the watched call.                                           *)
LEMMA MinOfNumbers ==
  ASSUME NEW S, S \subseteq Nat, S # {}
  PROVE  Min(S) \in S
  <1>1. \E n \in S : \A m \in S : n <= m
    BY LeastNumber
  <1>. QED BY <1>1 DEF Min

(* What other calls do changes nothing for the watched one.                *)
LEMMA OthersMove ==
  ASSUME WalkInv, NEW c \in Callers, c # Watched, log' = log,
         NEW x, call' = [call EXCEPT ![c] = x]
  PROVE  WalkInv'
  <1>1. call'[Watched] = call[Watched] /\ call' = [d \in Callers |-> call'[d]]
    BY ModelCallsAssumption DEF WalkInv
  <1>2. Faithful(log)' /\ (log \in Seq(ToldRecord))'
    BY DEF WalkInv
  <1>. QED BY <1>1, <1>2 DEF WalkInv

LEMMA WalkKeepsInv ==
  ASSUME WalkInv, NEW c \in Callers, NEW k, NEW circuits, NEW so_far,
         c = Watched => Ready(so_far, k, 0) /\ k <= Len(candidates) + 1,
         Walk(c, k, circuits, so_far)
  PROVE  WalkInv'
  <1>. DEFINE n == Len(candidates)
              open == {j \in k..n : Allowed(circuits[ProviderAt(j)])}
              next == IF open = {} THEN n + 1 ELSE Min(open)
              logged == so_far \o [i \in 1..(next - k) |-> Record(k + i - 1, "skipped")]
  <1>1. n \in Nat /\ n > 0
    BY CandidateCount
  <1>2. CASE c # Watched
    <2>1. log' = log /\ \E x : call' = [call EXCEPT ![c] = x]
      BY <1>2 DEF Walk, Finish, Log
    <2>. QED BY <1>2, <2>1, OthersMove
  <1>3. CASE c = Watched
    <2>1. Ready(so_far, k, 0) /\ k \in Nat \ {0} /\ k <= n + 1
      BY <1>3 DEF Ready
    <2>2. next \in Nat /\ next >= k /\ next <= n + 1 /\ (open # {} => next \in 1..n)
      <3>1. CASE open = {}
        BY <1>1, <2>1, <3>1
      <3>2. CASE open # {}
        <4>1. open \subseteq Nat
          BY <1>1, <2>1
        <4>2. Min(open) \in open
          <5>. HIDE DEF open
          <5>. QED BY <3>2, <4>1, MinOfNumbers
        <4>. QED BY <1>1, <2>1, <3>2, <4>2
      <3>. QED BY <3>1, <3>2
    <2>3. logged = so_far \o Skips(k, next - k) /\ next - k \in Nat /\ k + (next - k) = next
      BY <2>1, <2>2 DEF Skips
    <2>. HIDE DEF logged
    <2>4. Ready(logged, next, 0)
      <3>. DEFINE m == next - k
      <3>1. m \in Nat /\ logged = so_far \o Skips(k, m) /\ k + m = next
        BY <2>3
      <3>. HIDE DEF m
      <3>2. Ready(so_far \o Skips(k, m), k + m, 0)
        BY <2>1, <3>1, SkipsReady
      <3>. QED BY <3>1, <3>2
    <2>5. CASE open = {}
      <3>. DEFINE r == Record(n, "exhausted")
      <3>1. /\ call' = [call EXCEPT ![c] = [pc |-> "done", at |-> 1, attempt |-> 0]]
            /\ log' = Append(logged, r)
        BY <1>3, <2>5 DEF Walk, Finish, Log, logged
      <3>2. r \in ToldRecord /\ r.at = n /\ r.outcome = "exhausted"
        BY <1>1 DEF Record, ToldRecord
      <3>3. next = n + 1
        BY <2>5
      <3>. HIDE DEF r, next
      <3>4. Faithful(Append(logged, r))
        BY <2>4, <3>2, <3>3, AppendFaithful
      <3>5. Append(logged, r) \in Seq(ToldRecord)
        BY <2>4, <3>2, AppendTold DEF Ready
      <3>6. call'[Watched].pc = "done" /\ call' = [d \in Callers |-> call'[d]]
        BY <1>3, <3>1, ModelCallsAssumption DEF WalkInv
      <3>7. Faithful(log)' /\ (log \in Seq(ToldRecord))'
        BY <3>1, <3>4, <3>5
      <3>. QED BY <3>6, <3>7 DEF WalkInv
    <2>6. CASE open # {}
      <3>1. /\ call' = [call EXCEPT ![c] = [pc |-> "calling", at |-> next, attempt |-> 0]]
            /\ log' = logged
        BY <1>3, <2>6 DEF Walk, Log, logged
      <3>2. next \in 1..n
        BY <2>2, <2>6
      <3>. HIDE DEF next
      <3>3. call'[Watched].at = next /\ call'[Watched].attempt = 0
            /\ call' = [d \in Callers |-> call'[d]]
        BY <1>3, <3>1, ModelCallsAssumption DEF WalkInv
      <3>4. Ready(log', call'[Watched].at, call'[Watched].attempt)
        BY <2>4, <3>1, <3>3
      <3>5. logged \in Seq(ToldRecord) /\ Faithful(logged)
        BY <2>4 DEF Ready
      <3>6. Faithful(log)' /\ (log \in Seq(ToldRecord))'
        BY <3>1, <3>5
      <3>7. Ready(log, call[Watched].at, call[Watched].attempt)'
        BY <3>4
      <3>. QED BY <3>2, <3>3, <3>6, <3>7 DEF WalkInv
    <2>. QED BY <2>5, <2>6
  <1>. QED BY <1>2, <1>3


LEMMA WalkInit == ModelCallsInit => WalkInv
  <1>. SUFFICES ASSUME ModelCallsInit PROVE WalkInv
    OBVIOUS
  <1>1. log = <<>> /\ Len(log) = 0
    BY DEF ModelCallsInit
  <1>2. log \in Seq(ToldRecord) /\ Faithful(log)
    BY <1>1 DEF Faithful
  <1>3. call[Watched].pc = "idle" /\ call = [c \in Callers |-> call[c]]
    BY ModelCallsAssumption DEF ModelCallsInit
  <1>. QED BY <1>2, <1>3 DEF WalkInv

LEMMA NothingTold == Ready(<<>>, 1, 0)
  <1>1. <<>> \in Seq(ToldRecord) /\ Len(<<>>) = 0
    OBVIOUS
  <1>2. Tries(<<>>, 0, 1) = {}
    BY DEF Tries
  <1>3. Cardinality(Tries(<<>>, 0, 1)) = 0
    BY <1>2, FS_EmptySet
  <1>. QED BY <1>1, <1>3 DEF Ready, Faithful

(* The end of an attempt, and what the call does after it.                 *)
LEMMA AttemptKeepsInv ==
  ASSUME WalkInv, NEW c \in Callers, AttemptEnds(c)
  PROVE  WalkInv'
  <1>. DEFINE k == call[c].at
              a == call[c].attempt
  <1>1. PICK outcome \in Outcomes :
          CASE outcome \in Replies  -> Succeed(c, outcome)
            [] outcome \in Failures -> Fail(c, outcome)
            [] outcome = "raised"   -> Raise(c)
            [] outcome = "behavior" -> Walk(c, k + 1, breaker, Told(c, outcome))
    BY DEF AttemptEnds, Outcomes
  <1>2. /\ outcome \in Replies => Succeed(c, outcome)
        /\ outcome \in Failures => Fail(c, outcome)
        /\ outcome = "raised" => Raise(c)
        /\ outcome = "behavior" => Walk(c, k + 1, breaker, Told(c, outcome))
    BY <1>1 DEF Replies, Failures
  <1>. DEFINE r == Record(k, outcome)
  <1>3. ASSUME c = Watched
        PROVE  /\ k \in 1..Len(candidates) /\ Ready(log, k, a) /\ r \in ToldRecord
               /\ r.at = k /\ r.outcome = outcome /\ outcome # "exhausted"
               /\ outcome # "skipped" /\ Told(c, outcome) = Append(log, r)
    <2>1. k \in 1..Len(candidates) /\ Ready(log, k, a)
      BY <1>3 DEF WalkInv, AttemptEnds
    <2>2. k \in Nat
      BY <2>1 DEF Ready
    <2>. QED BY <2>1, <2>2 DEF Record, ToldRecord, Told, Outcomes, Replies, Failures
  <1>. HIDE DEF r
  <1>4. ASSUME NEW circuits, outcome \notin {"ok", "raised"},
               Walk(c, k + 1, circuits, Told(c, outcome))
        PROVE  WalkInv'
    <2>1. c = Watched => /\ Ready(Told(c, outcome), k + 1, 0)
                         /\ k + 1 <= Len(candidates) + 1
      <3>. SUFFICES ASSUME c = Watched
                    PROVE  /\ Ready(Told(c, outcome), k + 1, 0)
                           /\ k + 1 <= Len(candidates) + 1
        OBVIOUS
      <3>1. Ready(Append(log, r), k + 1, 0)
        BY <1>3, <1>4, TryReady
      <3>2. Told(c, outcome) = Append(log, r)
        BY <1>3
      <3>3. k + 1 <= Len(candidates) + 1
        <4>1. k \in 1..Len(candidates)
          BY <1>3
        <4>. HIDE DEF k
        <4>. QED BY <4>1, CandidateCount
      <3>. HIDE DEF k, r
      <3>. QED BY <3>1, <3>2, <3>3
    <2>. QED BY <1>4, <2>1, WalkKeepsInv
  <1>5. ASSUME Finish(c, Told(c, outcome))
        PROVE  WalkInv'
    <2>1. /\ call' = [call EXCEPT ![c] = [pc |-> "done", at |-> 1, attempt |-> 0]]
          /\ log' = IF c = Watched THEN Told(c, outcome) ELSE log
      BY <1>5 DEF Finish, Log
    <2>2. CASE c = Watched
      <3>1. Faithful(Append(log, r)) /\ Append(log, r) \in Seq(ToldRecord)
        BY <1>3, <2>2, AppendFaithful, AppendTold DEF Ready
      <3>2. call'[Watched].pc = "done" /\ call' = [d \in Callers |-> call'[d]]
        BY <2>1, <2>2, ModelCallsAssumption DEF WalkInv
      <3>3. log' = Append(log, r)
        BY <1>3, <2>1, <2>2
      <3>. QED BY <3>1, <3>2, <3>3 DEF WalkInv
    <2>3. CASE c # Watched
      <3>1. \E x : call' = [call EXCEPT ![c] = x]
        BY <2>1
      <3>. QED BY <2>1, <2>3, <3>1, OthersMove
    <2>. QED BY <2>2, <2>3
  <1>6. CASE outcome \in Replies
    <2>1. outcome = "ok" => Finish(c, Told(c, outcome))
      BY <1>2, <1>6 DEF Succeed
    <2>2. outcome # "ok" => \E circuits : Walk(c, k + 1, circuits, Told(c, outcome))
      BY <1>2, <1>6 DEF Succeed
    <2>3. outcome # "raised"
      BY <1>6 DEF Replies
    <2>. QED BY <1>4, <1>5, <2>1, <2>2, <2>3
  <1>7. CASE outcome \in Failures
    <2>1. outcome \notin {"ok", "raised"}
      BY <1>7 DEF Failures
    <2>2. \/ \E circuits : Walk(c, k + 1, circuits, Told(c, outcome))
          \/ /\ a + 1 < Attempts[outcome]
             /\ call' = [call EXCEPT ![c] = [call[c] EXCEPT !.pc = "backoff",
                                                            !.attempt = a + 1]]
             /\ Log(c, Told(c, outcome))
      BY <1>2, <1>7 DEF Fail
    <2>3. ASSUME /\ a + 1 < Attempts[outcome]
                 /\ call' = [call EXCEPT ![c] = [call[c] EXCEPT !.pc = "backoff",
                                                                !.attempt = a + 1]]
                 /\ Log(c, Told(c, outcome))
          PROVE  WalkInv'
      <3>1. CASE c # Watched
        <4>1. log' = log /\ \E x : call' = [call EXCEPT ![c] = x]
          BY <2>3, <3>1 DEF Log
        <4>. QED BY <3>1, <4>1, OthersMove
      <3>2. CASE c = Watched
        <4>1. Ready(Append(log, r), k, a + 1)
          BY <1>3, <1>7, <2>1, <2>3, <3>2, TryReady
        <4>2. log' = Append(log, r)
          BY <1>3, <2>3, <3>2 DEF Log
        <4>3. call'[Watched] = [call[c] EXCEPT !.pc = "backoff", !.attempt = a + 1]
              /\ call' = [d \in Callers |-> call'[d]]
          BY <2>3, <3>2, ModelCallsAssumption DEF WalkInv
        <4>4. call'[Watched].at = k /\ call'[Watched].attempt = a + 1
          BY <4>3, <1>3, <3>2 DEF WalkInv
        <4>. QED BY <1>3, <3>2, <4>1, <4>2, <4>3, <4>4 DEF WalkInv, Ready
      <3>. QED BY <3>1, <3>2
    <2>. QED BY <1>4, <2>1, <2>2, <2>3
  <1>8. CASE outcome = "raised"
    BY <1>2, <1>5, <1>8 DEF Raise
  <1>9. CASE outcome = "behavior"
    BY <1>2, <1>4, <1>9
  <1>. QED BY <1>6, <1>7, <1>8, <1>9 DEF Outcomes

LEMMA WalkNext == WalkInv /\ [ModelCallsNext]_callVars => WalkInv'
  <1>. SUFFICES ASSUME WalkInv, [ModelCallsNext]_callVars PROVE WalkInv'
    OBVIOUS
  <1>1. ASSUME NEW c \in Callers, StartCall(c)
        PROVE  WalkInv'
    <2>1. Walk(c, 1, breaker, <<>>) /\ 1 <= Len(candidates) + 1
      BY <1>1, CandidateCount DEF StartCall
    <2>. QED BY <2>1, NothingTold, WalkKeepsInv
  <1>2. ASSUME NEW c \in Callers, BackoffEnds(c)
        PROVE  WalkInv'
    <2>1. /\ call' = [call EXCEPT ![c] = [call[c] EXCEPT !.pc = "calling"]] /\ log' = log
          /\ call[c].pc = "backoff"
      BY <1>2 DEF BackoffEnds
    <2>2. CASE c # Watched
      <3>1. \E x : call' = [call EXCEPT ![c] = x]
        BY <2>1
      <3>. QED BY <2>1, <2>2, <3>1, OthersMove
    <2>3. CASE c = Watched
      <3>1. call'[Watched] = [call[Watched] EXCEPT !.pc = "calling"]
            /\ call' = [d \in Callers |-> call'[d]]
        BY <2>1, <2>3, ModelCallsAssumption DEF WalkInv
      <3>2. call'[Watched].at = call[Watched].at
            /\ call'[Watched].attempt = call[Watched].attempt
        BY <3>1
      <3>. QED BY <2>1, <2>3, <3>1, <3>2 DEF WalkInv, Ready
    <2>. QED BY <2>2, <2>3
  <1>3. CASE CooldownPasses \/ ProviderTurns \/ UNCHANGED callVars
    <2>1. call' = call /\ log' = log
      BY <1>3 DEF CooldownPasses, ProviderTurns, callVars
    <2>. QED BY <2>1 DEF WalkInv
  <1>. QED BY <1>1, <1>2, <1>3, AttemptKeepsInv DEF ModelCallsNext, Calling

(* A call does what its policy says (WalkFaithful), whatever chain, budgets*)
(* and threshold are, and whatever the other calls do to the breaker.      *)
THEOREM CallsFollowTheirPolicy == ModelCallsSpec => []WalkFaithful
  <1>1. WalkInv => WalkFaithful
    <2>. SUFFICES ASSUME WalkInv PROVE WalkFaithful
      OBVIOUS
    <2>1. DOMAIN log = 1..Len(log)
      BY LenProperties DEF WalkInv
    <2>. QED BY <2>1 DEF WalkInv, WalkFaithful, Faithful, Tries
  <1>. QED BY <1>1, WalkInit, WalkNext, PTL DEF ModelCallsSpec

-----------------------------------------------------------------------------
(* The calls of a flow on DBOS are numbered branch by branch.              *)
Offsets(calls) ==
  {n \in [1..(Len(calls) + 1) -> Nat] :
     /\ n[1] = 0
     /\ \A b \in 1..Len(calls) : n[b + 1] = n[b] + calls[b]
     /\ \A b \in 1..Len(calls), c \in 1..(Len(calls) + 1) : b < c => n[b] + calls[b] <= n[c]}

Offset == CHOOSE n \in Offsets(shape.calls) : TRUE
Number(b, k) == Offset[b] + k
Total == Offset[Len(shape.calls) + 1]

(* The calls of the segments before the i-th.                              *)
Base(i) == (i - 1) * Total

StepRecord == [function : Nat, key : (1..Segments) \X Nat, ran : BOOLEAN]

EnvRecord ==
  [seg : 1..Segments, cids : Nat, functions : Nat, counts : Nat, done : [Branches -> Nat],
   step : [Branches -> {NoStep} \cup StepRecord], begun : SUBSET Branches,
   ended : SUBSET Branches, denied : BOOLEAN, raised : BOOLEAN]

Started(b) == env.done[b] + (IF env.step[b] = NoStep THEN 0 ELSE 1)

(* Of a process without a denied call, the branches 1 to m have begun; all *)
(* calls of those before the last have, too.                               *)
AsFar(m) ==
  /\ env.begun = 1..m
  /\ env.cids = env.functions
  /\ env.functions = IF m = 0 THEN 0 ELSE Offset[m] + Started(m)
  /\ \A b \in 1..m : Started(b) \in 1..shape.calls[b]
  /\ \A b \in 1..m : b < m => Started(b) = shape.calls[b]
  /\ shape.parallel = 1 => \A b \in 1..m : b < m => b \in env.ended
  /\ \A b \in Branches : b \in env.ended <=> env.done[b] = shape.calls[b]

StepFollows(b) ==
  LET f == env.step[b].function
  IN  /\ env.done[b] < shape.calls[b]
      /\ b \in env.begun /\ b \notin env.ended
      /\ f = Number(b, env.done[b] + 1) /\ env.step[b].key = <<env.seg, f>>
      /\ workflow[env.seg].counts + f <= MaxCalls

EnvFollows ==
  env # Idle =>
    /\ env \in EnvRecord
    /\ workflow[env.seg] # Unstarted
    /\ env.counts = workflow[env.seg].counts + env.functions
    /\ \A b \in Branches : /\ b \notin env.begun => env.done[b] = 0 /\ env.step[b] = NoStep
                           /\ env.step[b] # NoStep => StepFollows(b)
    /\ env.denied => env.counts >= MaxCalls
    /\ env.denied \/ \E m \in 0..Len(shape.calls) : AsFar(m)

(* A workflow starts with the counts of those before it, and its records   *)
(* are those of the calls with their numbers.                              *)
WorkflowOf(w) ==
  [status |-> w.status, counts |-> w.counts, records |-> w.records, raised |-> w.raised, out |-> w.out]

RecordsName(i, records) ==
  \A f \in DOMAIN records : \E b \in Branches : \E k \in 1..shape.calls[b] :
    records[f] = <<i, b, k>> /\ f = Number(b, k)

WorkflowsAgree ==
  /\ workflow = [i \in 1..Segments |-> workflow[i]]
  /\ \A i \in 1..Segments : workflow[i] # Unstarted =>
       /\ workflow[i] = WorkflowOf(workflow[i])
       /\ workflow[i].counts = Base(i)
       /\ workflow[i].status = "success" => workflow[i].out = Base(i + 1)
       /\ RecordsName(i, workflow[i].records)

ChainsAgree ==
  /\ chain \in [Submissions -> [pc : {"off", "start", "waits", "success", "error"},
                                seg : 1..Segments, counts : Nat]]
  /\ \A s \in Submissions : chain[s].counts = Base(chain[s].seg)

(* What ran, ran under the number of its call and within the limit.        *)
RanAsNumbered ==
  \A x \in executed : \E i \in 1..Segments, b \in Branches : \E k \in 1..shape.calls[b] :
    /\ x.call = <<i, b, k>> /\ x.key = <<i, Number(b, k)>>
    /\ Base(i) + Number(b, k) <= MaxCalls

OwnResults == \A h \in results : h.call = h.given

ReplayParts == EnvFollows /\ WorkflowsAgree /\ ChainsAgree /\ RanAsNumbered /\ OwnResults

ReplayInv == shape \in Shapes /\ (OrderFixed => ReplayParts)

(* A tool that raises leaves out the calls behind it in its branch, if     *)
(* there are any.                                                          *)
NothingSkipped ==
  \/ \A b \in Branches : shape.calls[b] = 1
  \/ \A i \in 1..Segments : workflow[i] # Unstarted => workflow[i].raised = {}

-----------------------------------------------------------------------------
LEMMA OffsetsExist ==
  ASSUME NEW calls \in Seq(Nat \ {0})
  PROVE  Offsets(calls) # {}
  <1>. DEFINE Upto(l, n) ==
                /\ n \in [1..(l + 1) -> Nat] /\ n[1] = 0
                /\ \A b \in 1..l : n[b + 1] = n[b] + calls[b]
                /\ \A b \in 1..l, c \in 1..(l + 1) : b < c => n[b] + calls[b] <= n[c]
              bad == {l \in 0..Len(calls) : ~ \E n : Upto(l, n)}
  <1>1. Len(calls) \in Nat /\ \A b \in 1..Len(calls) : calls[b] \in Nat \ {0}
    OBVIOUS
  <1>2. Upto(0, [c \in 1..1 |-> 0])
    OBVIOUS
  <1>3. ASSUME NEW l \in Nat, l + 1 <= Len(calls), NEW n, Upto(l, n)
        PROVE  \E o : Upto(l + 1, o)
    <2>. DEFINE last == l + 2
                o == [c \in 1..last |-> IF c = last THEN n[l + 1] + calls[l + 1] ELSE n[c]]
    <2>1. l + 1 \in 1..(l + 1) /\ l + 1 \in 1..Len(calls) /\ n[l + 1] \in Nat /\ calls[l + 1] \in Nat
      BY <1>1, <1>3
    <2>2. /\ o \in [1..last -> Nat] /\ o[last] = n[l + 1] + calls[l + 1]
          /\ \A c \in 1..(l + 1) : o[c] = n[c] /\ n[c] \in Nat
      BY <1>3, <2>1
    <2>. HIDE DEF o
    <2>3. o[1] = 0
      BY <1>3, <2>2
    <2>4. ASSUME NEW b \in 1..(l + 1)
          PROVE  o[b + 1] = o[b] + calls[b]
      <3>1. CASE b = l + 1
        <4>1. b + 1 = last /\ o[b] = n[b]
          BY <2>1, <2>2, <3>1
        <4>. QED BY <2>2, <3>1, <4>1
      <3>2. CASE b # l + 1
        <4>1. b \in 1..l /\ b + 1 \in 1..(l + 1)
          BY <3>2
        <4>2. n[b + 1] = n[b] + calls[b]
          BY <1>3, <4>1
        <4>. QED BY <2>2, <4>1, <4>2
      <3>. QED BY <3>1, <3>2
    <2>5. ASSUME NEW b \in 1..(l + 1), NEW c \in 1..last, b < c
          PROVE  o[b] + calls[b] <= o[c]
      <3>1. calls[b] \in Nat /\ b \in 1..Len(calls)
        BY <1>1, <1>3
      <3>2. CASE c # last
        BY <1>3, <2>2, <2>5, <3>2
      <3>3. CASE c = last /\ b = l + 1
        BY <2>1, <2>2, <3>3
      <3>4. CASE c = last /\ b # l + 1
        <4>1. b \in 1..l /\ b < l + 1
          BY <3>4
        <4>2. n[b] + calls[b] <= n[l + 1]
          BY <1>3, <2>1, <4>1
        <4>3. o[b] = n[b] /\ n[b] \in Nat
          BY <2>2
        <4>4. o[c] = n[l + 1] + calls[l + 1]
          BY <2>2, <3>4
        <4>. QED BY <2>1, <3>1, <4>2, <4>3, <4>4
      <3>. QED BY <3>2, <3>3, <3>4
    <2>6. last = (l + 1) + 1
      BY <1>3
    <2>7. Upto(l + 1, o)
      <3>. HIDE DEF last
      <3>. QED BY <2>2, <2>3, <2>4, <2>5, <2>6
    <2>. QED BY <2>7
  <1>4. bad = {}
    <2>. SUFFICES ASSUME bad # {} PROVE FALSE
      OBVIOUS
    <2>1. bad \subseteq Nat
      BY <1>1
    <2>2. PICK l \in bad : \A k \in bad : l <= k
      <3>. HIDE DEF bad
      <3>. QED BY <2>1, LeastNumber
    <2>3. l # 0
      <3>1. \E n : Upto(0, n)
        BY <1>2
      <3>. HIDE DEF Upto
      <3>. QED BY <3>1
    <2>4. l - 1 \in Nat /\ l - 1 \in 0..Len(calls) /\ (l - 1) + 1 = l /\ l <= Len(calls)
      BY <1>1, <2>3
    <2>5. \E n : Upto(l - 1, n)
      <3>1. l \in Nat /\ ~(l <= l - 1)
        BY <2>1, <2>2
      <3>2. l - 1 \notin bad
        <4>. HIDE DEF bad
        <4>. QED BY <2>2, <3>1
      <3>. HIDE DEF Upto
      <3>. QED BY <2>4, <3>2
    <2>. HIDE DEF Upto
    <2>6. \E n : Upto(l, n)
      BY <1>3, <2>4, <2>5
    <2>. QED BY <2>6
  <1>5. PICK n : Upto(Len(calls), n)
    <2>. HIDE DEF Upto
    <2>. QED BY <1>1, <1>4
  <1>6. n \in Offsets(calls)
    BY <1>5 DEF Offsets
  <1>. QED BY <1>6

LEMMA OffsetFacts ==
  ASSUME shape \in Shapes
  PROVE  /\ Len(shape.calls) \in Nat /\ Branches = 1..Len(shape.calls) /\ shape.parallel \in Nat \ {0}
         /\ \A b \in Branches : shape.calls[b] \in Nat \ {0}
         /\ Offset \in [1..(Len(shape.calls) + 1) -> Nat] /\ Total \in Nat /\ Offset[1] = 0
         /\ \A b \in Branches : Offset[b + 1] = Offset[b] + shape.calls[b] /\ Offset[b] \in Nat
         /\ \A b \in Branches, c \in 1..(Len(shape.calls) + 1) :
              b < c => Offset[b] + shape.calls[b] <= Offset[c]
  <1>1. shape.calls \in Seq(Nat \ {0}) /\ shape.parallel \in Nat \ {0}
    BY DbosAssumption
  <1>. DEFINE calls == shape.calls
  <1>2. Offset \in Offsets(calls)
    <2>1. Offsets(calls) # {}
      BY <1>1, OffsetsExist
    <2>. QED BY <2>1 DEF Offset
  <1>3. Len(calls) \in Nat /\ Branches = 1..Len(calls) /\ \A b \in Branches : calls[b] \in Nat \ {0}
    BY <1>1 DEF Branches
  <1>. HIDE DEF calls
  <1>4. /\ Offset \in [1..(Len(calls) + 1) -> Nat] /\ Offset[1] = 0
        /\ \A b \in Branches : Offset[b + 1] = Offset[b] + calls[b]
        /\ \A b \in Branches, c \in 1..(Len(calls) + 1) : b < c => Offset[b] + calls[b] <= Offset[c]
    BY <1>2, <1>3 DEF Offsets
  <1>5. Offset[Len(calls) + 1] \in Nat /\ \A b \in Branches : Offset[b] \in Nat
    <2>1. Len(calls) + 1 \in 1..(Len(calls) + 1) /\ Branches \subseteq 1..(Len(calls) + 1)
      BY <1>3
    <2>. QED BY <1>4, <2>1
  <1>. QED BY <1>1, <1>3, <1>4, <1>5 DEF calls, Total

(* The numbers of two calls differ, and none exceeds how many there are.   *)
LEMMA NumbersDiffer ==
  ASSUME shape \in Shapes, NEW b \in Branches, NEW k \in 1..shape.calls[b]
  PROVE  /\ Number(b, k) \in 1..Total
         /\ \A c \in Branches : \A l \in 1..shape.calls[c] :
              Number(b, k) = Number(c, l) => b = c /\ k = l
  <1>1. /\ Len(shape.calls) \in Nat /\ Branches = 1..Len(shape.calls)
        /\ \A c \in Branches : shape.calls[c] \in Nat \ {0} /\ Offset[c] \in Nat
        /\ \A c \in Branches, d \in 1..(Len(shape.calls) + 1) :
             c < d => Offset[c] + shape.calls[c] <= Offset[d]
        /\ Total \in Nat
    BY OffsetFacts
  <1>2. Offset[b] + shape.calls[b] <= Total
    <2>1. Len(shape.calls) + 1 \in 1..(Len(shape.calls) + 1) /\ b < Len(shape.calls) + 1
      BY <1>1
    <2>. QED BY <1>1, <2>1 DEF Total
  <1>3. Number(b, k) \in 1..Total
    BY <1>1, <1>2 DEF Number
  <1>4. ASSUME NEW c \in Branches, NEW l \in 1..shape.calls[c], Number(b, k) = Number(c, l)
        PROVE  b = c /\ k = l
    <2>1. ~(b < c)
      <3>1. ASSUME b < c PROVE FALSE
        <4>1. Offset[b] + shape.calls[b] <= Offset[c]
          BY <1>1, <3>1
        <4>2. Offset[b] \in Nat /\ Offset[c] \in Nat /\ k <= shape.calls[b] /\ l >= 1
              /\ shape.calls[b] \in Nat
          BY <1>1
        <4>. QED BY <1>4, <4>1, <4>2 DEF Number
      <3>. QED BY <3>1
    <2>2. ~(c < b)
      <3>1. ASSUME c < b PROVE FALSE
        <4>1. Offset[c] + shape.calls[c] <= Offset[b]
          BY <1>1, <3>1
        <4>2. Offset[b] \in Nat /\ Offset[c] \in Nat /\ l <= shape.calls[c] /\ k >= 1
              /\ shape.calls[c] \in Nat
          BY <1>1
        <4>. QED BY <1>4, <4>1, <4>2 DEF Number
      <3>. QED BY <3>1
    <2>3. b = c
      BY <1>1, <2>1, <2>2
    <2>4. Offset[b] \in Nat /\ k \in Nat /\ l \in Nat
      BY <1>1
    <2>. QED BY <1>4, <2>3, <2>4 DEF Number
  <1>. QED BY <1>3, <1>4

LEMMA BaseFacts ==
  ASSUME shape \in Shapes
  PROVE  /\ Base(1) = 0
         /\ \A i \in Nat \ {0} : Base(i) \in Nat /\ Base(i + 1) = Base(i) + Total
         /\ \A i, j \in Nat \ {0} : i < j => Base(i) + Total <= Base(j)
  <1>1. Total \in Nat
    BY OffsetFacts
  <1>. DEFINE t == Total
  <1>2. Base(1) = 0
    BY <1>1 DEF Base
  <1>3. ASSUME NEW i \in Nat \ {0}
        PROVE  Base(i) \in Nat /\ Base(i + 1) = Base(i) + Total
    <2>1. PICK k \in Nat : i = k + 1
      <3>1. i - 1 \in Nat /\ i = (i - 1) + 1
        OBVIOUS
      <3>. QED BY <3>1
    <2>2. t \in Nat
      BY <1>1
    <2>. HIDE DEF t
    <2>3. (i - 1) * t = k * t /\ k * t \in Nat /\ ((i + 1) - 1) * t = k * t + t
      <3>1. i - 1 = k /\ (i + 1) - 1 = k + 1
        BY <2>1
      <3>2. k * t \in Nat /\ (k + 1) * t = k * t + t
        BY <2>2
      <3>. QED BY <3>1, <3>2
    <2>. QED BY <2>3 DEF Base, t
  <1>4. ASSUME NEW i \in Nat \ {0}, NEW j \in Nat \ {0}, i < j
        PROVE  Base(i) + Total <= Base(j)
    <2>1. PICK k \in Nat : j = i + 1 + k
      <3>1. j - i - 1 \in Nat /\ j = i + 1 + (j - i - 1)
        BY <1>4
      <3>. QED BY <3>1
    <2>2. t \in Nat
      BY <1>1
    <2>. HIDE DEF t
    <2>3. (j - 1) * t = (i - 1) * t + t + k * t /\ k * t \in Nat /\ (i - 1) * t \in Nat
      <3>1. i - 1 \in Nat /\ j - 1 = (i - 1) + 1 + k
        BY <2>1
      <3>. DEFINE h == i - 1
      <3>2. h \in Nat
        BY <3>1
      <3>. HIDE DEF h
      <3>3. (h + 1 + k) * t = h * t + t + k * t /\ k * t \in Nat /\ h * t \in Nat
        BY <2>2, <3>2
      <3>. QED BY <3>1, <3>3 DEF h
    <2>. QED BY <2>2, <2>3 DEF Base, t
  <1>. QED BY <1>2, <1>3, <1>4

LEMMA ShapeStays ==
  ASSUME shape' = shape
  PROVE  /\ Branches' = Branches /\ Offset' = Offset /\ Total' = Total
         /\ (OrderFixed <=> OrderFixed')
  BY DEF Branches, Offset, Total, OrderFixed

(* What a process did so far stays in keeping with a workflow whose counts *)
(* stay.                                                                   *)
LEMMA EnvStays ==
  ASSUME EnvFollows, shape' = shape, env' = env,
         env # Idle => /\ workflow[env.seg]'.counts = workflow[env.seg].counts
                       /\ workflow[env.seg]' # Unstarted
  PROVE  EnvFollows'
  <1>1. Branches' = Branches /\ Offset' = Offset
    BY ShapeStays
  <1>. USE <1>1
  <1>2. \A b \in Branches : Started(b)' = Started(b)
    BY DEF Started
  <1>3. ASSUME NEW b \in Branches, env # Idle, StepFollows(b)
        PROVE  StepFollows(b)'
    BY <1>3 DEF StepFollows, Number
  <1>4. ASSUME NEW m \in 0..Len(shape.calls), AsFar(m)
        PROVE  AsFar(m)'
    BY <1>4 DEF AsFar, Started
  <1>5. EnvRecord' = EnvRecord
    BY DEF EnvRecord, StepRecord
  <1>6. CASE env = Idle
    BY <1>6 DEF EnvFollows, Idle
  <1>7. CASE env # Idle
    <2>1. env' \in EnvRecord' /\ workflow[env.seg]' # Unstarted
      BY <1>5, <1>7 DEF EnvFollows
    <2>2. env'.counts = workflow[env.seg]'.counts + env'.functions
      BY <1>7 DEF EnvFollows
    <2>3. \A b \in Branches : /\ b \notin env.begun => env.done[b] = 0 /\ env.step[b] = NoStep
                              /\ env.step[b] # NoStep => StepFollows(b)'
      BY <1>3, <1>7 DEF EnvFollows
    <2>4. env.denied \/ \E m \in 0..Len(shape.calls) : AsFar(m)'
      BY <1>4, <1>7 DEF EnvFollows
    <2>5. env.denied => env.counts >= MaxCalls
      BY <1>7 DEF EnvFollows
    <2>. QED BY <2>1, <2>2, <2>3, <2>4, <2>5 DEF EnvFollows, NoStep, Idle
  <1>. QED BY <1>6, <1>7

LEMMA WorkflowsStay ==
  ASSUME WorkflowsAgree, shape' = shape, workflow' = workflow
  PROVE  WorkflowsAgree'
  <1>1. Branches' = Branches /\ Offset' = Offset /\ Total' = Total
    BY ShapeStays
  <1>. QED BY <1>1 DEF WorkflowsAgree, WorkflowOf, RecordsName, Number, Base, Unstarted

LEMMA ChainsStay ==
  ASSUME ChainsAgree, shape' = shape, chain' = chain
  PROVE  ChainsAgree'
  <1>1. Total' = Total
    BY ShapeStays
  <1>. QED BY <1>1 DEF ChainsAgree, Base

LEMMA HistoryStays ==
  ASSUME RanAsNumbered, shape' = shape, executed' = executed
  PROVE  /\ RanAsNumbered'
         /\ (OwnResults /\ results' = results) => OwnResults'
  <1>1. Branches' = Branches /\ Offset' = Offset /\ Total' = Total
    BY ShapeStays
  <1>. QED BY <1>1 DEF RanAsNumbered, OwnResults, Number, Base

LEMMA ChainStep ==
  ASSUME shape \in Shapes, ReplayParts, NEW s \in Submissions,
         Submit(s) \/ GetResult(s) \/ DriverDies(s)
  PROVE  ReplayParts'
  <1>1. /\ shape' = shape /\ workflow' = workflow /\ env' = env /\ executed' = executed
        /\ results' = results
    BY DEF Submit, GetResult, DriverDies
  <1>2. EnvFollows' /\ WorkflowsAgree' /\ RanAsNumbered' /\ OwnResults'
    <2>1. EnvFollows'
      BY <1>1, EnvStays DEF ReplayParts, EnvFollows
    <2>. QED BY <1>1, <2>1, WorkflowsStay, HistoryStays DEF ReplayParts
  <1>. DEFINE record == [pc : {"off", "start", "waits", "success", "error"},
                         seg : 1..Segments, counts : Nat]
  <1>3. chain \in [Submissions -> record] /\ \A t \in Submissions : chain[t].counts = Base(chain[t].seg)
    BY DEF ReplayParts, ChainsAgree
  <1>4. ASSUME NEW c \in record, chain' = [chain EXCEPT ![s] = c], c.counts = Base(c.seg)
        PROVE  ReplayParts'
    <2>1. Total' = Total
      BY <1>1, ShapeStays
    <2>2. chain' \in [Submissions -> record]
          /\ \A t \in Submissions : chain'[t].counts = Base(chain'[t].seg)
      BY <1>3, <1>4
    <2>3. ChainsAgree'
      BY <1>1, <2>1, <2>2 DEF ChainsAgree, Base
    <2>. QED BY <1>2, <2>3 DEF ReplayParts
  <1>5. CASE Submit(s)
    <2>1. 1 \in 1..Segments /\ Base(1) = 0
      BY DbosAssumption, BaseFacts
    <2>2. Submitted \in record /\ Submitted.counts = Base(Submitted.seg)
      BY <2>1 DEF Submitted
    <2>. QED BY <1>4, <1>5, <2>2 DEF Submit
  <1>6. CASE DriverDies(s)
    <2>. DEFINE c == [chain[s] EXCEPT !.pc = "off"]
    <2>1. chain' = [chain EXCEPT ![s] = c]
      BY <1>3, <1>6 DEF DriverDies
    <2>2. c \in record /\ c.counts = Base(c.seg)
      BY <1>3
    <2>. QED BY <1>4, <2>1, <2>2
  <1>7. CASE GetResult(s)
    <2>. DEFINE i == chain[s].seg
                w == workflow[i]
    <2>1. CASE w.status = "success" /\ i < Segments
      <3>. DEFINE c == [pc |-> "start", seg |-> i + 1, counts |-> w.out]
      <3>1. w # Unstarted /\ i \in 1..Segments
        BY <1>3, <2>1 DEF Unstarted
      <3>2. w.out = Base(i + 1)
        BY <2>1, <3>1 DEF ReplayParts, WorkflowsAgree
      <3>3. i + 1 \in 1..Segments /\ i + 1 \in Nat \ {0}
        BY <2>1, <3>1, DbosAssumption
      <3>4. Base(i + 1) \in Nat
        BY <3>3, BaseFacts
      <3>5. c \in record /\ c.counts = Base(c.seg)
        BY <3>2, <3>3, <3>4
      <3>6. chain' = [chain EXCEPT ![s] = c]
        BY <1>7, <2>1 DEF GetResult
      <3>. QED BY <1>4, <3>5, <3>6
    <2>2. CASE ~(w.status = "success" /\ i < Segments)
      <3>. DEFINE c == [chain[s] EXCEPT !.pc = w.status]
      <3>1. chain' = [chain EXCEPT ![s] = c] /\ w.status \in {"success", "error"}
        BY <1>7, <2>2 DEF GetResult
      <3>2. c \in record /\ c.counts = Base(c.seg)
        BY <1>3, <3>1
      <3>. QED BY <1>4, <3>1, <3>2
    <2>. QED BY <2>1, <2>2
  <1>. QED BY <1>5, <1>6, <1>7

LEMMA StartStep ==
  ASSUME shape \in Shapes, ReplayParts, NEW s \in Submissions, StartSegment(s)
  PROVE  ReplayParts'
  <1>. DEFINE c == chain[s]
              w == [status |-> "pending", counts |-> c.counts, records |-> <<>>, raised |-> {}, out |-> 0]
  <1>1. /\ shape' = shape /\ env' = env /\ executed' = executed /\ results' = results
        /\ chain' = [chain EXCEPT ![s].pc = "waits"]
        /\ \/ workflow' = workflow
           \/ workflow[c.seg] = Unstarted /\ workflow' = [workflow EXCEPT ![c.seg] = w]
    BY DEF StartSegment
  <1>2. /\ Branches' = Branches /\ Offset' = Offset /\ Total' = Total
    BY <1>1, ShapeStays
  <1>3. c.seg \in 1..Segments /\ c.counts = Base(c.seg)
    BY DEF ReplayParts, ChainsAgree
  <1>4. ChainsAgree'
    BY <1>1, <1>2 DEF ReplayParts, ChainsAgree, Base
  <1>5. RanAsNumbered' /\ OwnResults'
    BY <1>1, HistoryStays DEF ReplayParts
  <1>6. CASE workflow' = workflow
    <2>1. EnvFollows'
      BY <1>1, <1>6, EnvStays DEF ReplayParts, EnvFollows
    <2>. QED BY <1>1, <1>4, <1>5, <1>6, <2>1, WorkflowsStay DEF ReplayParts
  <1>7. CASE workflow[c.seg] = Unstarted /\ workflow' = [workflow EXCEPT ![c.seg] = w]
    <2>1. env # Idle => env.seg # c.seg /\ env.seg \in 1..Segments
      BY <1>7 DEF ReplayParts, EnvFollows, EnvRecord
    <2>2. EnvFollows'
      <3>1. env # Idle => workflow[env.seg]' = workflow[env.seg]
        BY <1>1, <1>7, <2>1 DEF ReplayParts, WorkflowsAgree
      <3>. QED BY <1>1, <3>1, EnvStays DEF ReplayParts, EnvFollows
    <2>3. workflow' = [i \in 1..Segments |-> workflow'[i]]
      BY <1>3, <1>7 DEF ReplayParts, WorkflowsAgree
    <2>4. workflow'[c.seg] = w /\ \A i \in 1..Segments : i # c.seg => workflow'[i] = workflow[i]
      BY <1>3, <1>7 DEF ReplayParts, WorkflowsAgree
    <2>5. w = WorkflowOf(w) /\ w.counts = Base(c.seg) /\ w.status # "success" /\ DOMAIN w.records = {}
      BY <1>3 DEF WorkflowOf
    <2>. HIDE DEF w
    <2>6. WorkflowsAgree'
      <3>1. ASSUME NEW i \in 1..Segments, workflow'[i] # Unstarted
            PROVE  /\ workflow'[i] = WorkflowOf(workflow'[i]) /\ workflow'[i].counts = Base(i)
                   /\ workflow'[i].status = "success" => workflow'[i].out = Base(i + 1)
                   /\ RecordsName(i, workflow'[i].records)
        BY <2>4, <2>5, <3>1 DEF ReplayParts, WorkflowsAgree, RecordsName
      <3>. QED BY <1>2, <1>1, <2>3, <3>1
             DEF WorkflowsAgree, WorkflowOf, RecordsName, Number, Base, Unstarted
    <2>. QED BY <1>4, <1>5, <2>2, <2>6 DEF ReplayParts
  <1>. QED BY <1>1, <1>6, <1>7

LEMMA InterpretStep ==
  ASSUME shape \in Shapes, ReplayParts, NEW i \in 1..Segments, Interpret(i)
  PROVE  ReplayParts'
  <1>1. /\ shape' = shape /\ workflow' = workflow /\ chain' = chain /\ executed' = executed
        /\ results' = results /\ workflow[i].status = "pending"
        /\ env' = [seg |-> i, cids |-> 0, functions |-> 0, counts |-> workflow[i].counts,
                   done |-> [b \in Branches |-> 0], step |-> [b \in Branches |-> NoStep],
                   begun |-> {}, ended |-> {}, denied |-> FALSE, raised |-> FALSE]
    BY DEF Interpret
  <1>2. Branches' = Branches
    BY <1>1, ShapeStays
  <1>3. workflow[i] # Unstarted /\ workflow[i].counts \in Nat
    <2>1. workflow[i] # Unstarted
      BY <1>1 DEF Unstarted
    <2>2. workflow[i].counts = Base(i)
      BY <2>1 DEF ReplayParts, WorkflowsAgree
    <2>. QED BY <2>1, <2>2, BaseFacts
  <1>4. env' \in EnvRecord'
    BY <1>1, <1>2, <1>3 DEF EnvRecord
  <1>5. AsFar(0)'
    <2>1. \A b \in Branches : 0 # shape.calls[b]
      BY OffsetFacts
    <2>. QED BY <1>1, <1>2, <2>1 DEF AsFar
  <1>6. 0 \in 0..Len(shape.calls)
    BY OffsetFacts
  <1>7. EnvFollows'
    <2>1. \E m \in 0..Len(shape'.calls) : AsFar(m)'
      BY <1>1, <1>5, <1>6
    <2>2. env'.counts = workflow'[env'.seg].counts + env'.functions /\ workflow'[env'.seg] # Unstarted'
      BY <1>1, <1>3 DEF Unstarted
    <2>3. \A b \in Branches : env'.done[b] = 0 /\ env'.step[b] = NoStep /\ ~env'.denied
      BY <1>1
    <2>. QED BY <1>1, <1>2, <1>4, <2>1, <2>2, <2>3 DEF EnvFollows, NoStep
  <1>. QED BY <1>1, <1>7, WorkflowsStay, ChainsStay, HistoryStays DEF ReplayParts

LEMMA DeathStep ==
  ASSUME shape \in Shapes, ReplayParts, ProcessDies
  PROVE  ReplayParts'
  <1>1. /\ shape' = shape /\ workflow' = workflow /\ chain' = chain /\ executed' = executed
        /\ results' = results /\ env' = Idle
    BY DEF ProcessDies
  <1>2. EnvFollows'
    BY <1>1 DEF EnvFollows, Idle
  <1>. QED BY <1>1, <1>2, WorkflowsStay, ChainsStay, HistoryStays DEF ReplayParts

(* What a process that interprets a segment may rely on.                   *)
LEMMA StepFacts ==
  ASSUME shape \in Shapes, ReplayParts, env # Idle
  PROVE  /\ env \in EnvRecord /\ env.seg \in 1..Segments
         /\ workflow[env.seg].counts = Base(env.seg) /\ Base(env.seg) \in Nat
         /\ RecordsName(env.seg, workflow[env.seg].records)
         /\ \A b \in Branches : env.step[b] # NoStep =>
              /\ StepFollows(b) /\ env.step[b] \in StepRecord
              /\ env.done[b] + 1 \in 1..shape.calls[b]
              /\ env.step[b].function = Number(b, env.done[b] + 1)
              /\ env.step[b].function \in Nat \ {0}
  <1>1. env \in EnvRecord /\ workflow[env.seg] # Unstarted
    BY DEF ReplayParts, EnvFollows
  <1>2. env.seg \in 1..Segments
    BY <1>1 DEF EnvRecord
  <1>3. Base(env.seg) \in Nat
    BY <1>2, BaseFacts
  <1>4. ASSUME NEW b \in Branches, env.step[b] # NoStep
        PROVE  /\ StepFollows(b) /\ env.step[b] \in StepRecord
               /\ env.done[b] + 1 \in 1..shape.calls[b]
               /\ env.step[b].function = Number(b, env.done[b] + 1)
               /\ env.step[b].function \in Nat \ {0}
    <2>1. StepFollows(b)
      BY <1>4 DEF ReplayParts, EnvFollows
    <2>2. env.step[b] \in StepRecord /\ env.done[b] \in Nat
      BY <1>1, <1>4 DEF EnvRecord
    <2>3. shape.calls[b] \in Nat
      BY OffsetFacts
    <2>4. env.done[b] + 1 \in 1..shape.calls[b] /\ env.step[b].function = Number(b, env.done[b] + 1)
      BY <2>1, <2>2, <2>3 DEF StepFollows
    <2>5. Number(b, env.done[b] + 1) \in 1..Total
      BY <2>4, NumbersDiffer
    <2>6. Total \in Nat
      BY OffsetFacts
    <2>. QED BY <2>1, <2>2, <2>4, <2>5, <2>6
  <1>. QED BY <1>1, <1>2, <1>3, <1>4 DEF ReplayParts, WorkflowsAgree

LEMMA ToolStep ==
  ASSUME shape \in Shapes, ReplayParts, NEW b \in Branches, ToolRuns(b)
  PROVE  ReplayParts'
  <1>1. /\ shape' = shape /\ workflow' = workflow /\ chain' = chain /\ results' = results
        /\ env # Idle /\ env.step[b] # NoStep
        /\ env' = [env EXCEPT !.step[b].ran = TRUE]
        /\ executed' = executed \union {[call |-> Call(b), key |-> env.step[b].key]}
    BY DEF ToolRuns
  <1>2. /\ Branches' = Branches /\ Offset' = Offset /\ Total' = Total
    BY <1>1, ShapeStays
  <1>3. /\ env \in EnvRecord /\ env.step[b] \in StepRecord /\ env.step[b].function # 0
        /\ StepFollows(b)
    BY <1>1, StepFacts
  <1>4. env' \in EnvRecord
    BY <1>1, <1>3 DEF EnvRecord, StepRecord
  <1>5. /\ env'.seg = env.seg /\ env'.cids = env.cids /\ env'.functions = env.functions
        /\ env'.counts = env.counts /\ env'.done = env.done /\ env'.begun = env.begun
        /\ env'.ended = env.ended /\ env'.denied = env.denied
    BY <1>1, <1>3 DEF EnvRecord
  <1>6. \A c \in Branches : /\ env'.step[c] = NoStep <=> env.step[c] = NoStep
                            /\ env.step[c] # NoStep => /\ env'.step[c].function = env.step[c].function
                                                       /\ env'.step[c].key = env.step[c].key
    BY <1>1, <1>3 DEF EnvRecord, StepRecord, NoStep
  <1>7. EnvFollows'
    <2>1. \A c \in Branches : StepFollows(c) /\ env.step[c] # NoStep => StepFollows(c)'
      BY <1>1, <1>2, <1>5, <1>6 DEF StepFollows, Number
    <2>2. ASSUME NEW m \in 0..Len(shape.calls), AsFar(m)
          PROVE  AsFar(m)'
      <3>1. m \in Nat /\ 1..m \subseteq Branches /\ (m # 0 => m \in Branches)
        BY OffsetFacts
      <3>2. \A c \in Branches : Started(c)' = Started(c)
        BY <1>5, <1>6 DEF Started, NoStep
      <3>. QED BY <1>1, <1>2, <1>5, <2>2, <3>1, <3>2 DEF AsFar
    <2>3. EnvRecord' = EnvRecord
      BY <1>2 DEF EnvRecord, StepRecord, NoStep
    <2>4. /\ workflow[env.seg] # Unstarted
          /\ env.counts = workflow[env.seg].counts + env.functions
          /\ \A c \in Branches : /\ c \notin env.begun => env.done[c] = 0 /\ env.step[c] = NoStep
                                 /\ env.step[c] # NoStep => StepFollows(c)
          /\ env.denied => env.counts >= MaxCalls
          /\ env.denied \/ \E m \in 0..Len(shape.calls) : AsFar(m)
      BY <1>1 DEF ReplayParts, EnvFollows
    <2>. QED BY <1>1, <1>2, <1>4, <1>5, <1>6, <2>1, <2>2, <2>3, <2>4 DEF EnvFollows, NoStep, Unstarted
  <1>8. RanAsNumbered'
    <2>. DEFINE k == env.done[b] + 1
                i == env.seg
    <2>1. k \in 1..shape.calls[b] /\ i \in 1..Segments
      BY <1>1, StepFacts
    <2>2. Base(i) + Number(b, k) <= MaxCalls /\ env.step[b].key = <<i, Number(b, k)>>
      BY <1>1, <1>3, StepFacts DEF StepFollows
    <2>3. Call(b) = <<i, b, k>>
      BY DEF Call
    <2>. HIDE DEF k, i
    <2>. QED BY <1>1, <1>2, <2>1, <2>2, <2>3 DEF ReplayParts, RanAsNumbered, Base, Number
  <1>9. OwnResults'
    BY <1>1 DEF ReplayParts, OwnResults
  <1>. QED BY <1>1, <1>7, <1>8, <1>9, WorkflowsStay, ChainsStay DEF ReplayParts

LEMMA RecordKept ==
  ASSUME shape \in Shapes, ReplayParts, NEW b \in Branches, NEW raises \in BOOLEAN,
         RecordStep(b, raises)
  PROVE  ReplayParts'
  <1>. DEFINE i == env.seg
              f == env.step[b].function
              old == workflow[i].records
              new == [g \in DOMAIN old \union {f} |-> IF g \in DOMAIN old THEN old[g] ELSE Call(b)]
              raised == IF raises THEN workflow[i].raised \union {f} ELSE workflow[i].raised
  <1>1. /\ shape' = shape /\ env' = env /\ chain' = chain /\ executed' = executed
        /\ results' = results /\ env # Idle /\ env.step[b] # NoStep
        /\ workflow' = [workflow EXCEPT ![i].records = new, ![i].raised = raised]
    BY DEF RecordStep
  <1>2. /\ Branches' = Branches /\ Offset' = Offset /\ Total' = Total
    BY <1>1, ShapeStays
  <1>3. /\ i \in 1..Segments /\ RecordsName(i, old) /\ env.done[b] + 1 \in 1..shape.calls[b]
        /\ f = Number(b, env.done[b] + 1) /\ Call(b) = <<i, b, env.done[b] + 1>>
    BY <1>1, StepFacts DEF Call
  <1>4. workflow[i] # Unstarted
    BY <1>1 DEF ReplayParts, EnvFollows
  <1>5. RecordsName(i, new)
    <2>. HIDE DEF i, f, old
    <2>. QED BY <1>3 DEF RecordsName
  <1>6. /\ workflow' = [j \in 1..Segments |-> workflow'[j]]
        /\ workflow'[i] = [workflow[i] EXCEPT !.records = new, !.raised = raised]
        /\ \A j \in 1..Segments : j # i => workflow'[j] = workflow[j]
    <2>. HIDE DEF new, raised, i
    <2>. QED BY <1>1, <1>3 DEF ReplayParts, WorkflowsAgree
  <1>. HIDE DEF new, raised
  <1>7. /\ workflow'[i] = WorkflowOf(workflow'[i]) /\ workflow'[i].counts = workflow[i].counts
        /\ workflow'[i].status = workflow[i].status /\ workflow'[i].out = workflow[i].out
        /\ workflow'[i].records = new
    <2>. HIDE DEF i
    <2>. QED BY <1>3, <1>4, <1>6 DEF ReplayParts, WorkflowsAgree, WorkflowOf
  <1>. HIDE DEF i
  <1>8. WorkflowsAgree'
    <2>1. ASSUME NEW j \in 1..Segments, workflow'[j] # Unstarted
          PROVE  /\ workflow'[j] = WorkflowOf(workflow'[j]) /\ workflow'[j].counts = Base(j)
                 /\ workflow'[j].status = "success" => workflow'[j].out = Base(j + 1)
                 /\ RecordsName(j, workflow'[j].records)
      <3>1. CASE j = i
        <4>1. /\ workflow[i].counts = Base(i)
              /\ workflow[i].status = "success" => workflow[i].out = Base(i + 1)
          BY <1>3, <1>4 DEF ReplayParts, WorkflowsAgree
        <4>2. /\ workflow'[i] = WorkflowOf(workflow'[i]) /\ workflow'[i].counts = Base(i)
              /\ workflow'[i].status = "success" => workflow'[i].out = Base(i + 1)
              /\ RecordsName(i, workflow'[i].records)
          <5>1. RecordsName(i, workflow'[i].records)
            BY <1>5, <1>7, Zenon
          <5>. QED BY <1>7, <4>1, <5>1
        <4>. QED BY <3>1, <4>2, Zenon
      <3>2. CASE j # i
        <4>1. workflow'[j] = workflow[j]
          BY <1>6, <3>2
        <4>. QED BY <2>1, <4>1 DEF ReplayParts, WorkflowsAgree
      <3>. QED BY <3>1, <3>2
    <2>2. ASSUME NEW j \in 1..Segments, workflow'[j] # Unstarted
          PROVE  /\ Base(j)' = Base(j) /\ Base(j + 1)' = Base(j + 1)
                 /\ RecordsName(j, workflow[j].records)'
      <3>1. RecordsName(j, workflow'[j].records)
        BY <2>1, <2>2
      <3>2. RecordsName(j, workflow[j].records)'
        BY <1>1, <1>2, <3>1 DEF RecordsName, Number
      <3>. QED BY <1>2, <3>2 DEF Base
    <2>. QED BY <1>6, <2>1, <2>2 DEF WorkflowsAgree, WorkflowOf, Unstarted
  <1>9. EnvFollows'
    <2>1. workflow'[i].counts = workflow[i].counts /\ workflow'[i] # Unstarted
      <3>1. workflow'[i].status = workflow[i].status /\ workflow[i] = WorkflowOf(workflow[i])
            /\ workflow'[i] = WorkflowOf(workflow'[i])
        BY <1>3, <1>4, <1>7 DEF ReplayParts, WorkflowsAgree
      <3>. QED BY <1>7, <3>1 DEF WorkflowOf, Unstarted
    <2>. QED BY <1>1, <2>1, EnvStays DEF ReplayParts, i
  <1>. QED BY <1>1, <1>8, <1>9, ChainsStay, HistoryStays DEF ReplayParts

LEMMA ReturnStep ==
  ASSUME shape \in Shapes, ReplayParts, NothingSkipped, NEW b \in Branches, StepReturns(b)
  PROVE  ReplayParts'
  <1>. DEFINE given == workflow[env.seg].records[env.step[b].function]
              done == env.done[b] + 1
              raises == env.step[b].function \in workflow[env.seg].raised
              raised == env.raised \/ raises
  <1>1. /\ shape' = shape /\ workflow' = workflow /\ chain' = chain /\ executed' = executed
        /\ env # Idle /\ env.step[b] # NoStep
        /\ env.step[b].function \in DOMAIN workflow[env.seg].records
        /\ results' = results \union {[call |-> Call(b), given |-> given]}
        /\ env' = [env EXCEPT !.step[b] = NoStep, !.done[b] = env.done[b] + 1, !.raised = raised,
                     !.ended = IF raises \/ done = shape.calls[b] THEN env.ended \union {b} ELSE env.ended]
    BY DEF StepReturns
  <1>2. /\ Branches' = Branches /\ Offset' = Offset
    BY <1>1, ShapeStays
  <1>21. raises => done = shape.calls[b]
    <2>1. CASE \A c \in Branches : shape.calls[c] = 1
      <3>1. done \in 1..shape.calls[b]
        BY <1>1, StepFacts
      <3>. QED BY <2>1, <3>1
    <2>2. CASE \A i \in 1..Segments : workflow[i] # Unstarted => workflow[i].raised = {}
      <3>1. env.seg \in 1..Segments /\ workflow[env.seg] # Unstarted
        BY <1>1, StepFacts DEF ReplayParts, EnvFollows
      <3>. QED BY <2>2, <3>1
    <2>. QED BY <2>1, <2>2 DEF NothingSkipped
  <1>3. /\ env \in EnvRecord /\ StepFollows(b) /\ done \in 1..shape.calls[b] /\ done \in Nat
        /\ env.step[b].function = Number(b, done) /\ RecordsName(env.seg, workflow[env.seg].records)
    BY <1>1, StepFacts
  <1>4. given = Call(b)
    <2>1. PICK c \in Branches : \E l \in 1..shape.calls[c] :
            given = <<env.seg, c, l>> /\ env.step[b].function = Number(c, l)
      BY <1>1, <1>3 DEF RecordsName
    <2>2. PICK l \in 1..shape.calls[c] :
            given = <<env.seg, c, l>> /\ env.step[b].function = Number(c, l)
      BY <2>1
    <2>3. b = c /\ done = l
      <3>. HIDE DEF done
      <3>. QED BY <1>3, <2>2, NumbersDiffer
    <2>. QED BY <2>2, <2>3 DEF Call
  <1>5. OwnResults'
    BY <1>1, <1>4 DEF ReplayParts, OwnResults
  <1>6. /\ env'.seg = env.seg /\ env'.cids = env.cids /\ env'.functions = env.functions
        /\ env'.counts = env.counts /\ env'.begun = env.begun /\ env'.denied = env.denied
        /\ env'.done[b] = done /\ env'.step[b] = NoStep
        /\ \A c \in Branches : c # b => env'.done[c] = env.done[c] /\ env'.step[c] = env.step[c]
        /\ env'.ended = IF done = shape.calls[b] THEN env.ended \union {b} ELSE env.ended
        /\ env' \in EnvRecord
    <2>. DEFINE overNow == IF raises \/ done = shape.calls[b] THEN env.ended \union {b} ELSE env.ended
    <2>1. overNow = IF done = shape.calls[b] THEN env.ended \union {b} ELSE env.ended
      BY <1>21
    <2>2. raised \in BOOLEAN /\ overNow \in SUBSET Branches
      BY <1>3, <2>1 DEF EnvRecord
    <2>3. env' = [env EXCEPT !.step[b] = NoStep, !.done[b] = env.done[b] + 1, !.raised = raised,
                             !.ended = overNow]
      BY <1>1
    <2>. HIDE DEF overNow, raised
    <2>4. /\ env'.seg = env.seg /\ env'.cids = env.cids /\ env'.functions = env.functions
          /\ env'.counts = env.counts /\ env'.begun = env.begun /\ env'.denied = env.denied
          /\ env'.done[b] = done /\ env'.step[b] = NoStep
          /\ \A c \in Branches : c # b => env'.done[c] = env.done[c] /\ env'.step[c] = env.step[c]
          /\ env'.ended = overNow
      BY <1>3, <2>3 DEF EnvRecord
    <2>5. env' \in EnvRecord
      <3>1. env'.step \in [Branches -> {NoStep} \cup StepRecord] /\ env'.done \in [Branches -> Nat]
        BY <1>3, <2>3 DEF EnvRecord
      <3>. QED BY <1>3, <2>2, <2>3, <3>1 DEF EnvRecord
    <2>. QED BY <2>1, <2>4, <2>5
  <1>. HIDE DEF raises, raised
  <1>7. \A c \in Branches : Started(c)' = Started(c)
    <2>1. Started(b)' = done /\ Started(b) = done
      BY <1>1, <1>3, <1>6 DEF Started, NoStep
    <2>2. \A c \in Branches : c # b => Started(c)' = Started(c)
      BY <1>6 DEF Started, NoStep
    <2>. QED BY <2>1, <2>2
  <1>8. b \in env.begun /\ b \notin env.ended /\ env.done[b] < shape.calls[b]
    BY <1>3 DEF StepFollows
  <1>. HIDE DEF done
  <1>9. ASSUME NEW c \in Branches
        PROVE  /\ c \notin env'.begun => env'.done[c] = 0 /\ env'.step[c] = NoStep
               /\ env'.step[c] # NoStep => StepFollows(c)'
    <2>1. CASE c = b
      BY <1>6, <1>8, <2>1
    <2>2. CASE c # b
      <3>1. /\ c \notin env.begun => env.done[c] = 0 /\ env.step[c] = NoStep
            /\ env.step[c] # NoStep => StepFollows(c)
        BY <1>1 DEF ReplayParts, EnvFollows
      <3>2. c \in env'.ended <=> c \in env.ended
        BY <1>6, <2>2
      <3>. QED BY <1>1, <1>2, <1>6, <2>2, <3>1, <3>2 DEF StepFollows, Number
    <2>. QED BY <2>1, <2>2
  <1>10. ASSUME NEW m \in 0..Len(shape.calls), AsFar(m)
         PROVE  AsFar(m)'
    <2>1. m \in Nat /\ 1..m \subseteq Branches /\ (m # 0 => m \in Branches)
      BY OffsetFacts
    <2>2. \A c \in Branches : c \in env'.ended <=> env'.done[c] = shape.calls[c]
      BY <1>6, <1>8, <1>10 DEF AsFar
    <2>3. env.ended \subseteq env'.ended
      BY <1>6
    <2>. QED BY <1>1, <1>2, <1>6, <1>7, <1>10, <2>1, <2>2, <2>3 DEF AsFar
  <1>11. EnvFollows'
    <2>1. EnvRecord' = EnvRecord
      BY <1>2 DEF EnvRecord, StepRecord, NoStep
    <2>2. /\ workflow[env.seg] # Unstarted
          /\ env.counts = workflow[env.seg].counts + env.functions
          /\ env.denied => env.counts >= MaxCalls
          /\ env.denied \/ \E m \in 0..Len(shape.calls) : AsFar(m)
      BY <1>1 DEF ReplayParts, EnvFollows
    <2>. QED BY <1>1, <1>2, <1>6, <1>9, <1>10, <2>1, <2>2 DEF EnvFollows, NoStep, Unstarted
  <1>. QED BY <1>1, <1>5, <1>11, WorkflowsStay, ChainsStay, HistoryStays DEF ReplayParts

LEMMA EndStep ==
  ASSUME shape \in Shapes, ReplayParts, WorkflowEnds
  PROVE  ReplayParts'
  <1>. DEFINE i == env.seg
  <1>1. /\ shape' = shape /\ chain' = chain /\ executed' = executed /\ results' = results
        /\ env # Idle /\ workflow[i].status = "pending"
    BY DEF WorkflowEnds
  <1>2. Branches' = Branches /\ Offset' = Offset /\ Total' = Total
    BY <1>1, ShapeStays
  <1>3. /\ env \in EnvRecord /\ i \in 1..Segments /\ workflow[i] # Unstarted
        /\ workflow[i] = WorkflowOf(workflow[i]) /\ workflow[i].counts = Base(i)
        /\ RecordsName(i, workflow[i].records)
    BY <1>1, StepFacts DEF ReplayParts, WorkflowsAgree, EnvFollows
  <1>4. ASSUME NEW status \in {"success", "error"}, NEW counts,
               workflow' = [workflow EXCEPT ![i].status = status, ![i].out = counts],
               status = "success" => counts = Base(i + 1)
        PROVE  /\ WorkflowsAgree'
               /\ workflow'[i].counts = workflow[i].counts /\ workflow'[i] # Unstarted
    <2>1. /\ workflow' = [j \in 1..Segments |-> workflow'[j]]
          /\ workflow'[i] = [workflow[i] EXCEPT !.status = status, !.out = counts]
          /\ \A j \in 1..Segments : j # i => workflow'[j] = workflow[j]
      <3>. HIDE DEF i
      <3>. QED BY <1>3, <1>4 DEF ReplayParts, WorkflowsAgree
    <2>. HIDE DEF i
    <2>2. /\ workflow'[i] = WorkflowOf(workflow'[i]) /\ workflow'[i].counts = workflow[i].counts
          /\ workflow'[i].status = status /\ workflow'[i].out = counts
          /\ workflow'[i].records = workflow[i].records
      BY <1>3, <2>1 DEF WorkflowOf
    <2>3. workflow'[i] # Unstarted
      BY <2>2 DEF Unstarted
    <2>4. ASSUME NEW j \in 1..Segments, workflow'[j] # Unstarted
          PROVE  /\ workflow'[j] = WorkflowOf(workflow'[j]) /\ workflow'[j].counts = Base(j)
                 /\ workflow'[j].status = "success" => workflow'[j].out = Base(j + 1)
                 /\ RecordsName(j, workflow'[j].records)
      <3>1. CASE j = i
        <4>1. /\ workflow'[i].counts = Base(i)
              /\ workflow'[i].status = "success" => workflow'[i].out = Base(i + 1)
          BY <1>3, <1>4, <2>2
        <4>2. RecordsName(i, workflow'[i].records)
          BY <1>3, <2>2, Zenon
        <4>. QED BY <2>2, <3>1, <4>1, <4>2, Zenon
      <3>2. CASE j # i
        <4>1. workflow'[j] = workflow[j]
          BY <2>1, <3>2
        <4>. QED BY <2>4, <4>1 DEF ReplayParts, WorkflowsAgree
      <3>. QED BY <3>1, <3>2
    <2>5. WorkflowsAgree'
      BY <1>1, <1>2, <2>1, <2>4
        DEF WorkflowsAgree, WorkflowOf, RecordsName, Number, Base, Unstarted
    <2>. QED BY <2>2, <2>3, <2>5
  <1>5. CASE env.denied \/ env.raised
    <2>1. /\ workflow' = [workflow EXCEPT ![i].status = "error"]
          /\ env' = env
      BY <1>5 DEF WorkflowEnds
    <2>2. workflow' = [workflow EXCEPT ![i].status = "error", ![i].out = workflow[i].out]
      <3>1. [workflow[i] EXCEPT !.status = "error"]
              = [workflow[i] EXCEPT !.status = "error", !.out = workflow[i].out]
        <4>. HIDE DEF i
        <4>. QED BY <1>3 DEF WorkflowOf
      <3>. HIDE DEF i
      <3>. QED BY <1>3, <2>1, <3>1 DEF ReplayParts, WorkflowsAgree
    <2>3. WorkflowsAgree' /\ workflow'[i].counts = workflow[i].counts /\ workflow'[i] # Unstarted
      BY <1>4, <2>2
    <2>4. EnvFollows'
      BY <1>1, <2>1, <2>3, EnvStays DEF ReplayParts
    <2>. QED BY <1>1, <2>3, <2>4, ChainsStay, HistoryStays DEF ReplayParts
  <1>6. CASE ~env.denied /\ ~env.raised
    <2>1. /\ env.ended = Branches /\ env' = Idle
          /\ workflow' = [workflow EXCEPT ![i].status = "success", ![i].out = env.counts]
      BY <1>6 DEF WorkflowEnds
    <2>2. PICK m \in 0..Len(shape.calls) : AsFar(m)
      BY <1>1, <1>6 DEF ReplayParts, EnvFollows
    <2>3. /\ Len(shape.calls) \in Nat /\ Branches = 1..Len(shape.calls)
          /\ \A b \in Branches : shape.calls[b] \in Nat \ {0}
          /\ Offset[1] = 0 /\ \A b \in Branches : Offset[b + 1] = Offset[b] + shape.calls[b]
      BY OffsetFacts
    <2>4. ASSUME NEW b \in Branches
          PROVE  Started(b) = shape.calls[b] /\ b \in 1..m
      <3>1. env.done[b] = shape.calls[b] /\ env.done[b] # 0
        BY <2>1, <2>2, <2>3 DEF AsFar
      <3>2. b \in env.begun /\ env.step[b] = NoStep
        BY <1>1, <2>1, <3>1 DEF ReplayParts, EnvFollows, StepFollows
      <3>. QED BY <2>2, <2>3, <3>1, <3>2 DEF AsFar, Started
    <2>5. env.functions = Total
      <3>1. CASE Len(shape.calls) = 0
        BY <2>2, <2>3, <3>1 DEF AsFar, Total
      <3>2. CASE Len(shape.calls) # 0
        <4>1. Len(shape.calls) \in Branches
          BY <2>3, <3>2
        <4>2. m = Len(shape.calls) /\ Started(m) = shape.calls[m] /\ m # 0
          BY <2>3, <2>4, <3>2, <4>1
        <4>. QED BY <2>2, <2>3, <4>1, <4>2 DEF AsFar, Total
      <3>. QED BY <3>1, <3>2
    <2>6. env.counts = Base(i + 1)
      <3>1. env.counts = Base(i) + Total
        BY <1>1, <1>3, <2>5 DEF ReplayParts, EnvFollows
      <3>2. i \in Nat \ {0}
        BY <1>3
      <3>. QED BY <3>1, <3>2, BaseFacts
    <2>7. WorkflowsAgree'
      BY <1>4, <2>1, <2>6
    <2>8. EnvFollows'
      BY <2>1 DEF EnvFollows, Idle
    <2>. QED BY <1>1, <2>7, <2>8, ChainsStay, HistoryStays DEF ReplayParts
  <1>. QED BY <1>5, <1>6

(* Where steps start in a fixed order, the next call that begins has the   *)
(* next number.                                                            *)
LEMMA NextNumber ==
  ASSUME shape \in Shapes, ReplayParts, OrderFixed, env # Idle, NEW b \in Branches,
         b \notin env.ended, env.step[b] = NoStep, LetIn(b),
         NEW m \in 0..Len(shape.calls), AsFar(m)
  PROVE  /\ env.functions + 1 = Number(b, env.done[b] + 1)
         /\ env.done[b] + 1 \in 1..shape.calls[b]
         /\ b = m \/ b = m + 1
         /\ b = m + 1 => /\ b \notin env.begun /\ env.done[b] = 0
                         /\ \A c \in 1..m : Started(c) = shape.calls[c]
                         /\ shape.parallel = 1 => \A c \in 1..m : c \in env.ended
         /\ b = m => b \in env.begun
  <1>1. /\ Len(shape.calls) \in Nat /\ Branches = 1..Len(shape.calls) /\ shape.parallel \in Nat \ {0}
        /\ \A c \in Branches : shape.calls[c] \in Nat \ {0}
        /\ Offset[1] = 0
        /\ \A c \in Branches : Offset[c + 1] = Offset[c] + shape.calls[c] /\ Offset[c] \in Nat
    BY OffsetFacts
  <1>2. /\ env.begun = 1..m
        /\ env.functions = IF m = 0 THEN 0 ELSE Offset[m] + Started(m)
        /\ \A c \in 1..m : Started(c) \in 1..shape.calls[c]
        /\ \A c \in 1..m : c < m => Started(c) = shape.calls[c]
        /\ shape.parallel = 1 => \A c \in 1..m : c < m => c \in env.ended
        /\ \A c \in Branches : c \in env.ended <=> env.done[c] = shape.calls[c]
    BY DEF AsFar
  <1>3. /\ \A c \in Branches : env.done[c] \in Nat
        /\ \A c \in Branches : c \notin env.begun => env.done[c] = 0
        /\ \A c \in Branches : c \in env.ended => env.step[c] = NoStep
        /\ env.ended \subseteq Branches
    <2>1. env \in EnvRecord
      BY DEF ReplayParts, EnvFollows
    <2>. QED BY <2>1 DEF ReplayParts, EnvFollows, EnvRecord, StepFollows
  <1>4. Started(b) = env.done[b]
    BY <1>3 DEF Started
  <1>5. CASE b \in env.begun
    <2>1. b \in 1..m /\ env.done[b] # shape.calls[b] /\ env.done[b] \in 1..shape.calls[b]
      BY <1>2, <1>4, <1>5
    <2>2. b = m
      BY <1>2, <1>4, <2>1
    <2>3. env.done[b] + 1 \in 1..shape.calls[b]
      <3>1. shape.calls[b] \in Nat
        BY <1>1
      <3>. QED BY <2>1, <3>1
    <2>4. env.functions = Offset[b] + env.done[b]
      BY <1>2, <1>4, <2>1, <2>2
    <2>5. env.functions + 1 = Number(b, env.done[b] + 1)
      <3>1. Offset[b] \in Nat /\ env.done[b] \in Nat
        BY <1>1, <1>3
      <3>. QED BY <2>4, <3>1 DEF Number
    <2>. QED BY <1>5, <2>2, <2>3, <2>5
  <1>6. CASE b \notin env.begun
    <2>1. \A c \in Branches : c < b => c \in env.begun
      BY <1>6 DEF LetIn
    <2>2. b = m + 1
      <3>1. b > m
        BY <1>1, <1>2, <1>6
      <3>2. ASSUME b > m + 1 PROVE FALSE
        <4>1. m + 1 \in Branches /\ m + 1 < b
          BY <1>1, <3>2
        <4>2. m + 1 \in 1..m
          BY <1>2, <2>1, <4>1
        <4>. QED BY <4>2
      <3>. QED BY <1>1, <3>1, <3>2
    <2>3. env.done[b] = 0 /\ env.done[b] + 1 \in 1..shape.calls[b]
      <3>1. env.done[b] = 0
        BY <1>3, <1>6
      <3>2. shape.calls[b] \in Nat \ {0}
        BY <1>1
      <3>. QED BY <3>1, <3>2
    <2>4. 1..m \subseteq Branches
      BY <1>1
    <2>5. shape.parallel = 1 => \A c \in 1..m : c \in env.ended
      <3>1. SUFFICES ASSUME shape.parallel = 1 PROVE \A c \in 1..m : c \in env.ended
        OBVIOUS
      <3>2. Cardinality(env.begun \ env.ended) < 1
        BY <1>6, <3>1 DEF LetIn
      <3>3. IsFiniteSet(env.begun \ env.ended)
        <4>1. 1 \in Int /\ m \in Int
          BY <1>1
        <4>2. IsFiniteSet(1..m)
          BY <4>1, FS_Interval, Zenon
        <4>. QED BY <1>2, <4>2, FS_Difference
      <3>4. Cardinality(env.begun \ env.ended) \in Nat
        BY <3>3, FS_CardinalityType
      <3>5. Cardinality(env.begun \ env.ended) = 0
        BY <3>2, <3>4
      <3>6. env.begun \ env.ended = {}
        BY <3>3, <3>5, FS_EmptySet
      <3>. QED BY <1>2, <3>6
    <2>6. \A c \in 1..m : Started(c) = shape.calls[c]
      <3>1. CASE shape.parallel = 1
        BY <1>2, <1>3, <2>4, <2>5, <3>1 DEF Started
      <3>2. CASE \A c \in Branches : shape.calls[c] = 1
        BY <1>2, <2>4, <3>2
      <3>. QED BY <3>1, <3>2 DEF OrderFixed
    <2>7. env.functions = Offset[b]
      <3>1. CASE m = 0
        BY <1>1, <1>2, <2>2, <3>1
      <3>2. CASE m # 0
        <4>1. m \in 1..m /\ m \in Branches
          BY <1>1, <3>2
        <4>. QED BY <1>1, <1>2, <2>2, <2>6, <3>2, <4>1
      <3>. QED BY <3>1, <3>2
    <2>8. env.functions + 1 = Number(b, env.done[b] + 1)
      BY <1>1, <2>3, <2>7 DEF Number
    <2>. QED BY <1>6, <2>2, <2>3, <2>5, <2>6, <2>8
  <1>. QED BY <1>5, <1>6

LEMMA CallStep ==
  ASSUME shape \in Shapes, ReplayParts, OrderFixed, NEW b \in Branches, CallBegins(b)
  PROVE  ReplayParts'
  <1>1. /\ shape' = shape /\ workflow' = workflow /\ chain' = chain /\ executed' = executed
        /\ results' = results /\ env # Idle
        /\ b \notin env.ended /\ env.step[b] = NoStep /\ LetIn(b)
    BY DEF CallBegins
  <1>2. /\ Branches' = Branches /\ Offset' = Offset
    BY <1>1, ShapeStays
  <1>3. EnvRecord' = EnvRecord
    BY <1>2 DEF EnvRecord, StepRecord, NoStep
  <1>4. /\ env \in EnvRecord /\ workflow[env.seg] # Unstarted
        /\ env.counts = workflow[env.seg].counts + env.functions
        /\ workflow[env.seg].counts \in Nat
        /\ \A c \in Branches : /\ c \notin env.begun => env.done[c] = 0 /\ env.step[c] = NoStep
                               /\ env.step[c] # NoStep => StepFollows(c)
        /\ env.denied => env.counts >= MaxCalls
        /\ env.denied \/ \E m \in 0..Len(shape.calls) : AsFar(m)
    BY <1>1, StepFacts DEF ReplayParts, EnvFollows
  <1>5. /\ env.counts \in Nat /\ env.functions \in Nat /\ env.cids \in Nat /\ MaxCalls \in Nat
        /\ env.begun \subseteq Branches /\ env.ended \subseteq Branches
    BY <1>4, DbosAssumption DEF EnvRecord
  <1>6. EnvFollows' => ReplayParts'
    BY <1>1, WorkflowsStay, ChainsStay, HistoryStays DEF ReplayParts
  <1>7. CASE env.counts >= MaxCalls
    <2>1. env' = [env EXCEPT !.begun = env.begun \union {b}, !.cids = env.cids + 1,
                    !.ended = env.ended \union {b}, !.denied = TRUE]
      BY <1>4, <1>7 DEF CallBegins, EnvRecord
    <2>2. /\ env' \in EnvRecord /\ env'.seg = env.seg /\ env'.functions = env.functions
          /\ env'.counts = env.counts /\ env'.done = env.done /\ env'.step = env.step
          /\ env'.begun = env.begun \union {b} /\ env'.ended = env.ended \union {b}
          /\ env'.denied
      <3>. DEFINE begun == env.begun \union {b}
                  stopped == env.ended \union {b}
                  cids == env.cids + 1
      <3>1. begun \in SUBSET Branches /\ stopped \in SUBSET Branches /\ cids \in Nat
        BY <1>5
      <3>2. env' = [env EXCEPT !.begun = begun, !.cids = cids, !.ended = stopped, !.denied = TRUE]
        BY <2>1
      <3>. HIDE DEF begun, stopped, cids
      <3>3. /\ env' \in EnvRecord /\ env'.seg = env.seg /\ env'.functions = env.functions
            /\ env'.counts = env.counts /\ env'.done = env.done /\ env'.step = env.step
            /\ env'.begun = begun /\ env'.ended = stopped /\ env'.denied
        BY <1>4, <3>1, <3>2 DEF EnvRecord
      <3>. QED BY <3>3 DEF begun, stopped
    <2>3. \A c \in Branches : env.step[c] # NoStep => StepFollows(c)'
      BY <1>1, <1>2, <1>4, <2>2 DEF StepFollows, Number
    <2>4. EnvFollows'
      BY <1>1, <1>2, <1>3, <1>4, <1>7, <2>2, <2>3 DEF EnvFollows, NoStep, Unstarted
    <2>. QED BY <1>6, <2>4
  <1>8. CASE env.counts < MaxCalls
    <2>. DEFINE n == env.functions + 1
                step == [function |-> n, key |-> <<env.seg, env.cids + 1>>, ran |-> FALSE]
    <2>1. env' = [env EXCEPT !.begun = env.begun \union {b}, !.cids = env.cids + 1,
                    !.counts = env.counts + 1, !.functions = n, !.step[b] = step]
      <3>1. ~(env.counts >= MaxCalls)
        BY <1>5, <1>8
      <3>2. env' = [[env EXCEPT !.begun = env.begun \union {b}, !.cids = env.cids + 1] EXCEPT
                      !.counts = @ + 1, !.functions = @ + 1, !.step[b] = step]
        BY <3>1 DEF CallBegins, Key
      <3>. HIDE DEF step
      <3>. QED BY <1>4, <3>2 DEF EnvRecord
    <2>2. step \in StepRecord /\ step # NoStep
      <3>1. <<env.seg, env.cids + 1>> \in (1..Segments) \X Nat /\ n \in Nat \ {0}
        BY <1>4, <1>5 DEF EnvRecord
      <3>2. step.function # NoStep.function
        BY <3>1 DEF NoStep
      <3>. QED BY <3>1, <3>2 DEF StepRecord
    <2>. HIDE DEF step
    <2>3. /\ env' \in EnvRecord /\ env'.seg = env.seg /\ env'.functions = n
          /\ env'.cids = env.cids + 1
          /\ env'.counts = env.counts + 1 /\ env'.done = env.done
          /\ env'.begun = env.begun \union {b} /\ env'.ended = env.ended
          /\ env'.denied = env.denied /\ env'.step[b] = step
          /\ \A c \in Branches : c # b => env'.step[c] = env.step[c]
      <3>. DEFINE begun == env.begun \union {b}
                  cids == env.cids + 1
                  counts == env.counts + 1
                  steps == [env.step EXCEPT ![b] = step]
      <3>1. begun \in SUBSET Branches /\ cids \in Nat /\ counts \in Nat /\ n \in Nat
        BY <1>5
      <3>2. /\ steps \in [Branches -> {NoStep} \cup StepRecord] /\ steps[b] = step
            /\ \A c \in Branches : c # b => steps[c] = env.step[c]
        BY <1>4, <2>2 DEF EnvRecord
      <3>3. env' = [env EXCEPT !.begun = begun, !.cids = cids, !.counts = counts,
                      !.functions = n, !.step = steps]
        BY <1>4, <2>1 DEF EnvRecord
      <3>. HIDE DEF begun, cids, counts, n, steps
      <3>4. /\ env' \in EnvRecord /\ env'.seg = env.seg /\ env'.functions = n
            /\ env'.cids = cids /\ env'.counts = counts /\ env'.done = env.done
            /\ env'.begun = begun /\ env'.ended = env.ended
            /\ env'.denied = env.denied /\ env'.step = steps
        BY <1>4, <3>1, <3>2, <3>3 DEF EnvRecord
      <3>. QED BY <3>2, <3>4 DEF begun, cids, counts
    <2>4. ~env.denied
      BY <1>4, <1>5, <1>8
    <2>5. PICK m \in 0..Len(shape.calls) : AsFar(m)
      BY <1>4, <2>4
    <2>6. /\ n = Number(b, env.done[b] + 1)
          /\ env.done[b] + 1 \in 1..shape.calls[b]
          /\ b = m \/ b = m + 1
          /\ b = m + 1 => /\ b \notin env.begun /\ env.done[b] = 0
                          /\ \A c \in 1..m : Started(c) = shape.calls[c]
                          /\ shape.parallel = 1 => \A c \in 1..m : c \in env.ended
          /\ b = m => b \in env.begun
      BY <1>1, <2>5, NextNumber
    <2>7. /\ env.begun = 1..m /\ env.cids = env.functions
          /\ \A c \in 1..m : Started(c) \in 1..shape.calls[c]
          /\ \A c \in 1..m : c < m => Started(c) = shape.calls[c]
          /\ shape.parallel = 1 => \A c \in 1..m : c < m => c \in env.ended
          /\ \A c \in Branches : c \in env.ended <=> env.done[c] = shape.calls[c]
      BY <2>5 DEF AsFar
    <2>8. /\ Len(shape.calls) \in Nat /\ Branches = 1..Len(shape.calls)
          /\ \A c \in Branches : shape.calls[c] \in Nat \ {0} /\ env.done[c] \in Nat
                                 /\ Offset[c] \in Nat
      BY <1>4, OffsetFacts DEF EnvRecord
    <2>9. StepFollows(b)'
      <3>1. step.function = n /\ step.key = <<env.seg, n>>
        BY <2>7 DEF step
      <3>2. workflow[env.seg].counts + n <= MaxCalls
        BY <1>4, <1>5, <1>8
      <3>3. env.done[b] < shape.calls[b]
        BY <2>6, <2>8
      <3>. HIDE DEF n
      <3>. QED BY <1>1, <1>2, <2>3, <2>6, <3>1, <3>2, <3>3 DEF StepFollows, Number
    <2>10. \A c \in Branches : c # b /\ env.step[c] # NoStep => StepFollows(c)'
      BY <1>1, <1>2, <1>4, <2>3 DEF StepFollows, Number
    <2>11. /\ Started(b)' = env.done[b] + 1
           /\ \A c \in Branches : c # b => Started(c)' = Started(c)
      <3>1. env'.step[b] # NoStep'
        BY <2>2, <2>3 DEF NoStep
      <3>. QED BY <1>1, <2>3, <3>1 DEF Started, NoStep
    <2>12. env'.functions = Offset[b] + (env.done[b] + 1)
      BY <2>3, <2>6 DEF Number
    <2>13. AsFar(b)'
      <3>1. env'.begun = 1..b
        BY <2>3, <2>6, <2>7, <2>8
      <3>2. \A c \in 1..b : c # b => Started(c)' = shape.calls[c]
        BY <2>6, <2>7, <2>8, <2>11
      <3>3. \A c \in 1..b : Started(c)' \in 1..shape.calls[c]
        <4>1. \A c \in 1..b : shape.calls[c] \in 1..shape.calls[c]
          BY <2>6, <2>8
        <4>2. env.done[b] + 1 \in 1..shape.calls[b]
          BY <2>6, <2>8
        <4>. QED BY <2>11, <3>2, <4>1, <4>2
      <3>4. shape.parallel = 1 => \A c \in 1..b : c < b => c \in env'.ended
        BY <2>3, <2>6, <2>7, <2>8
      <3>5. \A c \in Branches : c \in env'.ended <=> env'.done[c] = shape.calls[c]
        BY <2>3, <2>7
      <3>6. env'.cids = env'.functions
        BY <2>3, <2>7
      <3>7. b # 0 /\ \A c \in 1..b : c < b => c # b
        BY <2>8
      <3>. QED BY <1>1, <1>2, <2>11, <2>12, <3>1, <3>2, <3>3, <3>4, <3>5, <3>6, <3>7 DEF AsFar
    <2>14. EnvFollows'
      <3>1. \E k \in 0..Len(shape'.calls) : AsFar(k)'
        <4>1. b \in 0..Len(shape'.calls)
          BY <1>1, <2>8
        <4>. QED BY <2>13, <4>1
      <3>2. env'.counts = workflow[env.seg].counts + env'.functions
        BY <1>4, <1>5, <2>3
      <3>3. \A c \in Branches : /\ c \notin env'.begun => env'.done[c] = 0 /\ env'.step[c] = NoStep
                                /\ env'.step[c] # NoStep => StepFollows(c)'
        BY <1>4, <2>3, <2>9, <2>10
      <3>. HIDE DEF n
      <3>. QED BY <1>1, <1>2, <1>3, <1>4, <2>3, <2>4, <3>1, <3>2, <3>3 DEF EnvFollows, NoStep, Unstarted
    <2>. QED BY <1>6, <2>14
  <1>. QED BY <1>5, <1>7, <1>8

LEMMA ReplayInit == DbosInit => ReplayInv
  <1>1. SUFFICES ASSUME DbosInit PROVE ReplayInv
    OBVIOUS
  <1>2. shape \in Shapes /\ env = Idle /\ executed = {} /\ results = {}
    BY <1>1 DEF DbosInit
  <1>3. 1 \in 1..Segments /\ Base(1) = 0
    BY <1>2, DbosAssumption, BaseFacts
  <1>4. ChainsAgree
    BY <1>1, <1>3 DEF DbosInit, ChainsAgree, Submitted
  <1>5. WorkflowsAgree
    BY <1>1 DEF DbosInit, WorkflowsAgree
  <1>. QED BY <1>2, <1>4, <1>5 DEF ReplayInv, ReplayParts, EnvFollows, RanAsNumbered, OwnResults

LEMMA ReplayNext == ReplayInv /\ NothingSkipped /\ [DbosNext]_dbosVars => ReplayInv'
  <1>1. SUFFICES ASSUME ReplayInv, NothingSkipped, [DbosNext]_dbosVars PROVE ReplayInv'
    OBVIOUS
  <1>2. shape \in Shapes /\ (OrderFixed => ReplayParts)
    BY <1>1 DEF ReplayInv, ReplayParts
  <1>3. shape' = shape
    BY <1>1 DEF DbosNext, dbosVars, Submit, StartSegment, GetResult, DriverDies, Interpret, CallBegins,
                ToolRuns, RecordStep, StepReturns, ProcessDies, WorkflowEnds
  <1>4. OrderFixed <=> OrderFixed'
    BY <1>3, ShapeStays
  <1>5. ASSUME OrderFixed PROVE ReplayParts'
    <2>1. ReplayParts
      BY <1>2, <1>5
    <2>2. CASE \E s \in Submissions : Submit(s) \/ StartSegment(s) \/ GetResult(s) \/ DriverDies(s)
      BY <1>2, <2>1, <2>2, ChainStep, StartStep
    <2>3. CASE \E i \in 1..Segments : Interpret(i)
      BY <1>2, <2>1, <2>3, InterpretStep
    <2>4. CASE \E b \in Branches : \/ CallBegins(b) \/ ToolRuns(b) \/ StepReturns(b)
                                  \/ \E raises \in BOOLEAN : RecordStep(b, raises)
      BY <1>1, <1>2, <1>5, <2>1, <2>4, CallStep, ToolStep, RecordKept, ReturnStep
    <2>5. CASE ProcessDies \/ WorkflowEnds
      BY <1>2, <2>1, <2>5, DeathStep, EndStep
    <2>6. CASE UNCHANGED dbosVars
      <3>1. /\ workflow' = workflow /\ env' = env /\ chain' = chain /\ executed' = executed
            /\ results' = results
        BY <2>6 DEF dbosVars
      <3>2. EnvFollows'
        BY <1>3, <2>1, <3>1, EnvStays DEF ReplayParts, EnvFollows
      <3>. QED BY <1>3, <2>1, <3>1, <3>2, WorkflowsStay, ChainsStay, HistoryStays DEF ReplayParts
    <2>. QED BY <1>1, <2>2, <2>3, <2>4, <2>5, <2>6 DEF DbosNext
  <1>. QED BY <1>2, <1>3, <1>4, <1>5 DEF ReplayInv, ReplayParts

(* Calls within the limit are as many as the numbers of the chain allow.   *)
LEMMA CallsWithinLimit ==
  ASSUME shape \in Shapes, RanAsNumbered
  PROVE  Cardinality({x.call : x \in executed}) <= MaxCalls
  <1>. DEFINE calls == {x.call : x \in executed}
              at == [c \in calls |-> Base(c[1]) + Number(c[2], c[3])]
  <1>1. ASSUME NEW c \in calls
        PROVE  \E i \in 1..Segments, b \in Branches : \E k \in 1..shape.calls[b] :
                 c = <<i, b, k>> /\ Base(i) + Number(b, k) <= MaxCalls
    BY DEF RanAsNumbered
  <1>2. ASSUME NEW i \in 1..Segments, NEW b \in Branches, NEW k \in 1..shape.calls[b]
        PROVE  /\ Base(i) \in Nat /\ Number(b, k) \in 1..Total /\ Total \in Nat /\ i \in Nat \ {0}
               /\ Base(i) + Number(b, k) \in Nat /\ Base(i) + Number(b, k) >= 1
    <2>1. i \in Nat \ {0}
      OBVIOUS
    <2>2. Base(i) \in Nat /\ Number(b, k) \in 1..Total /\ Total \in Nat
      BY <2>1, BaseFacts, NumbersDiffer, OffsetFacts
    <2>. QED BY <2>1, <2>2
  <1>3. MaxCalls \in Nat
    BY DbosAssumption
  <1>4. at \in [calls -> 1..MaxCalls]
    <2>1. ASSUME NEW c \in calls
          PROVE  Base(c[1]) + Number(c[2], c[3]) \in 1..MaxCalls
      <3>1. PICK i \in 1..Segments, b \in Branches : \E k \in 1..shape.calls[b] :
              c = <<i, b, k>> /\ Base(i) + Number(b, k) <= MaxCalls
        BY <1>1
      <3>2. PICK k \in 1..shape.calls[b] : c = <<i, b, k>> /\ Base(i) + Number(b, k) <= MaxCalls
        BY <3>1
      <3>3. Base(i) + Number(b, k) \in 1..MaxCalls
        BY <1>2, <1>3, <3>2
      <3>4. c[1] = i /\ c[2] = b /\ c[3] = k
        BY <3>2
      <3>. QED BY <3>3, <3>4
    <2>. HIDE DEF calls
    <2>. QED BY <2>1
  <1>5. ASSUME NEW c \in calls, NEW d \in calls, at[c] = at[d]
        PROVE  c = d
    <2>1. PICK i \in 1..Segments, b \in Branches : \E k \in 1..shape.calls[b] : c = <<i, b, k>>
      BY <1>1
    <2>2. PICK k \in 1..shape.calls[b] : c = <<i, b, k>>
      BY <2>1
    <2>3. PICK j \in 1..Segments, e \in Branches : \E l \in 1..shape.calls[e] : d = <<j, e, l>>
      BY <1>1
    <2>4. PICK l \in 1..shape.calls[e] : d = <<j, e, l>>
      BY <2>3
    <2>5. Base(i) + Number(b, k) = Base(j) + Number(e, l)
      <3>1. at[c] = Base(i) + Number(b, k) /\ at[d] = Base(j) + Number(e, l)
        BY <2>2, <2>4
      <3>. QED BY <1>5, <3>1
    <2>6. /\ Base(i) \in Nat /\ Number(b, k) \in 1..Total /\ Total \in Nat /\ i \in Nat \ {0}
          /\ Base(j) \in Nat /\ Number(e, l) \in 1..Total /\ j \in Nat \ {0}
      BY <1>2
    <2>7. (i < j => Base(i) + Total <= Base(j)) /\ (j < i => Base(j) + Total <= Base(i))
      BY <2>6, BaseFacts
    <2>8. i = j
      BY <2>5, <2>6, <2>7
    <2>9. Number(b, k) = Number(e, l)
      BY <2>5, <2>6, <2>8
    <2>10. b = e /\ k = l
      BY <2>9, NumbersDiffer
    <2>. QED BY <2>2, <2>4, <2>8, <2>10
  <1>6. at \in Injection(calls, 1..MaxCalls)
    <2>. HIDE DEF calls, at
    <2>. QED BY <1>4, <1>5 DEF Injection, IsInjective
  <1>7. IsFiniteSet(1..MaxCalls) /\ Cardinality(1..MaxCalls) = MaxCalls
    <2>1. 1 \in Int /\ MaxCalls \in Int
      BY <1>3
    <2>2. IsFiniteSet(1..MaxCalls)
      BY <2>1, FS_Interval, Zenon
    <2>3. Cardinality(1..MaxCalls) = IF 1 > MaxCalls THEN 0 ELSE MaxCalls - 1 + 1
      BY <2>1, FS_Interval, Zenon
    <2>. QED BY <1>3, <2>2, <2>3
  <1>8. Cardinality(calls) <= Cardinality(1..MaxCalls)
    <2>. HIDE DEF calls, at
    <2>. QED BY <1>6, <1>7, FS_Injection
  <1>. QED BY <1>7, <1>8

(* For flows of any number of branches and calls, any limit and any number *)
(* of segments, submissions and crashes: where steps start in a fixed      *)
(* order, a call of a flow on DBOS has one idempotency key of its own and  *)
(* is given its own result, and the calls of the chain stay within the     *)
(* limit of the tool; for behaviours in which no tool raises in front of   *)
(* other calls of its branch (the numbers of those behind it would depend  *)
(* on it).                                                                 *)
THEOREM RecoveriesAreFaithful == DbosSpec /\ []NothingSkipped => []ReplayFaithful
  <1>1. ReplayInv => ReplayFaithful
    <2>1. SUFFICES ASSUME ReplayInv, OrderFixed
                   PROVE  /\ \A x, y \in executed : x.call = y.call <=> x.key = y.key
                          /\ \A h \in results : h.call = h.given
                          /\ Cardinality({x.call : x \in executed}) <= MaxCalls
      BY DEF ReplayFaithful
    <2>2. shape \in Shapes /\ RanAsNumbered /\ OwnResults
      BY <2>1 DEF ReplayInv, ReplayParts
    <2>3. ASSUME NEW x \in executed, NEW y \in executed
          PROVE  x.call = y.call <=> x.key = y.key
      <3>1. PICK i \in 1..Segments, b \in Branches : \E k \in 1..shape.calls[b] :
              x.call = <<i, b, k>> /\ x.key = <<i, Number(b, k)>>
        BY <2>2 DEF RanAsNumbered
      <3>2. PICK k \in 1..shape.calls[b] : x.call = <<i, b, k>> /\ x.key = <<i, Number(b, k)>>
        BY <3>1
      <3>3. PICK j \in 1..Segments, c \in Branches : \E l \in 1..shape.calls[c] :
              y.call = <<j, c, l>> /\ y.key = <<j, Number(c, l)>>
        BY <2>2 DEF RanAsNumbered
      <3>4. PICK l \in 1..shape.calls[c] : y.call = <<j, c, l>> /\ y.key = <<j, Number(c, l)>>
        BY <3>3
      <3>5. Number(b, k) = Number(c, l) => b = c /\ k = l
        BY <2>2, NumbersDiffer
      <3>. QED BY <3>2, <3>4, <3>5
    <2>. QED BY <2>2, <2>3, CallsWithinLimit DEF OwnResults
  <1>. QED BY <1>1, ReplayInit, ReplayNext, PTL DEF DbosSpec

-----------------------------------------------------------------------------
(* The requests of one model call.                                         *)
AskRecord ==
  [schema : BOOLEAN, json_object : BOOLEAN, tools : BOOLEAN,
   skills : SUBSET Skills, takes_format : BOOLEAN]

Memory ==
  [pc : {"first", "reask", "raised", "done"}, loaded : SUBSET Skills, budget : 0..ErrorBudget,
   open : BOOLEAN, native_ok : BOOLEAN, retries : 0..OutputRetries]

RequestRecord == [native : BOOLEAN, tools : BOOLEAN, outcome : {"failed", "auth", "reply"}]

ReasonerTypeOK ==
  /\ ask \in AskRecord
  /\ activity \in Memory /\ activity.loaded \subseteq ask.skills
  /\ requests \in Seq(RequestRecord)

Running == activity.pc \in {"first", "reask"}

(* What the rounds of disclosure may cost, and one fallback.               *)
Rounds == IF ask.skills = {} THEN 0 ELSE Cardinality(ask.skills) + ErrorBudget - 1
FellBack == IF activity.native_ok THEN 0 ELSE 1

(* Every request is accounted for: while the skill tool is open, by what   *)
(* was loaded and by what is gone of the budget.                           *)
RequestsPaid ==
  /\ Running =>
       /\ Len(requests) <= FellBack + activity.retries + Rounds
       /\ activity.open =>
            /\ activity.loaded # ask.skills /\ activity.budget > 0
            /\ Len(requests) + activity.budget <=
                 FellBack + activity.retries + Cardinality(activity.loaded) + ErrorBudget
  /\ Len(requests) <= 1 + OutputRetries + 1 + Rounds

(* The format is tried until it fails, and never with tools; a credentials *)
(* error ends the call.                                                    *)
FormatsTried ==
  \A i \in 1..Len(requests) :
    /\ requests[i].native => ~requests[i].tools
    /\ requests[i].native /\ requests[i].outcome = "failed" =>
         /\ ~activity.native_ok
         /\ \A j \in i + 1 .. Len(requests) : ~requests[j].native
    /\ requests[i].outcome = "auth" => i = Len(requests) /\ activity.pc = "raised"

ReplyFits ==
  activity.pc = "done" =>
    /\ ask.skills # {} => reply.asks = <<>>
    /\ ask.schema /\ ~reply.fits =>
         reply.tools \/ reply.asks # <<>> \/ activity.retries = OutputRetries

ReasonerInv == ReasonerTypeOK /\ RequestsPaid /\ FormatsTried /\ ReplyFits

LEMMA AskCounts ==
  ASSUME ReasonerTypeOK
  PROVE  /\ IsFiniteSet(ask.skills) /\ IsFiniteSet(activity.loaded)
         /\ Cardinality(ask.skills) \in Nat /\ Cardinality(activity.loaded) \in Nat
         /\ activity.loaded # ask.skills => Cardinality(activity.loaded) < Cardinality(ask.skills)
         /\ Rounds \in Nat /\ FellBack \in 0..1
         /\ ErrorBudget \in Nat \ {0} /\ OutputRetries \in Nat
  <1>1. IsFiniteSet(Skills) /\ ErrorBudget \in Nat \ {0} /\ OutputRetries \in Nat
    BY ReasonerAssumption
  <1>2. ask.skills \subseteq Skills /\ activity.loaded \subseteq ask.skills
    BY DEF ReasonerTypeOK, AskRecord
  <1>3. IsFiniteSet(ask.skills)
    BY <1>1, <1>2, FS_Subset
  <1>4. IsFiniteSet(activity.loaded)
    BY <1>2, <1>3, FS_Subset
  <1>5. Cardinality(ask.skills) \in Nat /\ Cardinality(activity.loaded) \in Nat
    BY <1>3, <1>4, FS_CardinalityType
  <1>6. activity.loaded # ask.skills => Cardinality(activity.loaded) < Cardinality(ask.skills)
    BY <1>2, <1>3, <1>5, FS_Subset
  <1>7. Rounds \in Nat
    BY <1>1, <1>5 DEF Rounds
  <1>. QED BY <1>1, <1>3, <1>4, <1>5, <1>6, <1>7 DEF FellBack

LEMMA ReasonerStart == ReasonerInit => ReasonerInv
  <1>1. SUFFICES ASSUME ReasonerInit PROVE ReasonerInv
    OBVIOUS
  <1>2. /\ ask \in AskRecord /\ requests = <<>>
        /\ activity = [pc |-> "first", loaded |-> {}, budget |-> ErrorBudget,
                       open |-> ask.skills # {}, native_ok |-> TRUE, retries |-> 0]
    BY <1>1 DEF ReasonerInit, AskRecord
  <1>3. ReasonerTypeOK
    <2>1. activity \in Memory
      BY <1>2, ReasonerAssumption DEF Memory
    <2>. QED BY <1>2, <2>1 DEF ReasonerTypeOK
  <1>4. RequestsPaid
    <2>1. Len(requests) = 0 /\ Cardinality(activity.loaded) \in Nat /\ Rounds \in Nat
          /\ ErrorBudget \in Nat \ {0} /\ OutputRetries \in Nat /\ FellBack = 0
      BY <1>2, <1>3, AskCounts DEF FellBack
    <2>2. /\ activity.retries = 0 /\ activity.budget = ErrorBudget
          /\ activity.open => activity.loaded # ask.skills
      BY <1>2
    <2>. QED BY <2>1, <2>2 DEF RequestsPaid
  <1>. QED BY <1>2, <1>3, <1>4 DEF ReasonerInv, FormatsTried, ReplyFits

(* What one more request adds to the history.                              *)
LEMMA OneRequest ==
  ASSUME ReasonerInv, Running, NEW outcome \in {"failed", "auth", "reply"}, Request(outcome),
         ask' = ask, activity' \in Memory, activity'.loaded \subseteq ask.skills,
         activity'.native_ok => activity.native_ok,
         outcome = "failed" /\ Native => ~activity'.native_ok,
         outcome = "auth" => activity'.pc = "raised"
  PROVE  /\ ReasonerTypeOK' /\ FormatsTried' /\ Len(requests') = Len(requests) + 1
         /\ Len(requests) \in Nat
  <1>. DEFINE r == [native |-> Native, tools |-> _offering_tools, outcome |-> outcome]
  <1>1. requests' = Append(requests, r) /\ requests \in Seq(RequestRecord)
    BY DEF Request, ReasonerInv, ReasonerTypeOK
  <1>2. Native \in BOOLEAN /\ _offering_tools \in BOOLEAN
    BY DEF Native, _offering_tools, ReasonerInv, ReasonerTypeOK, AskRecord, Memory
  <1>3. r \in RequestRecord
    BY <1>2 DEF RequestRecord
  <1>4. r.native => ~r.tools /\ activity.native_ok
    BY <1>2 DEF Native
  <1>5. r.native = Native /\ r.outcome = outcome
    OBVIOUS
  <1>. HIDE DEF r
  <1>6. /\ requests' \in Seq(RequestRecord) /\ Len(requests') = Len(requests) + 1
        /\ Len(requests) \in Nat
        /\ requests'[Len(requests) + 1] = r
        /\ \A i \in 1..Len(requests) : requests'[i] = requests[i]
    BY <1>1, <1>3
  <1>7. ReasonerTypeOK'
    BY <1>6 DEF ReasonerInv, ReasonerTypeOK, AskRecord, Memory
  <1>8. FormatsTried'
    <2>1. ASSUME NEW i \in 1..Len(requests')
          PROVE  /\ requests'[i].native => ~requests'[i].tools
                 /\ requests'[i].native /\ requests'[i].outcome = "failed" =>
                      /\ ~activity'.native_ok
                      /\ \A j \in i + 1 .. Len(requests') : ~requests'[j].native
                 /\ requests'[i].outcome = "auth" =>
                      i = Len(requests') /\ activity'.pc = "raised"
      <3>1. CASE i = Len(requests) + 1
        <4>1. requests'[i] = r /\ i + 1 .. Len(requests') = {}
          BY <1>6, <3>1
        <4>. QED BY <1>4, <1>5, <1>6, <3>1, <4>1
      <3>2. CASE i # Len(requests) + 1
        <4>1. i \in 1..Len(requests) /\ requests'[i] = requests[i]
          BY <1>6, <3>2
        <4>2. /\ requests[i].native => ~requests[i].tools
              /\ requests[i].native /\ requests[i].outcome = "failed" =>
                   /\ ~activity.native_ok
                   /\ \A j \in i + 1 .. Len(requests) : ~requests[j].native
              /\ requests[i].outcome # "auth"
          BY <4>1 DEF ReasonerInv, FormatsTried, Running
        <4>3. ASSUME requests[i].native /\ requests[i].outcome = "failed",
                     NEW j \in i + 1 .. Len(requests')
              PROVE  ~requests'[j].native
          <5>1. CASE j = Len(requests) + 1
            BY <1>4, <1>6, <4>2, <4>3, <5>1
          <5>2. CASE j # Len(requests) + 1
            <6>1. j \in i + 1 .. Len(requests) /\ j \in 1..Len(requests)
              BY <1>6, <4>1, <5>2
            <6>. QED BY <1>6, <4>2, <4>3, <6>1
          <5>. QED BY <5>1, <5>2
        <4>. QED BY <4>1, <4>2, <4>3
      <3>. QED BY <3>1, <3>2
    <2>. QED BY <2>1 DEF FormatsTried
  <1>. QED BY <1>6, <1>7, <1>8

LEMMA FailureKeepsInv ==
  ASSUME ReasonerInv, Running, RequestFails \/ AuthFails
  PROVE  ReasonerInv'
  <1>1. ask' = ask /\ reply' = reply
    BY DEF RequestFails, AuthFails
  <1>2. activity \in Memory /\ activity.loaded \subseteq ask.skills
    BY DEF ReasonerInv, ReasonerTypeOK
  <1>3. /\ Rounds \in Nat /\ FellBack \in 0..1 /\ Len(requests) \in Nat
        /\ ErrorBudget \in Nat /\ OutputRetries \in Nat /\ activity.retries \in 0..OutputRetries
        /\ Len(requests) <= FellBack + activity.retries + Rounds
    BY AskCounts DEF ReasonerInv, ReasonerTypeOK, RequestsPaid, Memory
  <1>4. Rounds' = Rounds
    BY <1>1 DEF Rounds
  <1>5. ASSUME NEW outcome \in {"failed", "auth"}, Request(outcome),
               activity' = [activity EXCEPT !.pc = "raised"],
               ~(outcome = "failed" /\ Native)
        PROVE  ReasonerInv'
    <2>1. activity' \in Memory /\ activity'.loaded = activity.loaded /\ activity'.pc = "raised"
          /\ activity'.native_ok = activity.native_ok
      BY <1>2, <1>5 DEF Memory
    <2>2. ReasonerTypeOK' /\ FormatsTried' /\ Len(requests') = Len(requests) + 1
      BY <1>1, <1>2, <1>5, <2>1, OneRequest
    <2>3. RequestsPaid'
      <3>1. Len(requests') <= 1 + OutputRetries + 1 + Rounds
        BY <1>3, <2>2
      <3>. QED BY <1>4, <2>1, <3>1 DEF RequestsPaid, Running
    <2>. QED BY <2>1, <2>2, <2>3 DEF ReasonerInv, ReplyFits
  <1>6. ASSUME Request("failed"), Native, activity' = [activity EXCEPT !.native_ok = FALSE]
        PROVE  ReasonerInv'
    <2>1. /\ activity' \in Memory /\ activity'.loaded = activity.loaded
          /\ activity'.pc = activity.pc /\ ~activity'.native_ok
          /\ activity'.open = activity.open /\ activity'.retries = activity.retries
      BY <1>2, <1>6 DEF Memory
    <2>2. ReasonerTypeOK' /\ FormatsTried' /\ Len(requests') = Len(requests) + 1
      BY <1>1, <1>2, <1>6, <2>1, OneRequest
    <2>3. FellBack = 0 /\ FellBack' = 1 /\ ~activity.open
      BY <1>6, <2>1 DEF FellBack, Native, _offering_tools
    <2>4. RequestsPaid'
      BY <1>3, <1>4, <2>1, <2>2, <2>3 DEF RequestsPaid, Running
    <2>. QED BY <2>1, <2>2, <2>4 DEF ReasonerInv, ReplyFits, Running
  <1>. QED BY <1>5, <1>6 DEF RequestFails, AuthFails

(* A round of disclosure loads a skill or uses up some of the budget.      *)
LEMMA RoundKeepsInv ==
  ASSUME ReasonerInv, Running, NEW asks \in Asks, asks # <<>>, activity.open, Request("reply"),
         activity' = Disclosed(asks), ask' = ask, reply' = reply
  PROVE  ReasonerInv'
  <1>. DEFINE new == (Range(asks) \intersect ask.skills) \ activity.loaded
              wasted == Len(asks) - Cardinality(new)
              budget == IF wasted >= activity.budget THEN 0 ELSE activity.budget - wasted
              loaded == activity.loaded \union new
  <1>1. activity \in Memory /\ activity.loaded \subseteq ask.skills
    BY DEF ReasonerInv, ReasonerTypeOK
  <1>2. /\ Rounds \in Nat /\ FellBack \in 0..1 /\ Len(requests) \in Nat
        /\ ErrorBudget \in Nat \ {0} /\ OutputRetries \in Nat /\ activity.retries \in 0..OutputRetries
        /\ activity.budget \in Nat /\ activity.budget <= ErrorBudget
        /\ Cardinality(activity.loaded) \in Nat /\ Cardinality(ask.skills) \in Nat
        /\ IsFiniteSet(ask.skills) /\ IsFiniteSet(activity.loaded)
    BY AskCounts DEF ReasonerInv, ReasonerTypeOK, Memory
  <1>3. /\ Len(requests) <= FellBack + activity.retries + Rounds
        /\ activity.loaded # ask.skills /\ activity.budget > 0
        /\ Len(requests) + activity.budget <=
             FellBack + activity.retries + Cardinality(activity.loaded) + ErrorBudget
    BY DEF ReasonerInv, RequestsPaid
  <1>4. /\ Len(asks) \in Nat \ {0} /\ IsFiniteSet(new) /\ Cardinality(new) \in Nat
        /\ Cardinality(new) <= Len(asks)
    <2>1. PICK n \in 0..MaxAsks : asks \in [1..n -> Skills \union {NoSkill}]
      BY DEF Asks, SeqOf
    <2>2. n \in Nat /\ Len(asks) = n /\ DOMAIN asks = 1..n
      BY <2>1, ReasonerAssumption
    <2>3. n # 0
      <3>1. ASSUME n = 0 PROVE FALSE
        <4>1. asks = <<>>
          BY <2>1, <3>1
        <4>. QED BY <4>1
      <3>. QED BY <3>1
    <2>4. IsFiniteSet(1..n) /\ Cardinality(1..n) = n
      <3>1. 1 \in Int /\ n \in Int
        BY <2>2
      <3>2. IsFiniteSet(1..n)
        BY <3>1, FS_Interval, Zenon
      <3>3. Cardinality(1..n) = IF 1 > n THEN 0 ELSE n - 1 + 1
        BY <3>1, FS_Interval, Zenon
      <3>. QED BY <2>2, <3>2, <3>3
    <2>5. IsFiniteSet(Range(asks)) /\ Cardinality(Range(asks)) <= n /\ Cardinality(Range(asks)) \in Nat
      <3>1. Range(asks) = {asks[i] : i \in 1..n}
        BY <2>2 DEF Range
      <3>. HIDE DEF new
      <3>. QED BY <2>4, <3>1, ImageCount
    <2>6. new \subseteq Range(asks)
      OBVIOUS
    <2>. HIDE DEF new
    <2>7. IsFiniteSet(new) /\ Cardinality(new) <= Cardinality(Range(asks))
      BY <2>5, <2>6, FS_Subset
    <2>8. Cardinality(new) \in Nat
      BY <2>7, FS_CardinalityType
    <2>. QED BY <2>2, <2>3, <2>5, <2>7, <2>8
  <1>5. new \intersect activity.loaded = {} /\ loaded \subseteq ask.skills
    BY <1>1
  <1>6. Cardinality(loaded) = Cardinality(activity.loaded) + Cardinality(new)
    <2>1. activity.loaded \intersect new = {}
      BY <1>5
    <2>. HIDE DEF new
    <2>2. Cardinality(activity.loaded \intersect new) = 0
      BY <2>1, FS_EmptySet
    <2>3. Cardinality(activity.loaded \union new) =
            Cardinality(activity.loaded) + Cardinality(new) - Cardinality(activity.loaded \intersect new)
      BY <1>2, <1>4, FS_Union, Zenon
    <2>. QED BY <1>2, <1>4, <2>2, <2>3
  <1>. HIDE DEF new
  <1>7. wasted \in Nat /\ wasted + Cardinality(new) = Len(asks)
    BY <1>4
  <1>. HIDE DEF wasted
  <1>8. budget \in 0..ErrorBudget /\ (budget > 0 => budget + wasted = activity.budget)
    <2>1. activity.budget \in Nat /\ ErrorBudget \in Nat /\ activity.budget <= ErrorBudget
          /\ wasted \in Nat
      BY <1>2, <1>7
    <2>2. CASE wasted >= activity.budget
      BY <2>1, <2>2
    <2>3. CASE ~(wasted >= activity.budget)
      BY <2>1, <2>3
    <2>. QED BY <2>2, <2>3
  <1>9. activity' = [activity EXCEPT !.loaded = loaded, !.budget = budget,
                                     !.open = loaded # ask.skills /\ budget > 0]
    BY DEF Disclosed, new, wasted
  <1>10. loaded \in SUBSET Skills
    BY <1>5 DEF ReasonerInv, ReasonerTypeOK, AskRecord
  <1>. HIDE DEF loaded, budget
  <1>11. /\ activity' \in Memory /\ activity'.loaded = loaded /\ activity'.budget = budget
         /\ activity'.open = (loaded # ask.skills /\ budget > 0)
         /\ activity'.pc = activity.pc /\ activity'.retries = activity.retries
         /\ activity'.native_ok = activity.native_ok
    BY <1>1, <1>8, <1>9, <1>10 DEF Memory
  <1>12. ReasonerTypeOK' /\ FormatsTried' /\ Len(requests') = Len(requests) + 1
    BY <1>5, <1>11, OneRequest
  <1>13. FellBack' = FellBack /\ Rounds' = Rounds
    BY <1>11 DEF FellBack, Rounds
  <1>14. Len(requests') <= FellBack + activity.retries + Rounds
    <2>1. ask.skills # {}
      BY <1>1, <1>3
    <2>2. Cardinality(activity.loaded) < Cardinality(ask.skills)
      BY <1>3, AskCounts DEF ReasonerInv
    <2>3. Rounds = Cardinality(ask.skills) + ErrorBudget - 1
      BY <2>1 DEF Rounds
    <2>4. /\ FellBack + activity.retries \in Nat /\ Cardinality(activity.loaded) \in Nat
          /\ Cardinality(ask.skills) \in Nat /\ ErrorBudget \in Nat /\ activity.budget \in Nat
          /\ Len(requests) \in Nat
      BY <1>2
    <2>5. Len(requests) + 1 <= FellBack + activity.retries + (Cardinality(activity.loaded) + ErrorBudget)
      <3>. DEFINE l == Len(requests)
                  p == activity.budget
                  s == FellBack + activity.retries
                  c == Cardinality(activity.loaded)
      <3>1. l \in Nat /\ p \in Nat /\ s \in Nat /\ c \in Nat /\ p > 0 /\ l + p <= s + c + ErrorBudget
        BY <1>3, <2>4
      <3>. HIDE DEF l, p, s, c
      <3>2. l + 1 <= s + (c + ErrorBudget)
        BY <2>4, <3>1
      <3>. QED BY <3>2 DEF l, s, c
    <2>. QED BY <1>12, <2>2, <2>3, <2>4, <2>5
  <1>15. activity'.open =>
           Len(requests') + budget <= FellBack + activity.retries + Cardinality(loaded) + ErrorBudget
    <2>1. SUFFICES ASSUME budget > 0
                   PROVE  Len(requests') + budget
                            <= FellBack + activity.retries + Cardinality(loaded) + ErrorBudget
      BY <1>11
    <2>2. budget + wasted = activity.budget /\ budget \in Nat
      BY <1>2, <1>8, <2>1
    <2>3. Cardinality(loaded) + activity.budget >= Cardinality(activity.loaded) + budget + 1
      BY <1>2, <1>4, <1>6, <1>7, <2>2
    <2>4. /\ FellBack + activity.retries \in Nat /\ Cardinality(activity.loaded) \in Nat
          /\ Cardinality(loaded) \in Nat /\ ErrorBudget \in Nat /\ activity.budget \in Nat
          /\ Len(requests) \in Nat
      BY <1>2, <1>4, <1>6
    <2>5. Len(requests) + activity.budget
            <= FellBack + activity.retries + Cardinality(activity.loaded) + ErrorBudget
      BY <1>3
    <2>. DEFINE l == Len(requests)
                p == activity.budget
                s == FellBack + activity.retries
                c == Cardinality(activity.loaded)
                d == Cardinality(loaded)
    <2>6. /\ l \in Nat /\ p \in Nat /\ s \in Nat /\ c \in Nat /\ d \in Nat
          /\ l + p <= s + c + ErrorBudget /\ d + p >= c + budget + 1
      BY <2>3, <2>4, <2>5
    <2>. HIDE DEF l, p, s, c, d
    <2>7. l + 1 + budget <= s + d + ErrorBudget
      BY <2>2, <2>4, <2>6
    <2>. QED BY <1>12, <2>7 DEF l, s, d
  <1>16. RequestsPaid'
    <2>1. Len(requests') <= 1 + OutputRetries + 1 + Rounds
      BY <1>2, <1>12, <1>14
    <2>. QED BY <1>11, <1>13, <1>14, <1>15, <2>1 DEF RequestsPaid
  <1>. QED BY <1>11, <1>12, <1>16 DEF ReasonerInv, ReplyFits, Running

LEMMA SettleKeepsInv ==
  ASSUME ReasonerInv, Running, NEW r, Request("reply"), ask' = ask,
         Settle([activity EXCEPT !.open = FALSE], r)
  PROVE  ReasonerInv'
  <1>. DEFINE memory == [activity EXCEPT !.open = FALSE]
              left == _drop_skill_calls(r)
              bad == ask.schema /\ ~left.fits /\ ~left.tools /\ left.asks = <<>>
  <1>1. activity \in Memory /\ activity.loaded \subseteq ask.skills
    BY DEF ReasonerInv, ReasonerTypeOK
  <1>2. /\ Rounds \in Nat /\ FellBack \in 0..1 /\ Len(requests) \in Nat
        /\ OutputRetries \in Nat /\ activity.retries \in 0..OutputRetries
        /\ Len(requests) <= FellBack + activity.retries + Rounds
    BY AskCounts DEF ReasonerInv, ReasonerTypeOK, RequestsPaid, Memory
  <1>3. /\ memory \in Memory /\ memory.loaded = activity.loaded /\ ~memory.open
        /\ memory.retries = activity.retries /\ memory.native_ok = activity.native_ok
    BY <1>1 DEF Memory
  <1>. HIDE DEF memory
  <1>4. Rounds' = Rounds
    BY DEF Rounds
  <1>5. CASE bad /\ memory.retries < OutputRetries
    <2>1. activity' = [memory EXCEPT !.pc = "reask", !.retries = memory.retries + 1]
      BY <1>5 DEF Settle, memory
    <2>2. memory.retries + 1 \in 0..OutputRetries
      BY <1>2, <1>3, <1>5
    <2>3. /\ activity' \in Memory /\ activity'.loaded = activity.loaded /\ ~activity'.open
          /\ activity'.retries = activity.retries + 1 /\ activity'.native_ok = activity.native_ok
          /\ activity'.pc = "reask"
      BY <1>3, <2>1, <2>2 DEF Memory
    <2>4. ReasonerTypeOK' /\ FormatsTried' /\ Len(requests') = Len(requests) + 1
      BY <1>1, <2>3, OneRequest
    <2>5. FellBack' = FellBack
      BY <2>3 DEF FellBack
    <2>6. Len(requests') <= FellBack + activity'.retries + Rounds
      BY <1>2, <2>3, <2>4
    <2>7. Len(requests') <= 1 + OutputRetries + 1 + Rounds
      BY <1>2, <2>4
    <2>. QED BY <1>4, <2>3, <2>4, <2>5, <2>6, <2>7 DEF ReasonerInv, RequestsPaid, ReplyFits
  <1>6. CASE ~(bad /\ memory.retries < OutputRetries)
    <2>1. activity' = [memory EXCEPT !.pc = "done"] /\ reply' = left
      BY <1>6 DEF Settle, memory
    <2>2. /\ activity' \in Memory /\ activity'.loaded = activity.loaded
          /\ activity'.retries = activity.retries /\ activity'.native_ok = activity.native_ok
          /\ activity'.pc = "done"
      BY <1>3, <2>1 DEF Memory
    <2>3. ReasonerTypeOK' /\ FormatsTried' /\ Len(requests') = Len(requests) + 1
      BY <1>1, <2>2, OneRequest
    <2>4. Len(requests') <= 1 + OutputRetries + 1 + Rounds
      BY <1>2, <2>3
    <2>5. ask.skills # {} => left.asks = <<>>
      BY DEF _drop_skill_calls
    <2>6. ReplyFits'
      BY <1>2, <1>3, <1>6, <2>1, <2>2, <2>5 DEF ReplyFits
    <2>. QED BY <1>4, <2>2, <2>3, <2>4, <2>6 DEF ReasonerInv, RequestsPaid, Running
  <1>. QED BY <1>5, <1>6

LEMMA ReasonerStep == ReasonerInv /\ [ReasonerNext]_reasonerVars => ReasonerInv'
  <1>1. SUFFICES ASSUME ReasonerInv, [ReasonerNext]_reasonerVars PROVE ReasonerInv'
    OBVIOUS
  <1>2. CASE UNCHANGED reasonerVars
    BY <1>1, <1>2 DEF reasonerVars, ReasonerInv, ReasonerTypeOK, RequestsPaid, FormatsTried, ReplyFits,
                      Running, Rounds, FellBack
  <1>3. CASE Running /\ (RequestFails \/ AuthFails)
    BY <1>1, <1>3, FailureKeepsInv
  <1>4. CASE Running /\ RequestReplies
    <2>1. PICK asks \in Asks, tools \in BOOLEAN, fits \in BOOLEAN :
            /\ Request("reply") /\ ask' = ask
            /\ IF activity.open /\ asks # <<>>
               THEN activity' = Disclosed(asks) /\ reply' = reply
               ELSE Settle([activity EXCEPT !.open = FALSE], ReplyOf(asks, tools, fits))
      BY <1>4 DEF RequestReplies
    <2>2. CASE activity.open /\ asks # <<>>
      BY <1>1, <1>4, <2>1, <2>2, RoundKeepsInv
    <2>3. CASE ~(activity.open /\ asks # <<>>)
      BY <1>1, <1>4, <2>1, <2>3, SettleKeepsInv
    <2>. QED BY <2>2, <2>3
  <1>. QED BY <1>1, <1>2, <1>3, <1>4 DEF ReasonerNext, Running

(* A call of a reasoner stays one call (OneCall), for any skills, budget   *)
(* and re-asks, whatever the model answers and the provider refuses.       *)
THEOREM CallsStayOneCall == ReasonerSpec => []OneCall
  <1>1. ReasonerInv => OneCall
    <2>1. SUFFICES ASSUME ReasonerInv PROVE OneCall
      OBVIOUS
    <2>2. DOMAIN requests = 1..Len(requests)
      BY <2>1 DEF ReasonerInv, ReasonerTypeOK
    <2>. QED BY <2>1, <2>2 DEF OneCall, ReasonerInv, RequestsPaid, Rounds, FormatsTried, ReplyFits
  <1>. QED BY <1>1, ReasonerStart, ReasonerStep, PTL DEF ReasonerSpec

-----------------------------------------------------------------------------
(***************************************************************************)
(* The collectors.                                                         *)
(***************************************************************************)
Times == 0..MaxAge
Marks == Times \union {Never}
SegmentRecord ==
  [pc : {"boot", "collect", "fired", "closed"}, items : Seq(Nat),
   first_at : Marks, last_at : Marks, opened : Marks, seen : SUBSET Nat]

CollectorTypeOK ==
  /\ kind \in {"debounce", "batch"} /\ window \in Windows
  /\ segment \in SegmentRecord
  /\ carried \in [pending : Seq(Nat), first_at : Marks, last_at : Marks]
  /\ submitted \in Nat /\ accepted \in Seq(Nat) /\ out \in Seq(Nat)
  /\ ages \in Seq(Times) /\ since \in Marks /\ slipped \in BOOLEAN

(* What was taken is what was submitted, once each or again, and what a    *)
(* collector has seen it took.                                             *)
Collected ==
  /\ out \o Held = accepted /\ Len(ages) = Len(accepted)
  /\ Range(accepted) = 1..submitted
  /\ segment.seen \subseteq 1..submitted
  /\ segment.pc = "closed" => segment.items = <<>> /\ segment.seen = {}

LEMMA SegmentFields ==
  ASSUME CollectorTypeOK
  PROVE  /\ segment.pc \in {"boot", "collect", "fired", "closed"}
         /\ segment.items \in Seq(Nat) /\ segment.seen \subseteq Nat
         /\ segment.first_at \in Marks /\ segment.last_at \in Marks
         /\ segment.opened \in Marks
         /\ carried.pending \in Seq(Nat)
         /\ carried.first_at \in Marks /\ carried.last_at \in Marks
         /\ Held \in Seq(Nat) /\ Len(Held) \in Nat
         /\ Len(segment.items) \in Nat /\ Len(carried.pending) \in Nat
         /\ segment.pc = "boot" =>
              Len(Held) = Len(carried.pending) + Len(segment.items)
         /\ segment.pc # "boot" => Held = segment.items
  <1>1. /\ segment.pc \in {"boot", "collect", "fired", "closed"}
        /\ segment.items \in Seq(Nat) /\ segment.seen \subseteq Nat
        /\ segment.first_at \in Marks /\ segment.last_at \in Marks
        /\ segment.opened \in Marks
        /\ carried.pending \in Seq(Nat)
        /\ carried.first_at \in Marks /\ carried.last_at \in Marks
    BY DEF CollectorTypeOK, SegmentRecord
  <1>2. carried.pending \o segment.items \in Seq(Nat)
        /\ Len(carried.pending \o segment.items)
             = Len(carried.pending) + Len(segment.items)
    BY <1>1, ConcatProperties
  <1>3. Len(segment.items) \in Nat /\ Len(carried.pending) \in Nat
    BY <1>1
  <1>4. CASE segment.pc = "boot"
    <2>1. Held = carried.pending \o segment.items
      BY <1>4 DEF Held
    <2>2. Held \in Seq(Nat) /\ Len(Held) = Len(carried.pending) + Len(segment.items)
      BY <1>2, <2>1
    <2>3. \A m, n \in Nat : m + n \in Nat
      OBVIOUS
    <2>4. Len(Held) \in Nat
      BY <1>3, <2>2, <2>3, Zenon
    <2>. QED BY <1>1, <1>3, <1>4, <2>2, <2>4
  <1>5. CASE segment.pc # "boot"
    <2>1. Held = segment.items
      BY <1>5 DEF Held
    <2>. QED BY <1>1, <1>3, <1>5, <2>1
  <1>. QED BY <1>4, <1>5

LEMMA JoinedNumbers ==
  /\ \A s, t \in Seq(Nat) : Range(s \o t) = Range(s) \union Range(t)
  /\ \A s, t, u \in Seq(Nat) : (s \o t) \o u = s \o (t \o u)
  <1>1. ASSUME NEW s \in Seq(Nat), NEW t \in Seq(Nat)
        PROVE  Range(s \o t) = Range(s) \union Range(t)
    BY RangeConcatenation
  <1>2. ASSUME NEW s \in Seq(Nat), NEW t \in Seq(Nat), NEW u \in Seq(Nat)
        PROVE  (s \o t) \o u = s \o (t \o u)
    BY SMTT(20)
  <1>. QED BY <1>1, <1>2

LEMMA MarkFacts ==
  /\ MaxAge \in Nat /\ Never \notin Times /\ 0 \in Times
  /\ \A t \in Times : t \in Nat /\ Older(t) \in Times
  /\ \A s, t \in Times : s <= t => Older(s) <= Older(t)
  /\ \A t \in Marks : Older(t) \in Marks /\ (Older(t) = Never <=> t = Never)
  <1>1. MaxAge \in Nat /\ Never \notin Nat
    BY CollectorAssumption
  <1>2. \A t \in Times : t # Never /\ t \in Nat
    BY <1>1 DEF Times
  <1>3. \A t \in Times : Older(t) = IF t = MaxAge THEN t ELSE t + 1
    BY <1>2 DEF Older
  <1>4. Older(Never) = Never
    BY DEF Older
  <1>5. \A t \in Times : Older(t) \in Times
    BY <1>1, <1>2, <1>3 DEF Times
  <1>6. \A s, t \in Times : s <= t => Older(s) <= Older(t)
    BY <1>1, <1>3 DEF Times
  <1>. QED BY <1>1, <1>2, <1>4, <1>5, <1>6 DEF Marks, Times

(* A signal that is taken appends to what is held; the rest it leaves.     *)
LEMMA SignalTakes ==
  ASSUME CollectorTypeOK, Collected, NEW i \in Nat, Signal(i),
         UNCHANGED <<settings, out>>,
         i \notin segment.seen
  PROVE  /\ Held' = Append(Held, i) /\ accepted' = Append(accepted, i)
         /\ ages' = Append(ages, 0)
         /\ since' = (IF Held = <<>> THEN 0 ELSE since)
         /\ slipped' = (slipped /\ Held # <<>>)
         /\ segment'.pc = (IF segment.pc = "closed" THEN "boot" ELSE segment.pc)
         /\ segment'.items = Append(segment.items, i)
         /\ segment'.last_at = 0
         /\ segment'.first_at = (IF segment.items = <<>> THEN 0 ELSE segment.first_at)
         /\ segment.pc # "closed" => segment'.opened = segment.opened
         /\ carried' = (IF segment.pc = "closed" THEN NoPending ELSE carried)
         /\ segment'.seen \subseteq segment.seen \union {i}
         /\ segment' \in SegmentRecord
  <1>. DEFINE open == IF segment.pc = "closed" THEN Fresh ELSE segment
  <1>a. /\ 0 \in Marks /\ Never \in Marks
    BY MarkFacts DEF Marks
  <1>b. Fresh \in SegmentRecord
    BY <1>a DEF Fresh, SegmentRecord
  <1>c. open \in SegmentRecord
    BY <1>b DEF CollectorTypeOK
  <1>1. /\ segment' = Signalled(open, i)
        /\ carried' = (IF segment.pc = "closed" THEN NoPending ELSE carried)
        /\ accepted' = Append(accepted, i)
        /\ since' = (IF Held = <<>> THEN 0 ELSE since)
        /\ slipped' = (slipped /\ Held # <<>>)
        /\ ages' = Append(ages, 0)
    <2>1. Fresh.seen = {}
      BY DEF Fresh
    <2>2. i \notin open.seen
      BY <2>1 DEF Collected
    <2>. QED BY <2>2 DEF Signal
  <1>2. /\ segment.items \in Seq(Nat) /\ carried.pending \in Seq(Nat)
        /\ segment.pc \in {"boot", "collect", "fired", "closed"}
        /\ Held \in Seq(Nat)
    BY SegmentFields
  <1>3. /\ open.items = segment.items /\ open.seen = segment.seen
        /\ open.pc = (IF segment.pc = "closed" THEN "boot" ELSE segment.pc)
        /\ segment.pc # "closed" => open = segment
    BY DEF Collected, Fresh
  <1>. HIDE DEF open
  <1>4. /\ segment'.pc = open.pc /\ segment'.items = Append(open.items, i)
        /\ segment'.last_at = 0 /\ segment'.opened = open.opened
        /\ segment'.first_at = (IF open.items = <<>> THEN 0 ELSE open.first_at)
        /\ segment'.seen \subseteq open.seen \union {i}
        /\ segment' \in SegmentRecord
    <2>1. Append(open.items, i) \in Seq(Nat) /\ open.seen \union {i} \in SUBSET Nat
      BY <1>c, AppendProperties DEF SegmentRecord
    <2>. QED BY <1>1, <1>a, <1>c, <2>1 DEF Signalled, SegmentRecord
  <1>5. segment'.first_at = (IF segment.items = <<>> THEN 0 ELSE segment.first_at)
    <2>1. CASE segment.pc = "closed"
      BY <1>3, <1>4, <2>1 DEF Collected
    <2>2. CASE segment.pc # "closed"
      BY <1>3, <1>4, <2>2
    <2>. QED BY <2>1, <2>2
  <1>6. Held' = Append(Held, i)
    <2>1. CASE segment.pc = "closed"
      <3>1. Held = <<>> /\ Held' = <<>> \o Append(<<>>, i)
        BY <1>1, <1>3, <1>4, <2>1, SegmentFields DEF Held, Collected, NoPending
      <3>2. <<>> \in Seq(Nat) /\ <<>> \o Append(<<>>, i) = Append(<<>> \o <<>>, i)
        BY AppendBehind
      <3>. QED BY <3>1, <3>2
    <2>2. CASE segment.pc = "boot"
      <3>1. Held = carried.pending \o segment.items
            /\ Held' = carried.pending \o Append(segment.items, i)
        BY <1>1, <1>3, <1>4, <2>2 DEF Held
      <3>2. \A a, b \in Seq(Nat) : a \o Append(b, i) = Append(a \o b, i)
        BY AppendBehind
      <3>. QED BY <1>2, <3>1, <3>2
    <2>3. CASE segment.pc \in {"collect", "fired"}
      BY <1>1, <1>3, <1>4, <2>3 DEF Held
    <2>. QED BY <1>2, <2>1, <2>2, <2>3
  <1>. QED BY <1>1, <1>3, <1>4, <1>5, <1>6

(* One that was seen is passed over.                                       *)
LEMMA SignalPassedOver ==
  ASSUME Collected, NEW i, Signal(i), i \in segment.seen
  PROVE  UNCHANGED <<segment, carried, accepted, held>>
  BY DEF Signal, Collected

LEMMA SignalCollected ==
  ASSUME CollectorTypeOK, Collected, NEW i, Signal(i), UNCHANGED <<settings, out>>,
         submitted' \in Nat, 1..submitted' = (1..submitted) \union {i}
  PROVE  CollectorTypeOK' /\ Collected'
  <1>i. i \in Nat
    <2>1. i \in 1..submitted'
      OBVIOUS
    <2>. QED BY <2>1
  <1>a. accepted \in Seq(Nat) /\ out \in Seq(Nat) /\ ages \in Seq(Times)
    BY DEF CollectorTypeOK
  <1>b. Held \in Seq(Nat) /\ 0 \in Times /\ 0 \in Marks
    BY SegmentFields, MarkFacts DEF Marks
  <1>0. /\ i \in Nat /\ accepted \in Seq(Nat) /\ out \in Seq(Nat)
        /\ ages \in Seq(Times) /\ Held \in Seq(Nat)
        /\ Len(accepted) \in Nat /\ Len(ages) \in Nat /\ 0 \in Times /\ 0 \in Marks
    BY <1>i, <1>a, <1>b
  <1>s. kind' = kind /\ window' = window /\ out' = out
    BY DEF settings
  <1>1. CASE i \in segment.seen
    <2>1. UNCHANGED <<segment, carried, accepted, ages, since, slipped>>
      BY <1>1, SignalPassedOver DEF held
    <2>2. 1..submitted' = 1..submitted
      BY <1>1 DEF Collected
    <2>. QED BY <1>s, <2>1, <2>2 DEF CollectorTypeOK, Collected, Held
  <1>2. CASE i \notin segment.seen
    <2>1. /\ Held' = Append(Held, i) /\ accepted' = Append(accepted, i)
          /\ ages' = Append(ages, 0)
          /\ since' = (IF Held = <<>> THEN 0 ELSE since)
          /\ slipped' = (slipped /\ Held # <<>>)
          /\ segment'.items = Append(segment.items, i)
          /\ carried' = (IF segment.pc = "closed" THEN NoPending ELSE carried)
          /\ segment'.seen \subseteq segment.seen \union {i}
          /\ segment' \in SegmentRecord
          /\ segment'.pc # "closed"
      <3>1. segment.pc \in {"boot", "collect", "fired", "closed"}
        BY SegmentFields
      <3>. QED BY <1>0, <1>2, <3>1, SignalTakes
    <2>2. accepted' \in Seq(Nat) /\ ages' \in Seq(Times)
          /\ Len(accepted') = Len(accepted) + 1 /\ Len(ages') = Len(ages) + 1
      BY <1>0, <2>1, AppendProperties
    <2>3. out \o Held' = accepted'
      <3>1. out \o Append(Held, i) = Append(out \o Held, i)
        BY <1>0, AppendBehind
      <3>. QED BY <2>1, <3>1 DEF Collected
    <2>4. Range(accepted') = 1..submitted'
      <3>1. accepted' = accepted \o <<i>>
        BY <1>0, <2>1, AppendIsConcat
      <3>2. Range(accepted') = Range(accepted) \union Range(<<i>>)
        <4>1. <<i>> \in Seq(Nat)
          BY <1>0
        <4>2. Range(accepted \o <<i>>) = Range(accepted) \union Range(<<i>>)
          BY <1>0, <4>1, JoinedNumbers
        <4>. QED BY <3>1, <4>2, Zenon
      <3>3. Range(<<i>>) = {i}
        BY DEF Range
      <3>. QED BY <3>2, <3>3 DEF Collected
    <2>5. CollectorTypeOK'
      <3>1. NoPending \in [pending : Seq(Nat), first_at : Marks, last_at : Marks]
        BY DEF NoPending, Marks
      <3>2. since' \in Marks /\ slipped' \in BOOLEAN
        BY <1>0, <2>1 DEF CollectorTypeOK
      <3>. QED BY <1>s, <2>1, <2>2, <3>1, <3>2 DEF CollectorTypeOK
    <2>6. Collected'
      <3>1. segment'.seen \subseteq 1..submitted'
        BY <2>1 DEF Collected
      <3>. QED BY <1>s, <1>0, <2>1, <2>2, <2>3, <2>4, <3>1 DEF Collected
    <2>. QED BY <2>5, <2>6
  <1>. QED BY <1>1, <1>2

(* A batch is the first of what is held, and what is left is the rest.     *)
Cap == IF window.items = NoBound \/ window.items > Len(segment.items)
       THEN Len(segment.items) ELSE window.items

LEMMA BatchOf ==
  ASSUME CollectorTypeOK, Collected, FireBatch
  PROVE  /\ Cap \in Nat /\ 1 <= Cap /\ Cap <= Len(segment.items)
         /\ window.items # NoBound => window.items \in Nat /\ Cap <= window.items
         /\ segment'.items \in Seq(Nat)
         /\ Len(segment'.items) = Len(segment.items) - Cap
         /\ out' \in Seq(Nat) /\ Len(out') = Len(out) + Cap
         /\ out' \o segment'.items = accepted
         /\ segment.pc = "collect" /\ segment'.pc = "fired"
         /\ segment' \in SegmentRecord /\ segment'.seen = segment.seen
         /\ segment'.opened = segment.opened
         /\ segment'.first_at = (IF segment'.items = <<>> THEN Never
                                 ELSE segment.first_at)
         /\ segment'.last_at = (IF segment'.items = <<>> THEN Never
                                ELSE segment.last_at)
         /\ slipped' = ((slipped \/ segment.first_at # Never)
                        /\ Cap < Len(carried.pending))
         /\ UNCHANGED <<kind, window, carried, submitted, accepted, ages, since>>
  <1>. DEFINE n == Len(segment.items)
              leaving == SubSeq(segment.items, 1, Cap)
              rest == SubSeq(segment.items, Cap + 1, Len(segment.items))
  <1>0. /\ segment.items \in Seq(Nat) /\ n \in Nat /\ out \in Seq(Nat)
        /\ segment.items # <<>> /\ Len(out) \in Nat
        /\ out \o segment.items = accepted
        /\ \A i \in 1..n : segment.items[i] \in Nat
    <2>1. segment.items \in Seq(Nat) /\ out \in Seq(Nat)
      BY SegmentFields DEF CollectorTypeOK
    <2>2. segment.pc = "collect" /\ segment.items # <<>>
      BY DEF FireBatch, evaluate
    <2>3. out \o segment.items = accepted
      BY <2>2, SegmentFields DEF Collected
    <2>4. Len(segment.items) \in Nat /\ Len(out) \in Nat
          /\ \A i \in 1..n : segment.items[i] \in Nat
      BY <2>1
    <2>. QED BY <2>1, <2>2, <2>3, <2>4
  <1>1. window.items \in Nat \ {0} \/ window.items = NoBound
    BY CollectorAssumption DEF CollectorTypeOK
  <1>2. n # 0
    BY <1>0, EmptySeq
  <1>3. /\ Cap \in Nat /\ 1 <= Cap /\ Cap <= n
        /\ window.items # NoBound => window.items \in Nat /\ Cap <= window.items
    BY <1>0, <1>1, <1>2 DEF Cap
  <1>4. /\ leaving \in Seq(Nat) /\ Len(leaving) = Cap
        /\ rest \in Seq(Nat) /\ Len(rest) = n - Cap
        /\ leaving \o rest = segment.items
    <2>. DEFINE k == Cap
    <2>1. k = Cap /\ k \in Nat /\ 1 <= k /\ k <= n
      BY <1>3
    <2>2. 1 \in Int /\ k \in Int /\ k + 1 \in Int /\ n \in Int
      BY <1>0, <2>1
    <2>3. \A i \in 1..k : segment.items[i] \in Nat
      BY <1>0, <2>1
    <2>4. \A i \in (k + 1)..n : segment.items[i] \in Nat
      BY <1>0, <2>1
    <2>. HIDE DEF k
    <2>5. SubSeq(segment.items, 1, k) \in Seq(Nat)
          /\ Len(SubSeq(segment.items, 1, k)) = IF 1 <= k THEN k - 1 + 1 ELSE 0
      BY <2>2, <2>3, SubSeqProperties
    <2>6. SubSeq(segment.items, k + 1, n) \in Seq(Nat)
          /\ Len(SubSeq(segment.items, k + 1, n))
               = IF k + 1 <= n THEN n - (k + 1) + 1 ELSE 0
      BY <2>2, <2>4, SubSeqProperties
    <2>7. SubSeq(segment.items, 1, k) \o SubSeq(segment.items, k + 1, n)
            = SubSeq(segment.items, 1, n)
      <3>1. 1 \in 1..(n + 1) /\ k \in (1 - 1)..n /\ n \in k..n
        BY <1>0, <2>1
      <3>. QED BY <1>0, <3>1, ConcatAdjacentSubSeq
    <2>8. SubSeq(segment.items, 1, n) = segment.items
      BY <1>0, SubSeqFull
    <2>9. (IF 1 <= k THEN k - 1 + 1 ELSE 0) = k
          /\ (IF k + 1 <= n THEN n - (k + 1) + 1 ELSE 0) = n - k
      BY <1>0, <2>1
    <2>. QED BY <2>1, <2>5, <2>6, <2>7, <2>8, <2>9
  <1>5. /\ segment' = [segment EXCEPT !.pc = "fired", !.items = rest,
            !.first_at = IF rest = <<>> THEN Never ELSE @,
            !.last_at = IF rest = <<>> THEN Never ELSE @]
        /\ out' = out \o leaving
        /\ slipped' = ((slipped \/ segment.first_at # Never)
                       /\ Cap < Len(carried.pending))
        /\ UNCHANGED <<kind, window, carried, submitted, accepted, ages, since>>
        /\ segment.pc = "collect"
    BY DEF FireBatch, Cap, settings, asked
  <1>. HIDE DEF leaving, rest
  <1>6. /\ segment'.items = rest /\ segment'.pc = "fired"
        /\ segment' \in SegmentRecord /\ segment'.seen = segment.seen
        /\ segment'.opened = segment.opened
        /\ segment'.first_at = (IF rest = <<>> THEN Never ELSE segment.first_at)
        /\ segment'.last_at = (IF rest = <<>> THEN Never ELSE segment.last_at)
    BY <1>4, <1>5 DEF CollectorTypeOK, SegmentRecord, Marks
  <1>7. out' \in Seq(Nat) /\ Len(out') = Len(out) + Cap
    BY <1>0, <1>4, <1>5, ConcatProperties
  <1>8. out' \o rest = accepted
    <2>1. (out \o leaving) \o rest = out \o (leaving \o rest)
      BY <1>0, <1>4, JoinedNumbers
    <2>. QED BY <1>0, <1>4, <1>5, <2>1
  <1>. QED BY <1>3, <1>4, <1>5, <1>6, <1>7, <1>8

LEMMA InitCollected == CollectorInit => CollectorTypeOK /\ Collected
  <1>. SUFFICES ASSUME CollectorInit PROVE CollectorTypeOK /\ Collected
    OBVIOUS
  <1>1. CollectorTypeOK
    <2>1. segment \in SegmentRecord
      <3>1. segment = [pc |-> "closed", items |-> <<>>, first_at |-> Never,
                       last_at |-> Never, opened |-> Never, seen |-> {}]
        BY DEF CollectorInit, Fresh
      <3>. QED BY <3>1 DEF SegmentRecord, Marks
    <2>2. carried \in [pending : Seq(Nat), first_at : Marks, last_at : Marks]
      BY DEF CollectorInit, NoPending, Marks
    <2>3. /\ kind \in {"debounce", "batch"} /\ window \in Windows
          /\ submitted = 0 /\ accepted = <<>> /\ out = <<>> /\ ages = <<>>
          /\ since = Never /\ slipped = FALSE
      BY DEF CollectorInit
    <2>4. <<>> \in Seq(Nat) /\ <<>> \in Seq(Times) /\ Never \in Marks
      BY DEF Marks
    <2>. QED BY <2>1, <2>2, <2>3, <2>4 DEF CollectorTypeOK
  <1>2. segment.pc = "closed" /\ segment.items = <<>> /\ segment.seen = {}
    BY DEF CollectorInit, Fresh
  <1>3. Held = <<>> /\ out = <<>> /\ accepted = <<>> /\ ages = <<>> /\ submitted = 0
    BY <1>2 DEF CollectorInit, Held
  <1>4. <<>> \o <<>> = <<>> /\ Range(<<>>) = {} /\ 1..0 = {}
    BY DEF Range
  <1>. QED BY <1>1, <1>2, <1>3, <1>4 DEF Collected

(* Of the steps of a collector only a full batch changes what left.        *)
LEMMA StepCollected ==
  ASSUME CollectorTypeOK, Collected, CollectorSteps
  PROVE  CollectorTypeOK' /\ Collected'
  <1>. USE DEF settings, asked, held
  <1>0. /\ segment.items \in Seq(Nat) /\ carried.pending \in Seq(Nat)
        /\ out \in Seq(Nat) /\ 0 \in Marks /\ Never \in Marks
        /\ segment.first_at \in Marks /\ segment.last_at \in Marks
        /\ segment.opened \in Marks
        /\ carried.first_at \in Marks /\ carried.last_at \in Marks
    BY SegmentFields, MarkFacts DEF CollectorTypeOK, Marks
  <1>f. Fresh \in SegmentRecord /\ Fresh.pc = "boot" /\ Fresh.items = <<>>
        /\ Fresh.seen = {}
    BY DEF Fresh, SegmentRecord, Marks
  <1>1. CASE TakeCarried
    <2>. DEFINE items == carried.pending \o segment.items
                opened == Else(carried.first_at, Else(segment.first_at, 0))
                seen == IF kind = "batch" THEN segment.seen \union Range(carried.pending)
                        ELSE segment.seen
                last == IF items = <<>> THEN segment.last_at
                        ELSE Else(segment.last_at, Else(carried.last_at, opened))
    <2>1. /\ segment.pc = "boot"
          /\ segment' = [segment EXCEPT !.pc = "collect", !.items = items,
               !.opened = opened, !.seen = seen, !.last_at = last]
          /\ UNCHANGED <<kind, window, carried, submitted, accepted, out, ages,
                         since, slipped>>
      BY <1>1 DEF TakeCarried
    <2>2. items \in Seq(Nat) /\ opened \in Marks /\ last \in Marks
      BY <1>0, ConcatProperties DEF Else
    <2>3. Range(carried.pending) \subseteq Range(accepted)
      <3>1. items \in Seq(Nat) /\ accepted = out \o items
            /\ items = carried.pending \o segment.items
        BY <2>1, <2>2 DEF Collected, Held
      <3>. HIDE DEF items
      <3>2. Range(out \o items) = Range(out) \union Range(items)
        BY <1>0, <3>1, JoinedNumbers
      <3>3. Range(items) = Range(carried.pending) \union Range(segment.items)
        BY <1>0, <3>1, JoinedNumbers
      <3>. QED BY <3>1, <3>2, <3>3
    <2>4. seen \subseteq 1..submitted
      BY <2>3 DEF Collected
    <2>5. seen \subseteq Nat
      BY <2>4
    <2>6. Held = items
      BY <2>1 DEF Held
    <2>. HIDE DEF items, opened, seen, last
    <2>7. segment' \in SegmentRecord /\ segment'.items = items
          /\ segment'.pc = "collect" /\ segment'.seen = seen
      BY <2>1, <2>2, <2>5 DEF CollectorTypeOK, SegmentRecord
    <2>8. Held' = Held
      BY <2>6, <2>7 DEF Held
    <2>. QED BY <2>1, <2>4, <2>7, <2>8 DEF CollectorTypeOK, Collected
  <1>2. CASE FireBatch
    <2>1. Held' = segment'.items
      BY <1>2, BatchOf DEF Held
    <2>2. CollectorTypeOK'
      <3>1. slipped' \in BOOLEAN
        BY <1>2, BatchOf
      <3>. QED BY <1>2, <3>1, BatchOf DEF CollectorTypeOK
    <2>3. Collected'
      BY <1>2, <2>1, BatchOf DEF Collected
    <2>. QED BY <2>2, <2>3
  <1>3. CASE BatchHandedOver
    <2>1. /\ segment.pc = "fired" /\ Held = segment.items
          /\ UNCHANGED <<kind, window, submitted, accepted, out, ages, since, slipped>>
      BY <1>3, SegmentFields DEF BatchHandedOver
    <2>2. CASE kind = "debounce" /\ segment.items = <<>>
      <3>1. segment' = [Fresh EXCEPT !.pc = "closed"] /\ carried' = carried
        BY <1>3, <2>2 DEF BatchHandedOver
      <3>2. segment' \in SegmentRecord /\ segment'.items = <<>>
            /\ segment'.pc = "closed" /\ segment'.seen = {}
        BY <1>f, <3>1 DEF SegmentRecord, Fresh
      <3>3. Held' = Held
        BY <2>1, <2>2, <3>2 DEF Held
      <3>. QED BY <2>1, <3>1, <3>2, <3>3 DEF CollectorTypeOK, Collected
    <2>3. CASE ~ (kind = "debounce" /\ segment.items = <<>>)
      <3>1. segment' = Fresh /\ carried' = CarriedOver
        BY <1>3, <2>3 DEF BatchHandedOver
      <3>2. carried' \in [pending : Seq(Nat), first_at : Marks, last_at : Marks]
            /\ carried'.pending = segment.items
        BY <1>0, <3>1 DEF CarriedOver, Else
      <3>3. Held' = segment.items \o <<>>
        BY <1>f, <3>1, <3>2 DEF Held
      <3>4. Held' = Held
        BY <1>0, <2>1, <3>3, ConcatEmptySeq
      <3>. QED BY <1>f, <2>1, <3>1, <3>2, <3>4 DEF CollectorTypeOK, Collected
    <2>. QED BY <2>2, <2>3
  <1>4. CASE BatchFlowFails
    <2>1. /\ segment.pc = "fired" /\ Held = segment.items
          /\ segment' = [Fresh EXCEPT !.pc = "closed"] /\ out' = out \o segment.items
          /\ UNCHANGED <<kind, window, carried, submitted, accepted, ages, since,
                         slipped>>
      BY <1>4, SegmentFields DEF BatchFlowFails
    <2>2. segment' \in SegmentRecord /\ segment'.items = <<>>
          /\ segment'.pc = "closed" /\ segment'.seen = {}
      BY <1>f, <2>1 DEF SegmentRecord, Fresh
    <2>3. out' \in Seq(Nat) /\ out' = accepted /\ Held' = <<>>
      BY <1>0, <2>1, <2>2, ConcatProperties DEF Collected, Held
    <2>4. out' \o Held' = accepted
      BY <2>3, ConcatEmptySeq
    <2>. QED BY <2>1, <2>2, <2>3, <2>4 DEF CollectorTypeOK, Collected
  <1>. QED BY <1>1, <1>2, <1>3, <1>4 DEF CollectorSteps

(* Time leaves everything but the clocks.                                  *)
LEMMA TimeTypes ==
  ASSUME CollectorTypeOK, Collected, TimePasses
  PROVE  /\ CollectorTypeOK' /\ Collected'
         /\ segment'.pc = segment.pc /\ segment'.items = segment.items
         /\ segment'.first_at = Older(segment.first_at)
         /\ segment'.last_at = Older(segment.last_at)
         /\ segment'.opened = Older(segment.opened)
         /\ carried'.pending = carried.pending
         /\ carried'.first_at = Older(carried.first_at)
         /\ carried'.last_at = Older(carried.last_at)
         /\ Held' = Held /\ Len(ages') = Len(ages)
         /\ \A i \in 1..Len(ages) : ages'[i] = Older(ages[i])
         /\ since' = Older(since)
         /\ UNCHANGED <<kind, window, out, slipped>>
  <1>0. /\ segment \in SegmentRecord /\ ages \in Seq(Times) /\ since \in Marks
        /\ carried \in [pending : Seq(Nat), first_at : Marks, last_at : Marks]
        /\ \A t \in Marks : Older(t) \in Marks
        /\ \A t \in Times : Older(t) \in Times
    BY MarkFacts DEF CollectorTypeOK
  <1>1. /\ segment' = [segment EXCEPT !.first_at = Older(@), !.last_at = Older(@),
                                     !.opened = Older(@)]
        /\ carried' = [carried EXCEPT !.first_at = Older(@), !.last_at = Older(@)]
        /\ ages' = [i \in DOMAIN ages |-> Older(ages[i])] /\ since' = Older(since)
        /\ UNCHANGED <<kind, window, submitted, accepted, out, slipped>>
    BY DEF TimePasses, settings, asked
  <1>2. /\ segment' \in SegmentRecord
        /\ segment'.pc = segment.pc /\ segment'.items = segment.items
        /\ segment'.seen = segment.seen
        /\ segment'.first_at = Older(segment.first_at)
        /\ segment'.last_at = Older(segment.last_at)
        /\ segment'.opened = Older(segment.opened)
    BY <1>0, <1>1 DEF SegmentRecord
  <1>3. /\ carried' \in [pending : Seq(Nat), first_at : Marks, last_at : Marks]
        /\ carried'.pending = carried.pending
        /\ carried'.first_at = Older(carried.first_at)
        /\ carried'.last_at = Older(carried.last_at)
    BY <1>0, <1>1
  <1>4. /\ ages' \in Seq(Times) /\ Len(ages') = Len(ages)
        /\ \A i \in 1..Len(ages) : ages'[i] = Older(ages[i])
    <2>1. DOMAIN ages = 1..Len(ages) /\ \A i \in 1..Len(ages) : ages[i] \in Times
          /\ Len(ages) \in Nat
      BY <1>0
    <2>2. ages' \in [1..Len(ages) -> Times]
      BY <1>0, <1>1, <2>1
    <2>. QED BY <1>1, <2>1, <2>2
  <1>5. Held' = Held
    BY <1>2, <1>3 DEF Held
  <1>6. CollectorTypeOK'
    BY <1>0, <1>1, <1>2, <1>3, <1>4 DEF CollectorTypeOK
  <1>7. Collected'
    BY <1>1, <1>2, <1>4, <1>5 DEF Collected
  <1>. QED BY <1>1, <1>2, <1>3, <1>4, <1>5, <1>6, <1>7

LEMMA SubmissionTaken ==
  ASSUME CollectorTypeOK, Collected, SubmitItem \/ RepeatSubmit
  PROVE  \E i : /\ Signal(i) /\ submitted' \in Nat
                /\ 1..submitted' = (1..submitted) \union {i}
                /\ UNCHANGED <<kind, window, out>>
  <1>0. submitted \in Nat
    BY DEF CollectorTypeOK
  <1>1. CASE SubmitItem
    <2>1. /\ Signal(submitted + 1) /\ submitted' = submitted + 1
          /\ UNCHANGED <<kind, window, out>>
      BY <1>1 DEF SubmitItem, settings
    <2>2. 1..(submitted + 1) = (1..submitted) \union {submitted + 1}
      BY <1>0
    <2>. QED BY <1>0, <2>1, <2>2
  <1>2. CASE RepeatSubmit
    <2>1. PICK i \in 1..submitted : Signal(i)
      BY <1>2 DEF RepeatSubmit
    <2>2. submitted' = submitted /\ UNCHANGED <<kind, window, out>>
      BY <1>2 DEF RepeatSubmit, settings
    <2>. QED BY <1>0, <2>1, <2>2
  <1>. QED BY <1>1, <1>2

LEMMA NextCollected ==
  ASSUME CollectorTypeOK, Collected, [CollectorNext]_collectorVars
  PROVE  CollectorTypeOK' /\ Collected'
  <1>1. CASE SubmitItem \/ RepeatSubmit
    <2>1. PICK i : /\ Signal(i) /\ submitted' \in Nat
                   /\ 1..submitted' = (1..submitted) \union {i}
                   /\ UNCHANGED <<kind, window, out>>
      BY <1>1, SubmissionTaken
    <2>. QED BY <2>1, SignalCollected DEF settings
  <1>2. CASE CollectorSteps
    BY <1>2, StepCollected
  <1>3. CASE UNCHANGED <<settings, segment, carried, asked, out, held>>
    BY <1>3 DEF settings, asked, held, CollectorTypeOK, Collected, Held
  <1>4. CASE \E p \in DOMAIN polls : PollSteps(p)
    BY <1>3, <1>4 DEF PollSteps, SubmitBatch, PollBatch, FetchBatchResults,
       RouteResult, PollTo
  <1>5. CASE TimePasses
    BY <1>5, TimeTypes
  <1>6. CASE UNCHANGED collectorVars
    BY <1>3, <1>6 DEF collectorVars
  <1>. QED BY <1>1, <1>2, <1>4, <1>5, <1>6 DEF CollectorNext

(* Every submission is in one place, in the order of its signal (ItemsKept)*)
(* over any window, batches, continue-as-new, failures and repetitions.    *)
THEOREM SubmissionsAreKept == CollectorSpec => []ItemsKept
  <1>1. Collected => ItemsKept
    BY DEF Collected, ItemsKept
  <1>2. CollectorTypeOK /\ Collected /\ [CollectorNext]_collectorVars
          => CollectorTypeOK' /\ Collected'
    BY NextCollected
  <1>. QED BY InitCollected, <1>1, <1>2, PTL DEF CollectorSpec
-----------------------------------------------------------------------------
(* The age of the k-th item held, what a segment takes for the start of    *)
(* its batch, and how much of it was carried.                              *)
Age == [k \in 1..Len(Held) |-> ages[Len(out) + k]]
Clock == Else(segment.first_at, segment.opened)
Pending == Len(carried.pending)

(* t is old enough to be the clock of the k-th item held, and for a        *)
(* debounced batch not older than its first.                               *)
Dates(t, k) ==
  t \in Times /\ t >= Age[k] /\ (kind = "debounce" => t <= since)

Aging == \A i, j \in 1..Len(ages) : i <= j => ages[j] <= ages[i]

Arrivals ==
  /\ segment.items = <<>> => segment.first_at = Never /\ segment.last_at = Never
  /\ segment.items # <<>> => segment.last_at = Age[Len(Held)]
  /\ Held # <<>> => since \in Times

BootClocks ==
  segment.pc = "boot" =>
    /\ carried.pending = <<>> => carried.first_at = Never
    /\ carried.pending # <<>> =>
         Dates(carried.first_at, Pending) /\ (slipped \/ carried.first_at >= Age[1])
    /\ carried.pending # <<>> /\ segment.items = <<>> => carried.last_at = Age[Pending]
    /\ segment.items # <<>> => Dates(segment.first_at, Pending + 1)
    /\ kind = "debounce" => Held # <<>>

CollectClocks ==
  segment.pc = "collect" =>
    /\ segment.opened \in Times /\ Pending <= Len(segment.items)
    /\ carried.pending # <<>> => Dates(segment.opened, Pending)
    /\ segment.items # <<>> =>
         /\ slipped \/ segment.opened >= Age[1]
         /\ kind = "debounce" => segment.opened <= since
    /\ segment.first_at = Never /\ segment.items # <<>> => carried.pending # <<>>
    /\ segment.first_at # Never =>
         Pending < Len(segment.items) /\ Dates(segment.first_at, Pending + 1)
    /\ kind = "debounce" => segment.items # <<>>

FiredClocks ==
  segment.pc = "fired" =>
    /\ segment.opened \in Times
    /\ segment.items # <<>> =>
         Dates(Clock, Len(segment.items)) /\ (slipped \/ Clock >= Age[1])

ClocksKept == Aging /\ Arrivals /\ BootClocks /\ CollectClocks /\ FiredClocks

LEMMA HeldFacts ==
  ASSUME CollectorTypeOK, Collected
  PROVE  /\ Len(out) \in Nat /\ Len(Held) \in Nat /\ Len(segment.items) \in Nat
         /\ Pending \in Nat /\ Len(ages) \in Nat
         /\ Len(ages) = Len(out) + Len(Held)
         /\ \A k \in 1..Len(ages) : ages[k] \in Times
         /\ \A k \in 1..Len(Held) : Age[k] \in Times
         /\ Held # <<>> <=> Len(Held) >= 1
         /\ segment.items # <<>> <=> Len(segment.items) >= 1
         /\ carried.pending # <<>> <=> Pending >= 1
         /\ segment.pc = "boot" => Len(Held) = Pending + Len(segment.items)
         /\ segment.pc # "boot" => Held = segment.items
         /\ segment.pc \in {"boot", "collect", "fired", "closed"}
         /\ segment.pc = "closed" => segment.items = <<>>
  <1>1. /\ out \in Seq(Nat) /\ Held \in Seq(Nat) /\ segment.items \in Seq(Nat)
        /\ carried.pending \in Seq(Nat) /\ ages \in Seq(Times)
    BY SegmentFields DEF CollectorTypeOK
  <1>2. /\ Len(out) \in Nat /\ Len(Held) \in Nat /\ Len(segment.items) \in Nat
        /\ Len(carried.pending) \in Nat /\ Len(ages) \in Nat
        /\ \A k \in 1..Len(ages) : ages[k] \in Times
    BY <1>1
  <1>3. Len(ages) = Len(out) + Len(Held)
    <2>1. Len(out \o Held) = Len(out) + Len(Held)
      BY <1>1, ConcatProperties
    <2>. QED BY <2>1 DEF Collected
  <1>4. \A k \in 1..Len(Held) : Age[k] \in Times
    <2>1. \A k \in 1..Len(Held) : Len(out) + k \in 1..Len(ages)
      BY <1>2, <1>3
    <2>. QED BY <1>2, <2>1 DEF Age
  <1>5. \A s \in Seq(Nat) : s # <<>> <=> Len(s) >= 1
    <2>1. \A s \in Seq(Nat) : Len(s) \in Nat /\ (s = <<>> <=> Len(s) = 0)
      BY EmptySeq
    <2>. QED BY <2>1
  <1>. QED BY <1>1, <1>2, <1>3, <1>4, <1>5, SegmentFields DEF Pending, Collected

LEMMA HeldAges ==
  ASSUME CollectorTypeOK, Collected, Aging
  PROVE  \A j, k \in 1..Len(Held) : j <= k => Age[k] <= Age[j]
  <1>1. /\ Len(out) \in Nat /\ Len(Held) \in Nat
        /\ Len(ages) = Len(out) + Len(Held)
    BY HeldFacts
  <1>2. \A k \in 1..Len(Held) : Len(out) + k \in 1..Len(ages)
    BY <1>1
  <1>3. \A j, k \in 1..Len(Held) : j <= k => Len(out) + j <= Len(out) + k
    BY <1>1
  <1>. QED BY <1>2, <1>3 DEF Aging, Age

LEMMA ClocksStay ==
  ASSUME ClocksKept,
         UNCHANGED <<kind, segment, carried, out, ages, since, slipped>>
  PROVE  ClocksKept'
  <1>2. UNCHANGED <<Held, Clock, Pending>>
    BY DEF Held, Clock, Pending
  <1>3. UNCHANGED Age
    BY <1>2 DEF Age
  <1>4. Aging' /\ Arrivals'
    BY <1>2, <1>3 DEF ClocksKept, Aging, Arrivals
  <1>5. BootClocks'
    BY <1>2, <1>3 DEF ClocksKept, BootClocks, Dates
  <1>6. CollectClocks'
    BY <1>2, <1>3 DEF ClocksKept, CollectClocks, Dates
  <1>7. FiredClocks'
    BY <1>2, <1>3 DEF ClocksKept, FiredClocks, Dates
  <1>. QED BY <1>4, <1>5, <1>6, <1>7 DEF ClocksKept

(* A signal makes the newest item; what was held before keeps its age.     *)
LEMMA SignalClocks ==
  ASSUME CollectorTypeOK, Collected, ClocksKept, NEW i \in Nat, Signal(i),
         UNCHANGED <<settings, out>>
  PROVE  ClocksKept'
  <1>s. kind' = kind /\ out' = out
    BY DEF settings
  <1>1. CASE i \in segment.seen
    <2>1. UNCHANGED <<segment, carried, accepted, ages, since, slipped>>
      BY <1>1, SignalPassedOver DEF held
    <2>. QED BY <1>s, <2>1, ClocksStay
  <1>2. CASE i \notin segment.seen
    <2>. DEFINE n == Len(Held)
    <2>1. /\ Held' = Append(Held, i) /\ ages' = Append(ages, 0)
          /\ since' = (IF Held = <<>> THEN 0 ELSE since)
          /\ slipped' = (slipped /\ Held # <<>>)
          /\ segment'.pc = (IF segment.pc = "closed" THEN "boot" ELSE segment.pc)
          /\ segment'.items = Append(segment.items, i)
          /\ segment'.last_at = 0
          /\ segment'.first_at = (IF segment.items = <<>> THEN 0 ELSE segment.first_at)
          /\ segment.pc # "closed" => segment'.opened = segment.opened
          /\ carried' = (IF segment.pc = "closed" THEN NoPending ELSE carried)
      BY <1>2, SignalTakes
    <2>2. /\ Len(out) \in Nat /\ n \in Nat /\ Len(segment.items) \in Nat
          /\ Pending \in Nat /\ Len(ages) \in Nat /\ Len(ages) = Len(out) + n
          /\ \A k \in 1..n : Age[k] \in Times
          /\ \A k \in 1..Len(ages) : ages[k] \in Times
          /\ Held # <<>> <=> n >= 1
          /\ segment.items # <<>> <=> Len(segment.items) >= 1
          /\ carried.pending # <<>> <=> Pending >= 1
          /\ segment.pc = "boot" => n = Pending + Len(segment.items)
          /\ segment.pc # "boot" => Held = segment.items
          /\ segment.pc \in {"boot", "collect", "fired", "closed"}
          /\ segment.pc = "closed" => segment.items = <<>>
      BY HeldFacts
    <2>3. /\ Len(Held') = n + 1 /\ Len(segment'.items) = Len(segment.items) + 1
          /\ Held' # <<>> /\ segment'.items # <<>>
          /\ Len(ages') = Len(ages) + 1 /\ ages'[Len(ages) + 1] = 0
          /\ \A k \in 1..Len(ages) : ages'[k] = ages[k]
      <3>1. /\ Held \in Seq(Nat) /\ segment.items \in Seq(Nat) /\ ages \in Seq(Times)
            /\ 0 \in Times
        BY SegmentFields, MarkFacts DEF CollectorTypeOK
      <3>2. \A s \in Seq(Nat) : Len(Append(s, i)) = Len(s) + 1 /\ Append(s, i) # <<>>
        BY AppendProperties
      <3>3. /\ Len(Append(ages, 0)) = Len(ages) + 1
            /\ Append(ages, 0)[Len(ages) + 1] = 0
            /\ \A k \in 1..Len(ages) : Append(ages, 0)[k] = ages[k]
        BY <3>1, AppendProperties
      <3>. QED BY <2>1, <3>1, <3>2, <3>3
    <2>4. /\ \A k \in 1..n : Age'[k] = Age[k]
          /\ Age'[n + 1] = 0
      <3>1. \A k \in 1..n : Len(out) + k \in 1..Len(ages)
        BY <2>2
      <3>2. Len(out) + (n + 1) = Len(ages) + 1
        BY <2>2
      <3>3. Age' = [k \in 1..(n + 1) |-> ages'[Len(out) + k]]
        BY <1>s, <2>3 DEF Age
      <3>4. n + 1 \in 1..(n + 1) /\ \A k \in 1..n : k \in 1..(n + 1)
        BY <2>2
      <3>5. Age = [k \in 1..n |-> ages[Len(out) + k]]
        BY DEF Age
      <3>. QED BY <2>3, <3>1, <3>2, <3>3, <3>4, <3>5
    <2>b. slipped \in BOOLEAN
      BY DEF CollectorTypeOK
    <2>t. /\ 0 \in Times /\ Never \notin Times /\ \A t \in Times : t \in Nat
          /\ Held # <<>> => since \in Times
      BY MarkFacts DEF ClocksKept, Arrivals
    <2>5. Aging'
      <3>1. ASSUME NEW a \in 1..(Len(ages) + 1), NEW b \in 1..(Len(ages) + 1), a <= b
            PROVE  ages'[b] <= ages'[a]
        <4>1. CASE b = Len(ages) + 1
          <5>1. ages'[a] \in Nat
            <6>1. a \in 1..Len(ages) \/ a = Len(ages) + 1
              BY <2>2
            <6>. QED BY <2>2, <2>3, <2>t, <6>1
          <5>. QED BY <2>3, <4>1, <5>1
        <4>2. CASE b # Len(ages) + 1
          <5>0. Len(ages) \in Nat
            BY <2>2
          <5>1. a \in 1..Len(ages) /\ b \in 1..Len(ages)
            BY <3>1, <4>2, <5>0
          <5>. QED BY <2>3, <3>1, <5>1 DEF ClocksKept, Aging
        <4>. QED BY <4>1, <4>2
      <3>. QED BY <2>3, <3>1 DEF Aging
    <2>6. since' \in Times /\ (kind = "debounce" => 0 <= since')
      BY <2>1, <2>t
    <2>7. Arrivals'
      BY <2>1, <2>3, <2>4, <2>6 DEF Arrivals
    <2>. HIDE DEF n
    <2>8. BootClocks'
      <3>1. CASE segment.pc = "closed"
        <4>1. /\ carried'.pending = <<>> /\ carried'.first_at = Never
              /\ segment'.first_at = 0 /\ Pending' = 0 /\ n = 0
          BY <2>1, <2>2, <3>1 DEF NoPending, Pending
        <4>2. Age'[Pending' + 1] = 0
          BY <2>4, <4>1
        <4>. QED BY <1>s, <2>3, <2>6, <2>t, <4>1, <4>2 DEF BootClocks, Dates
      <3>2. CASE segment.pc = "boot"
        <4>. USE DEF ClocksKept, BootClocks
        <4>1. carried' = carried /\ Pending' = Pending
          BY <2>1, <3>2 DEF Pending
        <4>2. carried.pending # <<>> =>
                 /\ Age'[Pending] = Age[Pending] /\ Age'[1] = Age[1]
                 /\ since' = since /\ slipped' = slipped
          <5>1. carried.pending # <<>> => Pending \in 1..n /\ 1 \in 1..n
            BY <2>2, <3>2
          <5>. QED BY <2>1, <2>b, <2>2, <2>4, <5>1
        <4>3. carried.pending # <<>> =>
                (Dates(carried.first_at, Pending) /\ (slipped \/ carried.first_at >= Age[1]))'
          BY <1>s, <3>2, <4>1, <4>2 DEF Dates
        <4>4. Dates(segment.first_at, Pending + 1)'
          <5>1. CASE segment.items = <<>>
            <6>1. Pending + 1 = n + 1
              BY <2>2, <3>2, <5>1
            <6>. QED BY <1>s, <2>1, <2>4, <2>6, <2>t, <4>1, <5>1, <6>1 DEF Dates
          <5>2. CASE segment.items # <<>>
            <6>1. Pending + 1 \in 1..n
              BY <2>2, <3>2, <5>2
            <6>2. Dates(segment.first_at, Pending + 1)
              BY <3>2, <5>2
            <6>. QED BY <1>s, <2>1, <2>2, <2>4, <4>1, <5>2, <6>1, <6>2 DEF Dates
          <5>. QED BY <5>1, <5>2
        <4>. QED BY <2>3, <3>2, <4>1, <4>3, <4>4
      <3>3. CASE segment.pc \in {"collect", "fired"}
        BY <2>1, <3>3 DEF BootClocks
      <3>. QED BY <2>2, <3>1, <3>2, <3>3
    <2>9. CollectClocks'
      <3>. SUFFICES ASSUME segment.pc = "collect" PROVE CollectClocks'
        BY <2>1 DEF CollectClocks
      <3>1. /\ Held = segment.items /\ n = Len(segment.items)
            /\ carried' = carried /\ Pending' = Pending
            /\ segment'.opened = segment.opened
        BY <2>1, <2>2 DEF Pending, n
      <3>2. /\ segment.opened \in Times /\ Pending <= n
            /\ carried.pending # <<>> => Dates(segment.opened, Pending)
            /\ n >= 1 => /\ slipped \/ segment.opened >= Age[1]
                         /\ kind = "debounce" => segment.opened <= since
            /\ segment.first_at = Never /\ n >= 1 => Pending >= 1
            /\ segment.first_at # Never =>
                 Pending < n /\ Dates(segment.first_at, Pending + 1)
            /\ kind = "debounce" => n >= 1
        BY <2>2, <3>1 DEF ClocksKept, CollectClocks
      <3>3. CASE segment.items = <<>>
        <4>1. /\ n = 0 /\ Pending = 0 /\ kind # "debounce" /\ segment'.first_at = 0
              /\ Age'[1] = 0 /\ Len(segment'.items) = 1
          BY <2>1, <2>2, <2>3, <2>4, <3>1, <3>2, <3>3
        <4>. QED BY <1>s, <2>2, <2>3, <2>t, <3>1, <3>2, <4>1
             DEF CollectClocks, Dates
      <3>4. CASE segment.items # <<>>
        <4>1. /\ n >= 1 /\ since' = since /\ slipped' = slipped
              /\ segment'.first_at = segment.first_at /\ Age'[1] = Age[1]
              /\ Len(segment'.items) = n + 1
              /\ Pending >= 1 => Age'[Pending] = Age[Pending]
              /\ Pending < n => Age'[Pending + 1] = Age[Pending + 1]
          <5>1. /\ n >= 1 /\ 1 \in 1..n /\ (Pending >= 1 => Pending \in 1..n)
                /\ (Pending < n => Pending + 1 \in 1..n)
            BY <2>2, <3>1, <3>2, <3>4
          <5>. QED BY <2>1, <2>b, <2>3, <2>4, <3>1, <3>4, <5>1
        <4>2. carried.pending # <<>> => Dates(segment.opened, Pending)'
          BY <1>s, <2>2, <3>1, <3>2, <4>1 DEF Dates
        <4>3. segment.first_at # Never =>
                Pending < n /\ Dates(segment.first_at, Pending + 1)'
          BY <1>s, <3>1, <3>2, <4>1 DEF Dates
        <4>4. Pending < n => Pending < n + 1
          BY <2>2
        <4>5. Pending <= n + 1
          BY <2>2, <3>2
        <4>. QED BY <1>s, <2>2, <2>3, <3>1, <3>2, <4>1, <4>2, <4>3, <4>4, <4>5
             DEF CollectClocks
      <3>. QED BY <3>3, <3>4
    <2>10. FiredClocks'
      <3>. SUFFICES ASSUME segment.pc = "fired" PROVE FiredClocks'
        BY <2>1 DEF FiredClocks
      <3>1. /\ Held = segment.items /\ n = Len(segment.items)
            /\ segment'.opened = segment.opened /\ Len(segment'.items) = n + 1
            /\ segment.opened \in Times /\ Age'[n + 1] = 0
        BY <2>1, <2>2, <2>3, <2>4 DEF n, ClocksKept, FiredClocks
      <3>2. CASE segment.items = <<>>
        <4>1. Clock' = 0 /\ n = 0
          BY <2>1, <2>2, <2>t, <3>1, <3>2 DEF Clock, Else
        <4>. QED BY <1>s, <2>t, <2>6, <3>1, <4>1 DEF FiredClocks, Dates
      <3>3. CASE segment.items # <<>>
        <4>1. /\ since' = since /\ slipped' = slipped /\ Clock' = Clock
              /\ n >= 1 /\ Age'[1] = Age[1]
          <5>1. n >= 1 /\ 1 \in 1..n
            BY <2>2, <3>1, <3>3
          <5>. QED BY <2>1, <2>b, <2>4, <3>1, <3>3, <5>1 DEF Clock
        <4>2. Dates(Clock, n) /\ (slipped \/ Clock >= Age[1])
          BY <3>1, <3>3 DEF ClocksKept, FiredClocks
        <4>3. Clock >= 0
          BY <2>t, <4>2 DEF Dates
        <4>. QED BY <1>s, <3>1, <4>1, <4>2, <4>3 DEF FiredClocks, Dates
      <3>. QED BY <3>2, <3>3
    <2>. QED BY <2>5, <2>7, <2>8, <2>9, <2>10 DEF ClocksKept
  <1>. QED BY <1>1, <1>2

(* Time ages every clock and every item by as much.                        *)
LEMMA TimeClocks ==
  ASSUME CollectorTypeOK, Collected, ClocksKept, TimePasses
  PROVE  ClocksKept'
  <1>1. /\ segment'.pc = segment.pc /\ segment'.items = segment.items
        /\ segment'.first_at = Older(segment.first_at)
        /\ segment'.last_at = Older(segment.last_at)
        /\ segment'.opened = Older(segment.opened)
        /\ carried'.pending = carried.pending
        /\ carried'.first_at = Older(carried.first_at)
        /\ carried'.last_at = Older(carried.last_at)
        /\ Held' = Held /\ Len(ages') = Len(ages)
        /\ \A k \in 1..Len(ages) : ages'[k] = Older(ages[k])
        /\ since' = Older(since)
        /\ UNCHANGED <<kind, window, out, slipped>>
    BY TimeTypes
  <1>2. /\ Len(out) \in Nat /\ Len(Held) \in Nat /\ Len(segment.items) \in Nat
        /\ Pending \in Nat /\ Len(ages) = Len(out) + Len(Held)
        /\ \A k \in 1..Len(ages) : ages[k] \in Times
        /\ \A k \in 1..Len(Held) : Age[k] \in Times
        /\ Held # <<>> <=> Len(Held) >= 1
        /\ segment.items # <<>> <=> Len(segment.items) >= 1
        /\ carried.pending # <<>> <=> Pending >= 1
        /\ segment.pc = "boot" => Len(Held) = Pending + Len(segment.items)
        /\ segment.pc # "boot" => Held = segment.items
        /\ segment.pc = "closed" => segment.items = <<>>
    BY HeldFacts
  <1>3. /\ \A t \in Times : t \in Nat /\ Older(t) \in Times
        /\ \A s, t \in Times : s <= t => Older(s) <= Older(t)
        /\ Older(Never) = Never /\ Never \notin Times
        /\ \A t \in Marks : (Older(t) = Never <=> t = Never)
    BY MarkFacts DEF Marks
  <1>m. segment.first_at \in Marks /\ carried.first_at \in Marks
    BY SegmentFields
  <1>4. \A k \in 1..Len(Held) : Age'[k] = Older(Age[k])
    <2>1. \A k \in 1..Len(Held) : Len(out) + k \in 1..Len(ages)
      BY <1>2
    <2>. QED BY <1>1, <2>1 DEF Age
  <1>5. Pending' = Pending
    BY <1>1 DEF Pending
  <1>6. Clock' = Older(Clock)
    BY <1>1, <1>3, <1>m DEF Clock, Else
  <1>7. /\ segment.pc = "boot" /\ segment.items # <<>> => Pending + 1 \in 1..Len(Held)
        /\ segment.pc = "boot" /\ carried.pending # <<>> => Pending \in 1..Len(Held)
        /\ Held # <<>> => 1 \in 1..Len(Held) /\ Len(Held) \in 1..Len(Held)
        /\ segment.pc = "boot" /\ carried.pending # <<>> => Held # <<>>
        /\ segment.items # <<>> => Held # <<>>
    BY <1>2
  (* A date of an item held stays one.                                     *)
  <1>8. \A t \in Times, k \in 1..Len(Held) :
          t >= Age[k] => Older(t) \in Times /\ Older(t) >= Age'[k]
    BY <1>2, <1>3, <1>4
  <1>9. \A t \in Times : Held # <<>> /\ t <= since => Older(t) <= since'
    BY <1>1, <1>3 DEF ClocksKept, Arrivals
  <1>10. Aging'
    BY <1>1, <1>2, <1>3 DEF ClocksKept, Aging
  <1>11. Arrivals'
    BY <1>1, <1>2, <1>3, <1>4, <1>7 DEF ClocksKept, Arrivals
  <1>12. BootClocks'
    <2>. SUFFICES ASSUME segment.pc = "boot" PROVE BootClocks'
      BY <1>1 DEF BootClocks
    <2>1. carried.pending # <<>> =>
            (Dates(carried.first_at, Pending)
               /\ (slipped \/ carried.first_at >= Age[1]))'
      BY <1>1, <1>5, <1>7, <1>8, <1>9 DEF ClocksKept, BootClocks, Dates
    <2>2. segment.items # <<>> => Dates(segment.first_at, Pending + 1)'
      BY <1>1, <1>5, <1>7, <1>8, <1>9 DEF ClocksKept, BootClocks, Dates
    <2>3. carried.pending # <<>> /\ segment.items = <<>> =>
            carried'.last_at = Age'[Pending]
      BY <1>1, <1>4, <1>7 DEF ClocksKept, BootClocks
    <2>. QED BY <1>1, <1>3, <1>5, <2>1, <2>2, <2>3 DEF ClocksKept, BootClocks
  <1>13. CollectClocks'
    <2>. SUFFICES ASSUME segment.pc = "collect" PROVE CollectClocks'
      BY <1>1 DEF CollectClocks
    <2>1. /\ Held = segment.items
          /\ segment.opened \in Times /\ Pending <= Len(segment.items)
          /\ carried.pending # <<>> => Dates(segment.opened, Pending)
          /\ segment.first_at # Never =>
               Pending < Len(segment.items) /\ Dates(segment.first_at, Pending + 1)
          /\ segment.items # <<>> =>
               /\ slipped \/ segment.opened >= Age[1]
               /\ kind = "debounce" => segment.opened <= since
          /\ segment.first_at = Never /\ segment.items # <<>> => carried.pending # <<>>
          /\ kind = "debounce" => segment.items # <<>>
      BY <1>2 DEF ClocksKept, CollectClocks
    <2>2. /\ carried.pending # <<>> => Pending \in 1..Len(Held) /\ Held # <<>>
          /\ Pending < Len(segment.items) => Pending + 1 \in 1..Len(Held) /\ Held # <<>>
      BY <1>2, <2>1
    <2>3. carried.pending # <<>> => Dates(segment.opened, Pending)'
      BY <1>1, <1>5, <1>8, <1>9, <2>1, <2>2 DEF Dates
    <2>4. segment.first_at # Never => Dates(segment.first_at, Pending + 1)'
      BY <1>1, <1>5, <1>8, <1>9, <2>1, <2>2 DEF Dates
    <2>5. segment.items # <<>> =>
               /\ slipped \/ segment'.opened >= Age'[1]
               /\ kind = "debounce" => segment'.opened <= since'
      BY <1>1, <1>7, <1>8, <1>9, <2>1
    <2>6. segment'.opened \in Times /\ (segment'.first_at = Never <=> segment.first_at = Never)
      BY <1>1, <1>3, <1>m, <2>1
    <2>. QED BY <1>1, <1>5, <2>1, <2>3, <2>4, <2>5, <2>6 DEF CollectClocks
  <1>14. FiredClocks'
    <2>. SUFFICES ASSUME segment.pc = "fired" PROVE FiredClocks'
      BY <1>1 DEF FiredClocks
    <2>1. segment.items # <<>> =>
            (Dates(Clock, Len(segment.items)) /\ (slipped \/ Clock >= Age[1]))'
      BY <1>1, <1>2, <1>6, <1>7, <1>8, <1>9 DEF ClocksKept, FiredClocks, Dates
    <2>. QED BY <1>1, <1>3, <2>1 DEF ClocksKept, FiredClocks
  <1>. QED BY <1>10, <1>11, <1>12, <1>13, <1>14 DEF ClocksKept

(* run() takes the carried clock, or else that of its own first item.      *)
LEMMA BootTakesClocks ==
  ASSUME CollectorTypeOK, Collected, ClocksKept, TakeCarried
  PROVE  ClocksKept'
  <1>. DEFINE items == carried.pending \o segment.items
              opened == Else(carried.first_at, Else(segment.first_at, 0))
              last == IF items = <<>> THEN segment.last_at
                      ELSE Else(segment.last_at, Else(carried.last_at, opened))
  <1>1. /\ segment.pc = "boot" /\ Held = items
        /\ segment'.pc = "collect" /\ segment'.items = items
        /\ segment'.opened = opened /\ segment'.last_at = last
        /\ segment'.first_at = segment.first_at
        /\ UNCHANGED <<kind, carried, out, ages, since, slipped>>
    BY DEF TakeCarried, CollectorTypeOK, SegmentRecord, Held, settings, asked, held
  <1>2. /\ Len(Held) \in Nat /\ Len(segment.items) \in Nat /\ Pending \in Nat
        /\ \A k \in 1..Len(Held) : Age[k] \in Times
        /\ Held # <<>> <=> Len(Held) >= 1
        /\ segment.items # <<>> <=> Len(segment.items) >= 1
        /\ carried.pending # <<>> <=> Pending >= 1
        /\ Len(Held) = Pending + Len(segment.items)
    BY <1>1, HeldFacts
  <1>3. Never \notin Times /\ 0 \in Times /\ \A t \in Times : t \in Nat
    BY MarkFacts
  <1>. HIDE DEF items, opened, last
  <1>4. Held' = Held /\ Pending' = Pending
    BY <1>1 DEF Held, Pending
  <1>5. Age' = Age
    BY <1>1, <1>4 DEF Age
  <1>6. /\ carried.pending # <<>> => opened = carried.first_at
        /\ carried.pending = <<>> =>
             opened = IF segment.items = <<>> THEN 0 ELSE segment.first_at
    BY <1>1, <1>3 DEF opened, Else, ClocksKept, BootClocks, Arrivals, Dates
  <1>7. items # <<>> => last = Age[Len(Held)]
    <2>1. CASE segment.items # <<>>
      <3>1. Len(Held) \in 1..Len(Held)
        BY <1>2, <2>1
      <3>. QED BY <1>2, <1>3, <2>1, <3>1 DEF last, Else, ClocksKept, Arrivals
    <2>2. CASE segment.items = <<>> /\ carried.pending # <<>>
      <3>1. Len(Held) = Pending /\ Pending \in 1..Len(Held)
        BY <1>2, <2>2
      <3>. QED BY <1>1, <1>2, <1>3, <2>2, <3>1
           DEF last, Else, ClocksKept, Arrivals, BootClocks
    <2>3. CASE segment.items = <<>> /\ carried.pending = <<>>
      BY <1>1, <1>2, <2>3
    <2>. QED BY <2>1, <2>2, <2>3
  <1>8. Aging'
    BY <1>1 DEF ClocksKept, Aging
  <1>9. Arrivals'
    <2>1. items = <<>> => segment.items = <<>>
      BY <1>1, <1>2
    <2>2. items = <<>> => last = segment.last_at
      BY DEF last
    <2>. QED BY <1>1, <1>4, <1>5, <1>7, <2>1, <2>2 DEF ClocksKept, Arrivals
  <1>10. CollectClocks'
    <2>1. opened \in Times /\ Pending <= Len(items)
      BY <1>1, <1>2, <1>3, <1>6 DEF ClocksKept, BootClocks, Dates
    <2>2. carried.pending # <<>> => Dates(segment.opened, Pending)'
      BY <1>1, <1>4, <1>5, <1>6 DEF ClocksKept, BootClocks, Dates
    <2>3. items # <<>> =>
            /\ slipped \/ opened >= Age[1]
            /\ kind = "debounce" => opened <= since
      <3>1. CASE carried.pending # <<>>
        BY <1>1, <1>6, <3>1 DEF ClocksKept, BootClocks, Dates
      <3>2. CASE carried.pending = <<>> /\ segment.items # <<>>
        <4>1. Pending + 1 = 1
          BY <1>2, <3>2
        <4>. QED BY <1>1, <1>6, <3>2, <4>1 DEF ClocksKept, BootClocks, Dates
      <3>3. CASE carried.pending = <<>> /\ segment.items = <<>>
        BY <1>1, <1>2, <3>3
      <3>. QED BY <3>1, <3>2, <3>3
    <2>4. segment.first_at # Never =>
            Pending < Len(items) /\ Dates(segment.first_at, Pending + 1)'
      <3>1. segment.first_at # Never => segment.items # <<>>
        BY DEF ClocksKept, Arrivals
      <3>2. segment.items # <<>> => Pending < Len(items)
        BY <1>1, <1>2
      <3>. QED BY <1>1, <1>4, <1>5, <3>1, <3>2 DEF ClocksKept, BootClocks, Dates
    <2>5. segment.first_at = Never /\ items # <<>> => carried.pending # <<>>
      <3>1. segment.first_at = Never => segment.items = <<>>
        BY <1>1, <1>3 DEF ClocksKept, BootClocks, Dates
      <3>. QED BY <1>1, <1>2, <3>1
    <2>6. kind = "debounce" => items # <<>>
      BY <1>1 DEF ClocksKept, BootClocks
    <2>. QED BY <1>1, <1>4, <1>5, <2>1, <2>2, <2>3, <2>4, <2>5, <2>6 DEF CollectClocks
  <1>. QED BY <1>1, <1>8, <1>9, <1>10 DEF ClocksKept, BootClocks, FiredClocks

(* A surplus has the clock of the segment's own first item, or else the    *)
(* carried one: no younger than its newest item, and no younger than its   *)
(* oldest unless that one was carried and the clock is not.                *)
LEMMA FireLeavesClocks ==
  ASSUME CollectorTypeOK, Collected, ClocksKept, FireBatch
  PROVE  ClocksKept'
  <1>. DEFINE n == Len(segment.items)
              rest == n - Cap
  <1>1. /\ Cap \in Nat /\ 1 <= Cap /\ Cap <= n
        /\ Len(segment'.items) = rest /\ Len(out') = Len(out) + Cap
        /\ segment.pc = "collect" /\ segment'.pc = "fired"
        /\ segment'.items \in Seq(Nat) /\ Held' = segment'.items
        /\ segment'.opened = segment.opened
        /\ segment'.first_at = (IF segment'.items = <<>> THEN Never
                                ELSE segment.first_at)
        /\ segment'.last_at = (IF segment'.items = <<>> THEN Never
                               ELSE segment.last_at)
        /\ slipped' = ((slipped \/ segment.first_at # Never) /\ Cap < Pending)
        /\ UNCHANGED <<kind, carried, ages, since>>
    BY BatchOf DEF Pending, Held
  <1>2. /\ n \in Nat /\ Pending \in Nat /\ Held = segment.items /\ Len(Held) = n
        /\ Len(out) \in Nat /\ segment.items # <<>> /\ Held # <<>>
        /\ carried.pending # <<>> <=> Pending >= 1
        /\ \A k \in 1..n : Age[k] \in Times
    <2>1. n >= 1
      BY <1>1, HeldFacts
    <2>. QED BY <1>1, <2>1, HeldFacts
  <1>3. /\ Never \notin Times /\ \A t \in Times : t \in Nat
        /\ segment.first_at \in Marks
    BY MarkFacts, SegmentFields
  <1>r. rest \in Nat /\ (segment'.items # <<>> <=> rest >= 1)
        /\ \A k \in 1..rest : Cap + k \in 1..n
    <2>1. rest \in Nat /\ \A k \in 1..rest : Cap + k \in 1..n
      BY <1>1, <1>2
    <2>2. segment'.items = <<>> <=> Len(segment'.items) = 0
      BY <1>1, EmptySeq
    <2>. QED BY <1>1, <2>1, <2>2
  <1>. HIDE DEF n, rest
  <1>4. \A k \in 1..rest : Age'[k] = Age[Cap + k]
    <2>1. \A k \in 1..rest : Len(out') + k = Len(out) + (Cap + k)
      BY <1>1, <1>2, <1>r
    <2>. QED BY <1>1, <1>2, <1>r, <2>1 DEF Age
  <1>5. \A j, k \in 1..n : j <= k => Age[k] <= Age[j]
    BY <1>2, HeldAges DEF ClocksKept
  <1>6. Aging'
    BY <1>1 DEF ClocksKept, Aging
  <1>7. Cap + rest = n
    BY <1>1, <1>2 DEF rest
  <1>8. segment'.items # <<>> =>
          /\ 1 \in 1..rest /\ rest \in 1..rest
          /\ Age'[1] = Age[Cap + 1] /\ Age'[rest] = Age[n]
          /\ Cap + 1 \in 1..n /\ n \in 1..n /\ 1 \in 1..n
    <2>1. segment'.items # <<>> => 1 \in 1..rest /\ rest \in 1..rest
      BY <1>r
    <2>2. segment'.items # <<>> => Cap + 1 \in 1..n /\ n \in 1..n /\ 1 \in 1..n
      BY <1>1, <1>2, <1>r, <2>1
    <2>. QED BY <1>4, <1>7, <2>1, <2>2
  <1>9. Arrivals'
    BY <1>1, <1>2, <1>8 DEF ClocksKept, Arrivals
  <1>10. FiredClocks'
    <2>1. /\ segment.opened \in Times /\ Pending <= n
          /\ carried.pending # <<>> => Dates(segment.opened, Pending)
          /\ slipped \/ segment.opened >= Age[1]
          /\ kind = "debounce" => segment.opened <= since
          /\ segment.first_at = Never => carried.pending # <<>>
          /\ segment.first_at # Never =>
               Pending < n /\ Dates(segment.first_at, Pending + 1)
      BY <1>1, <1>2 DEF ClocksKept, CollectClocks, n
    <2>. SUFFICES ASSUME segment'.items # <<>> PROVE FiredClocks'
      BY <1>1, <2>1 DEF FiredClocks
    <2>2. Clock' = Clock
      BY <1>1 DEF Clock
    <2>3. CASE segment.first_at # Never
      <3>1. Clock = segment.first_at /\ Pending + 1 \in 1..n
        BY <1>2, <2>1, <2>3 DEF Clock, Else
      <3>2. Clock \in Times /\ Clock >= Age[Pending + 1]
            /\ (kind = "debounce" => Clock <= since)
        BY <2>1, <2>3, <3>1 DEF Dates
      <3>3. Clock >= Age[n]
        <4>1. Age[n] <= Age[Pending + 1]
          BY <1>2, <1>5, <1>8, <2>1, <2>3, <3>1
        <4>. QED BY <1>2, <1>3, <1>8, <3>1, <3>2, <4>1
      <3>4. slipped' \/ Clock >= Age[Cap + 1]
        <4>0. ~ slipped' => ~ (Cap < Pending)
          BY <1>1, <2>3
        <4>1. ~ slipped' => Pending + 1 <= Cap + 1
          BY <1>1, <1>2, <4>0
        <4>2. ~ slipped' => Age[Cap + 1] <= Age[Pending + 1]
          BY <1>5, <1>8, <3>1, <4>1
        <4>. QED BY <1>2, <1>3, <1>8, <3>1, <3>2, <4>2
      <3>. QED BY <1>1, <1>8, <2>1, <2>2, <3>2, <3>3, <3>4 DEF FiredClocks, Dates
    <2>4. CASE segment.first_at = Never
      <3>1. Clock = segment.opened /\ Pending \in 1..n
        BY <1>2, <2>1, <2>4 DEF Clock, Else
      <3>2. Clock \in Times /\ Clock >= Age[Pending]
            /\ (kind = "debounce" => Clock <= since)
        BY <2>1, <2>4, <3>1 DEF Dates
      <3>3. Clock >= Age[n]
        <4>1. Age[n] <= Age[Pending]
          BY <1>2, <1>5, <1>8, <2>1, <3>1
        <4>. QED BY <1>2, <1>3, <1>8, <3>1, <3>2, <4>1
      <3>4. slipped' \/ Clock >= Age[Cap + 1]
        <4>1. CASE Cap < Pending
          <5>1. slipped' \/ Clock >= Age[1]
            BY <1>1, <2>1, <2>4, <3>1, <4>1
          <5>2. Age[Cap + 1] <= Age[1]
            BY <1>1, <1>5, <1>8
          <5>. QED BY <1>2, <1>3, <1>8, <3>2, <5>1, <5>2
        <4>2. CASE ~ (Cap < Pending)
          <5>1. Age[Cap + 1] <= Age[Pending]
            <6>1. Pending <= Cap + 1
              BY <1>1, <1>2, <4>2
            <6>. QED BY <1>5, <1>8, <3>1, <6>1
          <5>. QED BY <1>2, <1>3, <1>8, <3>1, <3>2, <5>1
        <4>. QED BY <4>1, <4>2
      <3>. QED BY <1>1, <1>8, <2>1, <2>2, <3>2, <3>3, <3>4 DEF FiredClocks, Dates
    <2>. QED BY <2>3, <2>4
  <1>. QED BY <1>1, <1>6, <1>9, <1>10 DEF ClocksKept, BootClocks, CollectClocks

LEMMA HandOverClocks ==
  ASSUME CollectorTypeOK, Collected, ClocksKept, BatchHandedOver
  PROVE  ClocksKept'
  <1>1. /\ segment.pc = "fired" /\ Held = segment.items
        /\ UNCHANGED <<kind, out, ages, since, slipped>>
    BY HeldFacts DEF BatchHandedOver, settings, held
  <1>2. CASE kind = "debounce" /\ segment.items = <<>>
    <2>1. /\ segment'.pc = "closed" /\ segment'.items = <<>>
          /\ segment'.first_at = Never /\ segment'.last_at = Never
      BY <1>2 DEF BatchHandedOver, Fresh
    <2>2. Held' = <<>>
      BY <2>1 DEF Held
    <2>. QED BY <1>1, <2>1, <2>2 DEF ClocksKept, Aging, Arrivals, BootClocks,
         CollectClocks, FiredClocks
  <1>3. CASE ~ (kind = "debounce" /\ segment.items = <<>>)
    <2>1. /\ segment'.pc = "boot" /\ segment'.items = <<>>
          /\ segment'.first_at = Never /\ segment'.last_at = Never
          /\ carried'.pending = segment.items
          /\ carried'.first_at = (IF segment.items = <<>> THEN Never ELSE Clock)
          /\ carried'.last_at = segment.last_at
      BY <1>3 DEF BatchHandedOver, Fresh, CarriedOver, Clock
    <2>2. Held' = Held
      <3>1. segment.items \o <<>> = segment.items
        BY SegmentFields, ConcatEmptySeq
      <3>. QED BY <1>1, <2>1, <3>1 DEF Held
    <2>3. Age' = Age /\ Pending' = Len(segment.items)
      BY <1>1, <2>1, <2>2 DEF Age, Pending
    <2>4. Aging' /\ Arrivals'
      BY <1>1, <2>1, <2>2 DEF ClocksKept, Aging, Arrivals
    <2>5. segment.items # <<>> =>
            /\ Dates(Clock, Len(segment.items)) /\ (slipped \/ Clock >= Age[1])
            /\ segment.last_at = Age[Len(segment.items)]
      BY <1>1 DEF ClocksKept, FiredClocks, Arrivals
    <2>6. BootClocks'
      BY <1>1, <1>3, <2>1, <2>2, <2>3, <2>5 DEF BootClocks, Dates
    <2>. QED BY <2>1, <2>4, <2>6 DEF ClocksKept, CollectClocks, FiredClocks
  <1>. QED BY <1>2, <1>3

LEMMA NextClocks ==
  ASSUME CollectorTypeOK, Collected, ClocksKept, [CollectorNext]_collectorVars
  PROVE  ClocksKept'
  <1>1. CASE SubmitItem \/ RepeatSubmit
    <2>1. PICK i : /\ Signal(i) /\ submitted' \in Nat
                   /\ 1..submitted' = (1..submitted) \union {i}
                   /\ UNCHANGED <<kind, window, out>>
      BY <1>1, SubmissionTaken
    <2>2. i \in Nat
      <3>1. i \in 1..submitted'
        BY <2>1
      <3>. QED BY <2>1, <3>1
    <2>. QED BY <2>1, <2>2, SignalClocks DEF settings
  <1>2. CASE TakeCarried
    BY <1>2, BootTakesClocks
  <1>3. CASE FireBatch
    BY <1>3, FireLeavesClocks
  <1>4. CASE BatchHandedOver
    BY <1>4, HandOverClocks
  <1>5. CASE BatchFlowFails
    <2>1. /\ segment'.pc = "closed" /\ segment'.items = <<>>
          /\ segment'.first_at = Never /\ segment'.last_at = Never
          /\ UNCHANGED ages
      BY <1>5 DEF BatchFlowFails, Fresh, held
    <2>2. Held' = <<>>
      BY <2>1 DEF Held
    <2>. QED BY <2>1, <2>2 DEF ClocksKept, Aging, Arrivals, BootClocks,
         CollectClocks, FiredClocks
  <1>6. CASE UNCHANGED <<settings, segment, carried, asked, out, held>>
    BY <1>6, ClocksStay DEF settings, held
  <1>7. CASE \E p \in DOMAIN polls : PollSteps(p)
    BY <1>6, <1>7 DEF PollSteps, SubmitBatch, PollBatch, FetchBatchResults,
       RouteResult, PollTo
  <1>8. CASE TimePasses
    BY <1>8, TimeClocks
  <1>9. CASE UNCHANGED collectorVars
    BY <1>6, <1>9 DEF collectorVars
  <1>. QED BY <1>1, <1>2, <1>3, <1>4, <1>5, <1>7, <1>8, <1>9
       DEF CollectorNext, CollectorSteps

LEMMA InitClocks == CollectorInit => ClocksKept
  <1>. SUFFICES ASSUME CollectorInit PROVE ClocksKept
    OBVIOUS
  <1>1. /\ segment.pc = "closed" /\ segment.items = <<>> /\ ages = <<>>
        /\ segment.first_at = Never /\ segment.last_at = Never
    BY DEF CollectorInit, Fresh
  <1>2. Held = <<>>
    BY <1>1 DEF Held
  <1>. QED BY <1>1, <1>2 DEF ClocksKept, Aging, Arrivals, BootClocks, CollectClocks,
       FiredClocks

LEMMA WindowNumbers ==
  ASSUME CollectorTypeOK
  PROVE  /\ window.quiet \in Nat
         /\ window.items # NoBound => window.items \in Nat
         /\ window.wait # NoBound => window.wait \in Nat
  BY CollectorAssumption DEF CollectorTypeOK

(* The newest item held is the last that was taken.                        *)
LEMMA NewestHeld ==
  ASSUME CollectorTypeOK, Collected, Held # <<>>
  PROVE  /\ Last(ages) = Age[Len(Held)] /\ ages[Len(out) + 1] = Age[1]
         /\ Age[Len(Held)] \in Nat /\ Age[1] \in Nat
  <1>1. /\ Len(out) \in Nat /\ Len(Held) \in Nat /\ Len(Held) >= 1
        /\ Len(ages) = Len(out) + Len(Held)
        /\ \A k \in 1..Len(Held) : Age[k] \in Times
    BY HeldFacts
  <1>2. 1 \in 1..Len(Held) /\ Len(Held) \in 1..Len(Held)
    BY <1>1
  <1>. QED BY <1>1, <1>2, MarkFacts DEF Age, Last

LEMMA OpenIsTimely ==
  ASSUME CollectorTypeOK, Collected, ClocksKept
  PROVE  NeverLate
  <1>. SUFFICES ASSUME segment.pc = "collect", Held # <<>>, ~ evaluate
                PROVE  /\ window.items = NoBound \/ Len(Held) < window.items
                       /\ Last(ages) < window.quiet
                       /\ window.wait = NoBound \/ slipped
                            \/ ages[Len(out) + 1] < window.wait
    BY DEF NeverLate
  <1>1. /\ Held = segment.items /\ Len(Held) \in Nat
        /\ segment.last_at = Age[Len(Held)] /\ segment.opened \in Times
        /\ slipped \/ segment.opened >= Age[1]
    BY HeldFacts DEF ClocksKept, Arrivals, CollectClocks
  <1>2. /\ window.items = NoBound \/ ~ (Len(Held) >= window.items)
        /\ ~ (segment.last_at >= window.quiet)
        /\ window.wait = NoBound \/ ~ (segment.opened >= window.wait)
    BY <1>1 DEF evaluate
  <1>3. /\ Last(ages) = Age[Len(Held)] /\ ages[Len(out) + 1] = Age[1]
        /\ Age[Len(Held)] \in Nat /\ Age[1] \in Nat
    BY NewestHeld
  <1>4. segment.opened \in Nat
    BY <1>1, MarkFacts
  <1>. QED BY <1>1, <1>2, <1>3, <1>4, WindowNumbers

LEMMA FiresForAReason ==
  ASSUME CollectorTypeOK, Collected, ClocksKept, FireBatch
  PROVE  NeverEarly
  <1>1. /\ Cap \in Nat /\ 1 <= Cap
        /\ window.items # NoBound => window.items \in Nat /\ Cap <= window.items
        /\ Len(out') = Len(out) + Cap /\ segment.pc = "collect"
    BY BatchOf
  <1>2. Len(out) \in Nat /\ Held = segment.items
    BY <1>1, HeldFacts
  <1>3. out' # out
    <2>1. Len(out') # Len(out)
      BY <1>1, <1>2
    <2>. QED BY <2>1
  <1>4. window.items # NoBound => Len(out') - Len(out) <= window.items
    BY <1>1, <1>2
  <1>5. /\ segment.items # <<>> /\ segment.last_at = Age[Len(Held)]
        /\ segment.opened \in Times
        /\ kind = "debounce" => segment.opened <= since
        /\ kind = "debounce" => since \in Times
    BY <1>1, <1>2 DEF FireBatch, evaluate, ClocksKept, Arrivals, CollectClocks
  <1>6. Last(ages) = Age[Len(Held)]
    BY <1>2, <1>5, NewestHeld
  <1>7. \/ window.items # NoBound /\ Len(Held) >= window.items
        \/ Last(ages) >= window.quiet
        \/ window.wait # NoBound /\ segment.opened >= window.wait
    BY <1>2, <1>5, <1>6 DEF FireBatch, evaluate
  <1>8. kind = "batch" \/ kind = "debounce"
    BY DEF CollectorTypeOK
  <1>9. window.wait # NoBound /\ segment.opened >= window.wait
          => kind = "batch" \/ since >= window.wait
    BY <1>5, <1>8, MarkFacts, WindowNumbers
  <1>. QED BY <1>3, <1>4, <1>7, <1>9 DEF NeverEarly

LEMMA StepsKeepTheWindow ==
  ASSUME CollectorTypeOK, Collected, ClocksKept, [CollectorNext]_collectorVars
  PROVE  NeverEarly
  <1>. SUFFICES ASSUME segment.pc = "collect", segment'.pc = "fired"
                PROVE  NeverEarly
    BY DEF NeverEarly
  <1>1. CASE SubmitItem \/ RepeatSubmit
    <2>1. PICK i : /\ Signal(i) /\ submitted' \in Nat
                   /\ 1..submitted' = (1..submitted) \union {i}
                   /\ UNCHANGED <<kind, window, out>>
      BY <1>1, SubmissionTaken
    <2>2. segment' = segment \/ segment' = Signalled(segment, i)
      BY <2>1 DEF Signal
    <2>3. segment'.pc = segment.pc
      BY <2>2 DEF Signalled, CollectorTypeOK, SegmentRecord
    <2>. QED BY <2>3
  <1>2. CASE CollectorSteps
    <2>1. CASE FireBatch
      BY <2>1, FiresForAReason
    <2>2. CASE TakeCarried \/ BatchHandedOver \/ BatchFlowFails
      BY <2>2 DEF TakeCarried, BatchHandedOver, BatchFlowFails
    <2>. QED BY <1>2, <2>1, <2>2 DEF CollectorSteps
  <1>3. CASE UNCHANGED segment
    BY <1>3
  <1>4. CASE \E p \in DOMAIN polls : PollSteps(p)
    BY <1>3, <1>4 DEF PollSteps, SubmitBatch, PollBatch, FetchBatchResults,
       RouteResult, PollTo
  <1>5. CASE TimePasses
    BY <1>5, TimeTypes
  <1>6. CASE UNCHANGED collectorVars
    BY <1>3, <1>6 DEF collectorVars
  <1>. QED BY <1>1, <1>2, <1>4, <1>5, <1>6 DEF CollectorNext

(* A batch is capped and leaves for a reason, and once there is one a      *)
(* collector that collects sees it (WindowKept), for any window, over the  *)
(* segments that its items and their clocks are carried through.           *)
THEOREM WindowsAreKept == CollectorSpec => WindowKept
  <1>1. CollectorInit => CollectorTypeOK /\ Collected /\ ClocksKept
    BY InitCollected, InitClocks
  <1>2. CollectorTypeOK /\ Collected /\ ClocksKept /\ [CollectorNext]_collectorVars
          => CollectorTypeOK' /\ Collected' /\ ClocksKept'
    BY NextCollected, NextClocks
  <1>3. CollectorTypeOK /\ Collected /\ ClocksKept => NeverLate
    BY OpenIsTimely
  <1>4. CollectorTypeOK /\ Collected /\ ClocksKept /\ [CollectorNext]_collectorVars
          => NeverEarly
    BY StepsKeepTheWindow
  <1>. QED BY <1>1, <1>2, <1>3, <1>4, PTL DEF CollectorSpec, WindowKept

-----------------------------------------------------------------------------
(* The coalescer.                                                          *)
CoalescerTypeOK ==
  /\ future \in [Waiters -> {"idle", "waiting", "ok", "error", "canceled"}]
  /\ pending \in Seq(Waiters) /\ batch \in Seq(Waiters)
  /\ flush \in {"none", "waits", "dispatch"} /\ flush_now \in BOOLEAN
  /\ \A c \in DOMAIN replies : replies[c] \in {"ok", "error"}

(* A batch is kept for as long as it is dispatched.                        *)
BatchesInFlight == flush # "dispatch" => batch = <<>>

CoalescerInv == CoalescerTypeOK /\ BatchesInFlight /\ NobodyForgotten

-----------------------------------------------------------------------------
LEMMA MinOfTwo ==
  ASSUME NEW a \in Nat, NEW b \in Nat
  PROVE  /\ Min({a, b}) \in {a, b}
         /\ Min({a, b}) <= a /\ Min({a, b}) <= b
  <1>1. \E x \in {a, b} : \A y \in {a, b} : x <= y
    OBVIOUS
  <1>. QED BY <1>1 DEF Min

(* Who was in line is in a batch taken from its front, or still in line.   *)
LEMMA TakenOrLeft ==
  ASSUME NEW S, NEW s \in Seq(S), NEW n \in 0..Len(s)
  PROVE  /\ SubSeq(s, 1, n) \in Seq(S) /\ SubSeq(s, n + 1, Len(s)) \in Seq(S)
         /\ Len(SubSeq(s, 1, n)) = n /\ Len(SubSeq(s, n + 1, Len(s))) = Len(s) - n
         /\ Range(s) = Range(SubSeq(s, 1, n)) \union Range(SubSeq(s, n + 1, Len(s)))
  <1>. DEFINE taken == SubSeq(s, 1, n)
              left == SubSeq(s, n + 1, Len(s))
  <1>1. /\ taken \in Seq(S) /\ Len(taken) = n /\ DOMAIN taken = 1..n
        /\ \A i \in 1..n : taken[i] = s[i]
    OBVIOUS
  <1>2. /\ left \in Seq(S) /\ Len(left) = Len(s) - n
        /\ DOMAIN left = 1..(Len(s) - n)
        /\ \A i \in 1..(Len(s) - n) : left[i] = s[n + i]
    OBVIOUS
  <1>3. DOMAIN s = 1..Len(s) /\ Len(s) \in Nat
    OBVIOUS
  <1>. HIDE DEF taken, left
  <1>4. ASSUME NEW x \in Range(s)
        PROVE  x \in Range(taken) \union Range(left)
    <2>1. PICK i \in 1..Len(s) : x = s[i]
      BY <1>3, <1>4 DEF Range
    <2>2. CASE i <= n
      <3>1. i \in 1..n /\ x = taken[i]
        BY <1>1, <2>1, <2>2
      <3>. QED BY <1>1, <3>1 DEF Range
    <2>3. CASE i > n
      <3>1. i - n \in 1..(Len(s) - n) /\ x = left[i - n]
        <4>1. i - n \in 1..(Len(s) - n) /\ n + (i - n) = i
          BY <1>3, <2>1, <2>3
        <4>. QED BY <1>2, <2>1, <4>1
      <3>. QED BY <1>2, <3>1 DEF Range
    <2>. QED BY <2>1, <2>2, <2>3, <1>3
  <1>5. Range(taken) \subseteq Range(s)
    <2>1. \A i \in 1..n : i \in DOMAIN s
      BY <1>3
    <2>. QED BY <1>1, <2>1 DEF Range
  <1>6. Range(left) \subseteq Range(s)
    <2>1. \A i \in 1..(Len(s) - n) : n + i \in DOMAIN s
      BY <1>3
    <2>. QED BY <1>2, <2>1 DEF Range
  <1>7. Range(s) = Range(taken) \union Range(left)
    BY <1>4, <1>5, <1>6
  <1>. QED BY <1>1, <1>2, <1>7 DEF taken, left

LEMMA AppendedRange ==
  ASSUME NEW S, NEW s \in Seq(S), NEW x \in S
  PROVE  Range(s) \subseteq Range(Append(s, x)) /\ x \in Range(Append(s, x))
  <1>1. /\ DOMAIN Append(s, x) = 1..(Len(s) + 1) /\ DOMAIN s = 1..Len(s)
        /\ Len(s) \in Nat /\ Append(s, x)[Len(s) + 1] = x
        /\ \A i \in 1..Len(s) : Append(s, x)[i] = s[i]
    OBVIOUS
  <1>2. \A i \in DOMAIN s : i \in DOMAIN Append(s, x) /\ Append(s, x)[i] = s[i]
    BY <1>1
  <1>3. Len(s) + 1 \in DOMAIN Append(s, x)
    BY <1>1
  <1>. QED BY <1>1, <1>2, <1>3 DEF Range

LEMMA CoalescerStarts == CoalescerInit => CoalescerInv
  <1>. SUFFICES ASSUME CoalescerInit PROVE CoalescerInv
    OBVIOUS
  <1>1. \A c \in DOMAIN replies : replies[c] \in {"ok", "error"}
    <2>1. replies = <<>>
      BY DEF CoalescerInit
    <2>. QED BY <2>1
  <1>2. CoalescerTypeOK /\ BatchesInFlight
    <2>1. future \in [Waiters -> {"idle", "waiting", "ok", "error", "canceled"}]
      BY DEF CoalescerInit
    <2>2. /\ pending \in Seq(Waiters) /\ batch \in Seq(Waiters)
          /\ flush = "none" /\ batch = <<>>
      BY DEF CoalescerInit
    <2>3. flush_now \in BOOLEAN
      BY Zenon DEF CoalescerInit
    <2>. QED BY <1>1, <2>1, <2>2, <2>3 DEF CoalescerTypeOK, BatchesInFlight
  <1>3. NobodyForgotten
    BY CoalescerAssumption DEF CoalescerInit, NobodyForgotten
  <1>. QED BY <1>2, <1>3 DEF CoalescerInv

LEMMA CallsGetInLine ==
  ASSUME CoalescerInv, NEW c \in Waiters, CallReasoner(c)
  PROVE  CoalescerInv'
  <1>. USE DEF CallReasoner
  <1>1. CoalescerTypeOK /\ BatchesInFlight /\ NobodyForgotten
    BY DEF CoalescerInv
  <1>2. /\ pending' = Append(pending, c) /\ pending' \in Seq(Waiters)
        /\ Len(pending') = Len(pending) + 1 /\ Len(pending) \in Nat
    BY <1>1 DEF CoalescerTypeOK
  <1>3. CoalescerTypeOK'
    BY <1>1, <1>2 DEF CoalescerTypeOK
  <1>4. BatchesInFlight'
    BY <1>1 DEF BatchesInFlight, CoalescerTypeOK
  <1>5. NobodyForgotten'
    <2>1. Range(pending) \subseteq Range(pending') /\ c \in Range(pending')
      BY <1>1, <1>2, AppendedRange DEF CoalescerTypeOK
    <2>2. \A d \in Waiters : future'[d] = "waiting" => d = c \/ future[d] = "waiting"
      BY <1>1 DEF CoalescerTypeOK
    <2>3. \A d \in Waiters :
            future'[d] = "waiting" => d \in Range(pending') \union Range(batch')
      BY <1>1, <2>1, <2>2 DEF NobodyForgotten
    <2>4. flush' # "none"
      BY <1>1 DEF CoalescerTypeOK
    <2>5. Len(pending') >= MaxBatch => flush_now'
      BY <1>2
    <2>. QED BY <1>1, <2>3, <2>4, <2>5 DEF NobodyForgotten
  <1>. QED BY <1>3, <1>4, <1>5 DEF CoalescerInv

LEMMA BatchesTaken ==
  ASSUME CoalescerInv, TakeBatch
  PROVE  CoalescerInv'
  <1>. DEFINE n == Min({MaxBatch, Len(pending)})
              left == SubSeq(pending, n + 1, Len(pending))
  <1>1. CoalescerTypeOK /\ BatchesInFlight /\ NobodyForgotten
    BY DEF CoalescerInv
  <1>2. pending \in Seq(Waiters) /\ Len(pending) \in Nat /\ MaxBatch \in Nat \ {0}
    BY <1>1, CoalescerAssumption DEF CoalescerTypeOK
  <1>3. /\ n \in {MaxBatch, Len(pending)} /\ n <= MaxBatch /\ n <= Len(pending)
        /\ n \in 0..Len(pending)
    <2>1. n \in {MaxBatch, Len(pending)} /\ n <= MaxBatch /\ n <= Len(pending)
      BY <1>2, MinOfTwo
    <2>. HIDE DEF n
    <2>. QED BY <1>2, <2>1
  <1>4. /\ flush = "waits" /\ flush' = "dispatch" /\ future' = future
        /\ batch' = SubSeq(pending, 1, n) /\ pending' = left /\ replies' = <<>>
        /\ flush_now' = (left # <<>>)
    BY DEF TakeBatch
  <1>. HIDE DEF n
  <1>5. /\ batch' \in Seq(Waiters) /\ Len(batch') = n
        /\ pending' \in Seq(Waiters) /\ Len(pending') = Len(pending) - n
        /\ Range(pending) = Range(batch') \union Range(pending')
    BY <1>2, <1>3, <1>4, TakenOrLeft
  <1>6. batch = <<>> /\ Range(batch) = {}
    BY <1>1, <1>4 DEF BatchesInFlight, Range
  <1>7. CoalescerTypeOK'
    <2>1. \A c \in DOMAIN <<>> : replies'[c] \in {"ok", "error"}
      OBVIOUS
    <2>. QED BY <1>1, <1>4, <1>5, <2>1 DEF CoalescerTypeOK
  <1>8. NobodyForgotten'
    <2>1. \A c \in Waiters :
            future'[c] = "waiting" => c \in Range(pending') \union Range(batch')
      BY <1>1, <1>4, <1>5, <1>6 DEF NobodyForgotten
    <2>2. Len(pending') >= MaxBatch => flush_now'
      <3>1. ASSUME Len(pending') >= MaxBatch PROVE left # <<>>
        <4>1. pending' # <<>>
          BY <1>2, <1>5, <3>1
        <4>. QED BY <1>4, <4>1
      <3>. QED BY <1>4, <3>1
    <2>. QED BY <1>3, <1>4, <1>5, <2>1, <2>2 DEF NobodyForgotten
  <1>. QED BY <1>4, <1>7, <1>8 DEF CoalescerInv, BatchesInFlight

LEMMA CallsDelivered ==
  ASSUME CoalescerInv, Deliver
  PROVE  CoalescerInv'
  <1>. USE DEF Deliver
  <1>1. CoalescerTypeOK /\ BatchesInFlight /\ NobodyForgotten
    BY DEF CoalescerInv
  <1>2. batch' = <<>> /\ replies' = <<>> /\ pending' = pending
    OBVIOUS
  <1>3. \A c \in Waiters :
          future'[c] = IF c \in Range(batch) /\ future[c] = "waiting"
                       THEN replies[c] ELSE future[c]
    OBVIOUS
  <1>4. \A c \in Range(batch) : replies[c] \in {"ok", "error"}
    BY <1>1 DEF CoalescerTypeOK
  <1>5. CoalescerTypeOK'
    <2>1. future' \in [Waiters -> {"idle", "waiting", "ok", "error", "canceled"}]
      BY <1>1, <1>4 DEF CoalescerTypeOK
    <2>2. flush' \in {"none", "waits", "dispatch"} /\ flush_now' \in BOOLEAN
      BY <1>1 DEF CoalescerTypeOK
    <2>. QED BY <1>1, <1>2, <2>1, <2>2 DEF CoalescerTypeOK
  <1>6. NobodyForgotten'
    <2>1. \A c \in Waiters :
            future'[c] = "waiting" => c \in Range(pending') \union Range(batch')
      BY <1>1, <1>2, <1>3, <1>4 DEF NobodyForgotten
    <2>2. pending' # <<>> => flush' # "none"
      BY <1>2
    <2>3. Len(batch') <= MaxBatch
      BY <1>2, CoalescerAssumption
    <2>4. Len(pending') >= MaxBatch => flush_now'
      <3>1. CASE pending = <<>>
        BY <1>2, <3>1, CoalescerAssumption
      <3>2. CASE pending # <<>>
        BY <1>2, <3>2
      <3>. QED BY <3>1, <3>2
    <2>. QED BY <2>1, <2>2, <2>3, <2>4 DEF NobodyForgotten
  <1>. QED BY <1>2, <1>5, <1>6 DEF CoalescerInv, BatchesInFlight

LEMMA FailedLinesAreTold ==
  ASSUME CoalescerInv, SleepFails
  PROVE  CoalescerInv'
  <1>. USE DEF SleepFails
  <1>1. CoalescerTypeOK /\ BatchesInFlight /\ NobodyForgotten
    BY DEF CoalescerInv
  <1>2. batch = <<>> /\ batch' = <<>> /\ pending' = <<>> /\ replies' = replies
        /\ Range(batch) = {}
    BY <1>1 DEF BatchesInFlight, Range
  <1>3. \A c \in Waiters :
          future'[c] = IF c \in Range(pending) /\ future[c] = "waiting"
                       THEN "error" ELSE future[c]
    OBVIOUS
  <1>4. CoalescerTypeOK'
    BY <1>1, <1>2 DEF CoalescerTypeOK
  <1>5. \A c \in Waiters : future'[c] # "waiting"
    BY <1>1, <1>2, <1>3 DEF NobodyForgotten
  <1>6. NobodyForgotten'
    BY <1>2, <1>5, CoalescerAssumption DEF NobodyForgotten
  <1>. QED BY <1>2, <1>4, <1>6 DEF CoalescerInv, BatchesInFlight

LEMMA CoalescerInvHolds ==
  ASSUME CoalescerInv, [CoalescerNext]_coalescerVars
  PROVE  CoalescerInv'
  <1>. USE DEF CoalescerInv
  <1>1. ASSUME NEW c \in Waiters, CancelCaller(c)
        PROVE  CoalescerInv'
    <2>1. \A d \in Waiters : future'[d] = "waiting" => future[d] = "waiting"
      BY <1>1 DEF CancelCaller, CoalescerTypeOK
    <2>2. CoalescerTypeOK'
      BY <1>1 DEF CancelCaller, CoalescerTypeOK
    <2>. QED BY <1>1, <2>1, <2>2 DEF CancelCaller, BatchesInFlight, NobodyForgotten
  <1>2. ASSUME NEW c \in Waiters, UnderlyingReturns(c)
        PROVE  CoalescerInv'
    <2>1. PICK r \in {"ok", "error"} :
            replies' = [d \in DOMAIN replies \union {c} |->
                          IF d = c THEN r ELSE replies[d]]
      BY <1>2 DEF UnderlyingReturns
    <2>2. \A d \in DOMAIN replies' : replies'[d] \in {"ok", "error"}
      BY <2>1 DEF CoalescerTypeOK
    <2>. QED BY <1>2, <2>2
         DEF UnderlyingReturns, CoalescerTypeOK, BatchesInFlight, NobodyForgotten
  <1>3. CASE UNCHANGED coalescerVars
    BY <1>3 DEF coalescerVars, CoalescerTypeOK, BatchesInFlight, NobodyForgotten
  <1>. QED BY <1>1, <1>2, <1>3, CallsGetInLine, BatchesTaken, CallsDelivered,
             FailedLinesAreTold DEF CoalescerNext, CoalescerSteps

(* Nobody waits for a flush that will not come (SyncCoalescer), whichever  *)
(* callers are canceled, however many arrive during a dispatch and whether *)
(* or not the sleep of the window fails.                                   *)
THEOREM NobodyIsForgotten == CoalescerSpec => []NobodyForgotten
  <1>1. CoalescerInv => NobodyForgotten
    BY DEF CoalescerInv
  <1>. QED BY <1>1, CoalescerStarts, CoalescerInvHolds, PTL DEF CoalescerSpec

-----------------------------------------------------------------------------
(* Sessions on managed agents.                                             *)
ToolUses == {"granted", "ungranted"}
Ends == {"terminal", "error"}
CmaEvents == {"started", "emit", "done", "error", "closed"}

TurnRecord == [rounds : Nat, spent : Nat, counts : Nat]
ServingRecord == [pc : {"get", "create", "events", "tool", "over"}, turn : TurnRecord]
VendorRecord ==
  [pc : {"none", "runs", "ended"}, events : Seq(ToolUses \union Ends), open : Int]
HandleRecord ==
  [closing : BOOLEAN, closed : BOOLEAN, sent : Nat, inbound : Seq({"input"})]

CmaTypeOK ==
  /\ dev \in BOOLEAN /\ skipped \in BOOLEAN
  /\ handle \in HandleRecord
  /\ serving \in ServingRecord
  /\ vendor \in VendorRecord
  /\ told \in Seq(CmaEvents)

(* What a tool may still cost is left in the budget while it runs.         *)
PaidAhead ==
  /\ serving.turn.spent <= TurnBudget /\ serving.turn.rounds <= MaxRounds
  /\ serving.turn.counts <= CallLimit
  /\ serving.pc = "tool" =>
       serving.turn.spent + ToolCost <= TurnBudget /\ serving.turn.rounds < MaxRounds

(* A session asks for tools while it runs, and a tool runs for the event   *)
(* that is next.                                                           *)
UsesToAnswer ==
  /\ vendor.pc = "none" => vendor.events = <<>>
  /\ \A i \in 1..Len(vendor.events) : vendor.events[i] \in ToolUses <=> vendor.pc = "runs"
  /\ serving.pc = "tool" => vendor.events # <<>> /\ vendor.pc = "runs"
  /\ skipped \/ vendor.open = IF vendor.pc = "runs" THEN Len(vendor.events) ELSE 0

ClosedIsLast ==
  /\ handle.closed <=> serving.pc = "over"
  /\ \A i \in 1..Len(told) : told[i] = "closed" <=> i = Len(told) /\ handle.closed

CmaInv == CmaTypeOK /\ PaidAhead /\ UsesToAnswer /\ ClosedIsLast

-----------------------------------------------------------------------------
LEMMA CmaNumbers ==
  /\ MaxRounds \in Nat /\ CallLimit \in Nat /\ TurnBudget \in Nat
  /\ ThinkCost \in Nat /\ ToolCost \in Nat
  BY CmaAssumption

LEMMA ServingType ==
  ASSUME NEW p \in {"get", "create", "events", "tool", "over"}, NEW t \in TurnRecord,
         NEW s, s = [pc |-> p, turn |-> t]
  PROVE  s \in ServingRecord /\ s.pc = p /\ s.turn = t
  BY DEF ServingRecord

LEMMA TurnType ==
  ASSUME NEW a \in Nat, NEW b \in Nat, NEW c \in Nat,
         NEW t, t = [rounds |-> a, spent |-> b, counts |-> c]
  PROVE  t \in TurnRecord /\ t.rounds = a /\ t.spent = b /\ t.counts = c
  BY DEF TurnRecord

LEMMA TurnCharged ==
  ASSUME NEW t \in TurnRecord, NEW a, NEW b, NEW u,
         u = [t EXCEPT !.spent = a, !.counts = b]
  PROVE  u = [rounds |-> t.rounds, spent |-> a, counts |-> b]
  BY DEF TurnRecord

LEMMA RoundCharged ==
  ASSUME NEW t \in TurnRecord, NEW a, NEW b, NEW u,
         u = [t EXCEPT !.spent = a, !.rounds = b]
  PROVE  u = [rounds |-> b, spent |-> a, counts |-> t.counts]
  BY DEF TurnRecord

(* The fields of the records.                                              *)
LEMMA CmaFields ==
  ASSUME CmaTypeOK
  PROVE  /\ serving.pc \in {"get", "create", "events", "tool", "over"}
         /\ serving.turn \in TurnRecord
         /\ serving.turn.rounds \in Nat /\ serving.turn.spent \in Nat
         /\ serving.turn.counts \in Nat
         /\ vendor.pc \in {"none", "runs", "ended"} /\ vendor.open \in Int
         /\ vendor.events \in Seq(ToolUses \union Ends) /\ Len(vendor.events) \in Nat
         /\ handle.closing \in BOOLEAN /\ handle.closed \in BOOLEAN
         /\ handle.sent \in Nat /\ handle.inbound \in Seq({"input"})
  <1>1. /\ serving \in ServingRecord /\ vendor \in VendorRecord /\ handle \in HandleRecord
    BY DEF CmaTypeOK
  <1>2. /\ serving.pc \in {"get", "create", "events", "tool", "over"}
        /\ serving.turn \in TurnRecord
    BY <1>1 DEF ServingRecord
  <1>3. /\ serving.turn.rounds \in Nat /\ serving.turn.spent \in Nat
        /\ serving.turn.counts \in Nat
    BY <1>2 DEF TurnRecord
  <1>4. /\ vendor.pc \in {"none", "runs", "ended"} /\ vendor.open \in Int
        /\ vendor.events \in Seq(ToolUses \union Ends) /\ Len(vendor.events) \in Nat
    BY <1>1 DEF VendorRecord
  <1>5. /\ handle.closing \in BOOLEAN /\ handle.closed \in BOOLEAN
        /\ handle.sent \in Nat /\ handle.inbound \in Seq({"input"})
    BY <1>1 DEF HandleRecord
  <1>. QED BY <1>2, <1>3, <1>4, <1>5

LEMMA JoinedWithout ==
  ASSUME NEW S, NEW s \in Seq(S), NEW t \in Seq(S), NEW x,
         \A i \in 1..Len(s) : s[i] # x, \A i \in 1..Len(t) : t[i] # x
  PROVE  s \o t \in Seq(S) /\ \A i \in 1..Len(s \o t) : (s \o t)[i] # x
  <1>1. s \o t \in Seq(S)
    OBVIOUS
  <1>2. ASSUME NEW i \in 1..Len(s \o t) PROVE (s \o t)[i] # x
    BY ConcatElement
  <1>. QED BY <1>1, <1>2

LEMMA AppendedLast ==
  ASSUME NEW S, NEW s \in Seq(S), NEW x \in S, NEW t, t = Append(s, x)
  PROVE  /\ t \in Seq(S) /\ Len(s) \in Nat /\ Len(t) = Len(s) + 1 /\ t[Len(t)] = x
         /\ \A i \in 1..Len(s) : t[i] = s[i]
  OBVIOUS

(* What a turn and a session start with.                                   *)
LEMMA FreshTurn ==
  /\ NewTurn \in TurnRecord
  /\ NewTurn.rounds = 0 /\ NewTurn.spent = 0 /\ NewTurn.counts = 0
  /\ NoSession \in VendorRecord
  /\ NoSession.pc = "none" /\ NoSession.events = <<>> /\ NoSession.open = 0
  <1>1. NewTurn = [rounds |-> 0, spent |-> 0, counts |-> 0]
    BY DEF NewTurn
  <1>2. NoSession = [pc |-> "none", events |-> <<>>, open |-> 0]
    BY DEF NoSession
  <1>3. <<>> \in Seq(ToolUses \union Ends) /\ 0 \in Nat /\ 0 \in Int
    OBVIOUS
  <1>4. /\ NewTurn \in TurnRecord
        /\ NewTurn.rounds = 0 /\ NewTurn.spent = 0 /\ NewTurn.counts = 0
    BY <1>1, <1>3, TurnType
  <1>5. /\ NoSession \in VendorRecord
        /\ NoSession.pc = "none" /\ NoSession.events = <<>> /\ NoSession.open = 0
    BY <1>2, <1>3 DEF VendorRecord
  <1>. QED BY <1>4, <1>5

LEMMA CmaStarts == CmaInit => CmaInv
  <1>. SUFFICES ASSUME CmaInit PROVE CmaInv
    OBVIOUS
  <1>. USE DEF CmaInit
  <1>1. /\ NewTurn \in TurnRecord
        /\ NewTurn.rounds = 0 /\ NewTurn.spent = 0 /\ NewTurn.counts = 0
    BY FreshTurn
  <1>2. /\ NoSession \in VendorRecord
        /\ NoSession.pc = "none" /\ NoSession.events = <<>> /\ NoSession.open = 0
    BY FreshTurn
  <1>3. CmaTypeOK
    <2>1. dev \in BOOLEAN /\ skipped \in BOOLEAN
      BY Zenon
    <2>2. handle \in HandleRecord
      <3>1. <<>> \in Seq({"input"})
        OBVIOUS
      <3>. QED BY <3>1 DEF HandleRecord
    <2>3. serving \in ServingRecord
      BY <1>1, ServingType
    <2>4. told \in Seq(CmaEvents)
      OBVIOUS
    <2>. QED BY <1>2, <2>1, <2>2, <2>3, <2>4 DEF CmaTypeOK
  <1>4. PaidAhead
    BY <1>1, CmaNumbers DEF PaidAhead
  <1>5. UsesToAnswer
    BY <1>2 DEF UsesToAnswer
  <1>6. ClosedIsLast
    BY DEF ClosedIsLast
  <1>. QED BY <1>3, <1>4, <1>5, <1>6 DEF CmaInv

(* However the driver ends, it was not over before.                        *)
LEMMA DriverTellsItsEnd ==
  ASSUME CmaTypeOK, ClosedIsLast, serving.pc # "over",
         NEW es, es \in {<<>>, <<"error">>}, DriverEnds(es)
  PROVE  /\ serving' = [serving EXCEPT !.pc = "over"]
         /\ handle' \in HandleRecord
         /\ told' \in Seq(CmaEvents)
         /\ ClosedIsLast'
  <1>. USE DEF DriverEnds
  <1>1. serving' = [serving EXCEPT !.pc = "over"] /\ serving'.pc = "over"
    BY DEF CmaTypeOK, ServingRecord
  <1>2. handle' \in HandleRecord
        /\ handle'.closed
    <2>1. handle' = [closing |-> TRUE, closed |-> TRUE, sent |-> handle.sent,
                     inbound |-> handle.inbound]
      BY DEF CmaTypeOK, HandleRecord
    <2>2. handle.sent \in Nat /\ handle.inbound \in Seq({"input"})
      BY CmaFields
    <2>. QED BY <2>1, <2>2 DEF HandleRecord
  <1>3. \A i \in 1..Len(told) : told[i] # "closed"
    BY DEF ClosedIsLast
  <1>4. told \in Seq(CmaEvents) /\ DOMAIN told = 1..Len(told)
    BY DEF CmaTypeOK
  <1>5. told' = told \o es \o <<"closed">>
    <2>1. "closed" \notin ToSet(told)
      BY <1>3, <1>4 DEF ToSet
    <2>. QED BY <2>1
  <1>6. es \in Seq(CmaEvents) /\ \A i \in 1..Len(es) : es[i] # "closed"
    <2>1. CASE es = <<>>
      BY <2>1
    <2>2. CASE es = <<"error">>
      BY <2>2 DEF CmaEvents
    <2>. QED BY <2>1, <2>2
  <1>. DEFINE before == told \o es
  <1>7. /\ before \in Seq(CmaEvents)
        /\ \A i \in 1..Len(before) : before[i] # "closed"
    BY <1>3, <1>4, <1>6, JoinedWithout
  <1>. HIDE DEF before
  <1>8. told' = Append(before, "closed") /\ "closed" \in CmaEvents
    <2>1. told' = before \o <<"closed">>
      BY <1>5 DEF before
    <2>. QED BY <1>7, <2>1 DEF CmaEvents
  <1>9. /\ told' \in Seq(CmaEvents)
        /\ Len(told') = Len(before) + 1 /\ Len(before) \in Nat
        /\ told'[Len(told')] = "closed"
        /\ \A i \in 1..Len(before) : told'[i] # "closed"
    <2>1. \A t : t = Append(before, "closed") =>
            /\ t \in Seq(CmaEvents) /\ Len(before) \in Nat
            /\ Len(t) = Len(before) + 1 /\ t[Len(t)] = "closed"
            /\ \A i \in 1..Len(before) : t[i] = before[i]
      BY <1>7, <1>8, AppendedLast
    <2>. QED BY <1>7, <1>8, <2>1
  <1>10. ClosedIsLast'
    <2>1. ASSUME NEW i \in 1..Len(told'), i # Len(told')
          PROVE  told'[i] # "closed"
      <3>1. i \in 1..Len(before)
        BY <1>9, <2>1
      <3>. QED BY <1>9, <3>1
    <2>. QED BY <1>1, <1>2, <1>9, <2>1 DEF ClosedIsLast
  <1>. QED BY <1>1, <1>2, <1>9, <1>10

(* Nothing is closed by what is told while the driver serves.              *)
LEMMA ToldWhileServing ==
  ASSUME CmaTypeOK, ClosedIsLast, serving.pc # "over",
         NEW es \in Seq(CmaEvents), \A i \in 1..Len(es) : es[i] # "closed",
         told' = told \o es,
         handle'.closed = handle.closed, serving'.pc # "over"
  PROVE  /\ told' \in Seq(CmaEvents)
         /\ ClosedIsLast'
  <1>1. ~handle.closed /\ \A i \in 1..Len(told) : told[i] # "closed"
    BY DEF ClosedIsLast
  <1>2. told \in Seq(CmaEvents)
    BY DEF CmaTypeOK
  <1>3. /\ told' \in Seq(CmaEvents)
        /\ \A i \in 1..Len(told') : told'[i] # "closed"
    BY <1>1, <1>2, JoinedWithout
  <1>. QED BY <1>1, <1>3 DEF ClosedIsLast

(* A driver that ends leaves its turn as it was, and no session.           *)
LEMMA BrokenTurns ==
  ASSUME CmaInv, serving.pc # "over", NEW es, es \in {<<>>, <<"error">>},
         DriverEnds(es), UNCHANGED dev,
         \/ vendor' = NoSession /\ UNCHANGED skipped
         \/ UNCHANGED <<vendor, skipped>>
  PROVE  CmaInv'
  <1>. USE DEF CmaInv
  <1>1. /\ serving' = [serving EXCEPT !.pc = "over"]
        /\ handle' \in HandleRecord
        /\ told' \in Seq(CmaEvents)
        /\ ClosedIsLast'
    BY DriverTellsItsEnd
  <1>2. /\ serving' \in ServingRecord
        /\ serving'.pc = "over" /\ serving'.turn = serving.turn
    <2>1. serving' = [pc |-> "over", turn |-> serving.turn]
      BY <1>1 DEF CmaTypeOK, ServingRecord
    <2>. QED BY <2>1, CmaFields, ServingType
  <1>3. /\ vendor' \in VendorRecord
        /\ UsesToAnswer'
    <2>1. CASE vendor' = NoSession /\ UNCHANGED skipped
      <3>1. /\ vendor' \in VendorRecord
            /\ vendor'.pc = "none" /\ vendor'.events = <<>> /\ vendor'.open = 0
        BY <2>1, FreshTurn
      <3>. QED BY <1>2, <3>1 DEF UsesToAnswer
    <2>2. CASE UNCHANGED <<vendor, skipped>>
      BY <1>2, <2>2 DEF UsesToAnswer, CmaTypeOK
    <2>. QED BY <2>1, <2>2
  <1>4. PaidAhead'
    BY <1>2 DEF PaidAhead
  <1>5. CmaTypeOK'
    BY <1>1, <1>2, <1>3 DEF CmaTypeOK
  <1>. QED BY <1>1, <1>3, <1>4, <1>5

(* What is left of the events, when the next one has been dealt with.      *)
LEMMA EventsRead ==
  ASSUME CmaInv, vendor.events # <<>>
  PROVE  /\ Tail(vendor.events) \in Seq(ToolUses \union Ends)
         /\ Len(Tail(vendor.events)) = Len(vendor.events) - 1
         /\ \A i \in 1..Len(Tail(vendor.events)) :
              Tail(vendor.events)[i] \in ToolUses <=> vendor.pc = "runs"
         /\ Len(vendor.events) \in Nat
         /\ Head(vendor.events) \in ToolUses <=> vendor.pc = "runs"
         /\ vendor.pc # "none"
  <1>1. /\ vendor.events \in Seq(ToolUses \union Ends)
        /\ \A i \in 1..Len(vendor.events) :
             vendor.events[i] \in ToolUses <=> vendor.pc = "runs"
        /\ vendor.pc # "none"
    BY CmaFields DEF CmaInv, UsesToAnswer
  <1>2. /\ Len(vendor.events) \in Nat /\ Len(vendor.events) > 0
        /\ Len(Tail(vendor.events)) = Len(vendor.events) - 1
        /\ Tail(vendor.events) \in Seq(ToolUses \union Ends)
        /\ Head(vendor.events) = vendor.events[1]
        /\ \A i \in 1..(Len(vendor.events) - 1) :
             Tail(vendor.events)[i] = vendor.events[i + 1]
    BY <1>1
  <1>3. ASSUME NEW i \in 1..(Len(vendor.events) - 1)
        PROVE  i + 1 \in 1..Len(vendor.events)
    BY <1>2
  <1>4. 1 \in 1..Len(vendor.events)
    BY <1>2
  <1>. QED BY <1>1, <1>2, <1>3, <1>4

(* A step of the driver within a turn: it tells nothing.                   *)
LEMMA TurnGoesOn ==
  ASSUME CmaInv, serving.pc \in {"events", "tool"},
         UNCHANGED <<dev, handle, told>>,
         serving' \in ServingRecord, serving'.pc # "over", vendor' \in VendorRecord,
         skipped' \in BOOLEAN, PaidAhead', UsesToAnswer'
  PROVE  CmaInv'
  <1>1. CmaTypeOK'
    BY DEF CmaInv, CmaTypeOK
  <1>2. ClosedIsLast'
    <2>1. serving.pc # "over" /\ serving'.pc # "over"
      OBVIOUS
    <2>. QED BY <2>1 DEF CmaInv, ClosedIsLast
  <1>. QED BY <1>1, <1>2 DEF CmaInv

LEMMA SkippedTools ==
  ASSUME CmaInv, SkipTool
  PROVE  CmaInv'
  <1>1. CmaTypeOK /\ PaidAhead /\ UsesToAnswer
    BY DEF CmaInv
  <1>2. /\ serving.pc = "events" /\ vendor.events # <<>> /\ ~OverBudget
        /\ serving' = [serving EXCEPT !.turn.spent = @ + ThinkCost]
        /\ vendor' = [vendor EXCEPT !.events = Tail(vendor.events)]
        /\ skipped' = TRUE /\ UNCHANGED <<dev, handle, told>>
    BY Zenon DEF SkipTool, Reads, Rest, Turn
  <1>. DEFINE t == [rounds |-> serving.turn.rounds,
                    spent |-> serving.turn.spent + ThinkCost,
                    counts |-> serving.turn.counts]
  <1>3. /\ t \in TurnRecord /\ t.spent = serving.turn.spent + ThinkCost
        /\ t.rounds = serving.turn.rounds /\ t.counts = serving.turn.counts
    <2>1. /\ serving.turn.rounds \in Nat /\ serving.turn.spent \in Nat
          /\ serving.turn.counts \in Nat
      BY <1>1, CmaFields
    <2>. QED BY <2>1, CmaNumbers DEF TurnRecord
  <1>4. serving' = [pc |-> "events", turn |-> t]
    BY <1>1, <1>2 DEF CmaTypeOK, ServingRecord, TurnRecord
  <1>. HIDE DEF t
  <1>5. serving' \in ServingRecord /\ serving'.pc = "events" /\ serving'.turn = t
    BY <1>3, <1>4, ServingType
  <1>6. /\ vendor' \in VendorRecord
        /\ vendor'.pc = vendor.pc /\ vendor'.events = Tail(vendor.events)
    <2>1. vendor' = [pc |-> vendor.pc, events |-> Tail(vendor.events),
                     open |-> vendor.open]
      BY <1>1, <1>2 DEF CmaTypeOK, VendorRecord
    <2>2. vendor.pc \in {"none", "runs", "ended"} /\ vendor.open \in Int
      BY <1>1, CmaFields
    <2>3. Tail(vendor.events) \in Seq(ToolUses \union Ends)
      BY <1>2, EventsRead
    <2>. QED BY <2>1, <2>2, <2>3 DEF VendorRecord
  <1>7. PaidAhead'
    <2>1. /\ serving.turn.rounds \in Nat /\ serving.turn.spent \in Nat
          /\ serving.turn.counts \in Nat
      BY <1>1, CmaFields
    <2>2. serving.turn.spent + ThinkCost <= TurnBudget
      BY <1>2, <2>1, CmaNumbers DEF OverBudget, Turn
    <2>. QED BY <1>1, <1>3, <1>5, <2>2 DEF PaidAhead
  <1>8. UsesToAnswer'
    BY <1>2, <1>5, <1>6, EventsRead DEF UsesToAnswer
  <1>. QED BY <1>2, <1>5, <1>6, <1>7, <1>8, TurnGoesOn

LEMMA StartedTools ==
  ASSUME CmaInv, StartTool
  PROVE  CmaInv'
  <1>1. CmaTypeOK /\ PaidAhead /\ UsesToAnswer
    BY DEF CmaInv
  <1>2. /\ serving.pc = "events" /\ vendor.events # <<>>
        /\ Head(vendor.events) = "granted"
        /\ ~OverBudget /\ ~Exhausted /\ ~Denied("granted")
        /\ serving' = [pc |-> "tool", turn |-> [serving.turn EXCEPT
             !.spent = serving.turn.spent + ThinkCost, !.counts = serving.turn.counts + 1]]
        /\ vendor' = vendor /\ skipped' = skipped /\ UNCHANGED <<dev, handle, told>>
    BY DEF StartTool, Reads, Turn
  <1>. DEFINE t == [rounds |-> serving.turn.rounds,
                    spent |-> serving.turn.spent + ThinkCost,
                    counts |-> serving.turn.counts + 1]
  <1>3. /\ t \in TurnRecord /\ t.spent = serving.turn.spent + ThinkCost
        /\ t.rounds = serving.turn.rounds /\ t.counts = serving.turn.counts + 1
    <2>1. /\ serving.turn.rounds \in Nat /\ serving.turn.spent \in Nat
          /\ serving.turn.counts \in Nat
      BY <1>1, CmaFields
    <2>. QED BY <2>1, CmaNumbers DEF TurnRecord
  <1>4. serving' = [pc |-> "tool", turn |-> t]
    <2>1. serving.turn \in TurnRecord
      BY <1>1, CmaFields
    <2>2. t = [serving.turn EXCEPT !.spent = serving.turn.spent + ThinkCost,
                                   !.counts = serving.turn.counts + 1]
      BY <2>1, TurnCharged
    <2>. QED BY <1>2, <2>2
  <1>. HIDE DEF t
  <1>5. serving' \in ServingRecord /\ serving'.pc = "tool" /\ serving'.turn = t
    BY <1>3, <1>4, ServingType
  <1>6. PaidAhead'
    <2>1. /\ serving.turn.rounds \in Nat /\ serving.turn.spent \in Nat
          /\ serving.turn.counts \in Nat
      BY <1>1, CmaFields
    <2>2. /\ serving.turn.spent + ThinkCost + ToolCost <= TurnBudget
          /\ serving.turn.spent + ThinkCost <= TurnBudget
      <3>1. ~(serving.turn.spent + ThinkCost + ToolCost > TurnBudget)
        BY <1>2 DEF OverBudget, Turn
      <3>. QED BY <2>1, <3>1, CmaNumbers
    <2>3. serving.turn.rounds < MaxRounds
      BY <1>2, <2>1, CmaNumbers DEF Exhausted, Turn
    <2>4. serving.turn.counts + 1 <= CallLimit
      BY <1>2, <2>1, CmaNumbers DEF Denied, Turn
    <2>. QED BY <1>1, <1>3, <1>5, <2>2, <2>3, <2>4 DEF PaidAhead
  <1>7. UsesToAnswer'
    <2>1. vendor.pc = "runs"
      BY <1>2, EventsRead DEF ToolUses
    <2>. QED BY <1>1, <1>2, <2>1 DEF UsesToAnswer
  <1>8. skipped' \in BOOLEAN /\ vendor' \in VendorRecord
    BY <1>1, <1>2 DEF CmaTypeOK
  <1>. QED BY <1>2, <1>5, <1>6, <1>7, <1>8, TurnGoesOn

(* An answer is one fewer to wait for, and one event fewer to read.        *)
LEMMA AnsweredTools ==
  ASSUME CmaInv, ToolReturns \/ ToolRaises
  PROVE  CmaInv'
  <1>1. CmaTypeOK /\ PaidAhead /\ UsesToAnswer
    BY DEF CmaInv
  <1>2. /\ serving.pc = "tool" /\ skipped' = skipped /\ UNCHANGED <<dev, handle, told>>
        /\ vendor' = [vendor EXCEPT !.events = Tail(vendor.events),
                                    !.open = vendor.open - 1]
        /\ vendor.events # <<>> /\ vendor.pc = "runs"
    BY <1>1 DEF UsesToAnswer, ToolReturns, ToolRaises, Answered, Rest
  <1>3. /\ vendor' \in VendorRecord /\ vendor'.pc = "runs"
        /\ vendor'.events = Tail(vendor.events) /\ vendor'.open = vendor.open - 1
    <2>1. vendor' = [pc |-> "runs", events |-> Tail(vendor.events),
                     open |-> vendor.open - 1]
      BY <1>1, <1>2 DEF CmaTypeOK, VendorRecord
    <2>2. vendor.open - 1 \in Int
      BY <1>1, CmaFields
    <2>3. Tail(vendor.events) \in Seq(ToolUses \union Ends)
      BY <1>2, EventsRead
    <2>. QED BY <2>1, <2>2, <2>3 DEF VendorRecord
  <1>4. PICK a \in {0, 1}, b \in {0, ToolCost} :
          serving' = [pc |-> "events",
                      turn |-> [rounds |-> serving.turn.rounds + a,
                                spent |-> serving.turn.spent + b,
                                counts |-> serving.turn.counts]]
    <2>1. CASE ToolReturns
      <3>1. serving.turn \in TurnRecord
        BY <1>1, CmaFields
      <3>. DEFINE u == [serving.turn EXCEPT !.spent = serving.turn.spent + ToolCost,
                                            !.rounds = serving.turn.rounds + 1]
      <3>2. serving' = [pc |-> "events", turn |-> u]
        BY <2>1 DEF ToolReturns, Turn
      <3>3. u = [serving.turn EXCEPT !.spent = serving.turn.spent + ToolCost,
                                     !.rounds = serving.turn.rounds + 1]
        OBVIOUS
      <3>. HIDE DEF u
      <3>4. u = [rounds |-> serving.turn.rounds + 1, spent |-> serving.turn.spent + ToolCost,
                 counts |-> serving.turn.counts]
        BY <3>1, <3>3, RoundCharged
      <3>. QED BY <3>2, <3>4
    <2>2. CASE ToolRaises
      <3>1. serving' = [pc |-> "events", turn |-> serving.turn]
        BY <1>1, <2>2 DEF ToolRaises, CmaTypeOK, ServingRecord
      <3>2. serving.turn = [rounds |-> serving.turn.rounds + 0,
                            spent |-> serving.turn.spent + 0,
                            counts |-> serving.turn.counts]
        <4>1. serving.turn \in TurnRecord
          BY <1>1, CmaFields
        <4>. QED BY <4>1 DEF TurnRecord
      <3>. QED BY <3>1, <3>2
    <2>. QED BY <2>1, <2>2
  <1>. DEFINE t == [rounds |-> serving.turn.rounds + a, spent |-> serving.turn.spent + b,
                    counts |-> serving.turn.counts]
  <1>5. /\ t \in TurnRecord /\ t.rounds = serving.turn.rounds + a
        /\ t.spent = serving.turn.spent + b /\ t.counts = serving.turn.counts
    <2>1. /\ serving.turn.rounds \in Nat /\ serving.turn.spent \in Nat
          /\ serving.turn.counts \in Nat
      BY <1>1, CmaFields
    <2>2. a \in Nat /\ b \in Nat
      BY CmaNumbers
    <2>. QED BY <2>1, <2>2 DEF TurnRecord
  <1>. HIDE DEF t
  <1>6. serving' \in ServingRecord /\ serving'.pc = "events" /\ serving'.turn = t
    BY <1>4, <1>5, ServingType DEF t
  <1>7. PaidAhead'
    <2>1. /\ serving.turn.rounds \in Nat /\ serving.turn.spent \in Nat
          /\ serving.turn.counts \in Nat
      BY <1>1, CmaFields
    <2>2. /\ serving.turn.spent + b <= TurnBudget
          /\ serving.turn.rounds + a <= MaxRounds
      BY <1>1, <1>2, <2>1, CmaNumbers DEF PaidAhead
    <2>. QED BY <1>1, <1>5, <1>6, <2>2 DEF PaidAhead
  <1>8. UsesToAnswer'
    <2>1. skipped' \/ vendor'.open = Len(vendor'.events)
      BY <1>1, <1>2, <1>3, EventsRead DEF UsesToAnswer
    <2>. QED BY <1>2, <1>3, <1>6, <2>1, EventsRead DEF UsesToAnswer
  <1>9. skipped' \in BOOLEAN
    BY <1>1, <1>2 DEF CmaTypeOK
  <1>. QED BY <1>2, <1>3, <1>6, <1>7, <1>8, <1>9, TurnGoesOn

LEMMA InputsSent ==
  ASSUME CmaInv, SendInput
  PROVE  CmaInv'
  <1>1. CmaTypeOK /\ PaidAhead /\ UsesToAnswer /\ ClosedIsLast
    BY DEF CmaInv
  <1>2. /\ handle' = [handle EXCEPT !.sent = @ + 1, !.inbound = Append(@, "input")]
        /\ UNCHANGED <<dev, serving, vendor, told, skipped>>
    BY DEF SendInput
  <1>3. handle' \in HandleRecord /\ handle'.closed = handle.closed
    <2>1. handle' = [closing |-> handle.closing, closed |-> handle.closed,
                     sent |-> handle.sent + 1, inbound |-> Append(handle.inbound, "input")]
      BY <1>1, <1>2 DEF CmaTypeOK, HandleRecord
    <2>2. /\ handle.closing \in BOOLEAN /\ handle.closed \in BOOLEAN
          /\ handle.sent + 1 \in Nat /\ Append(handle.inbound, "input") \in Seq({"input"})
      BY <1>1, CmaFields
    <2>. QED BY <2>1, <2>2 DEF HandleRecord
  <1>4. CmaTypeOK' /\ PaidAhead' /\ UsesToAnswer'
    BY <1>1, <1>2, <1>3 DEF CmaTypeOK, PaidAhead, UsesToAnswer
  <1>5. ClosedIsLast'
    BY <1>1, <1>2, <1>3 DEF ClosedIsLast
  <1>. QED BY <1>4, <1>5 DEF CmaInv

LEMMA InputsTaken ==
  ASSUME CmaInv, TakeInput
  PROVE  CmaInv'
  <1>1. CmaTypeOK /\ PaidAhead /\ UsesToAnswer /\ ClosedIsLast
    BY DEF CmaInv
  <1>2. /\ serving.pc = "get" /\ handle.inbound # <<>>
        /\ handle' = [handle EXCEPT !.inbound = Tail(@)]
        /\ serving' = [pc |-> "create", turn |-> NewTurn]
        /\ told' = Append(told, "started") /\ UNCHANGED <<dev, vendor, skipped>>
    BY DEF TakeInput
  <1>3. handle' \in HandleRecord /\ handle'.closed = handle.closed
    <2>1. handle' = [closing |-> handle.closing, closed |-> handle.closed,
                     sent |-> handle.sent, inbound |-> Tail(handle.inbound)]
      BY <1>1, <1>2 DEF CmaTypeOK, HandleRecord
    <2>2. /\ handle.closing \in BOOLEAN /\ handle.closed \in BOOLEAN
          /\ handle.sent \in Nat /\ handle.inbound \in Seq({"input"})
      BY <1>1, CmaFields
    <2>3. Tail(handle.inbound) \in Seq({"input"})
      BY <1>2, <2>2
    <2>. QED BY <2>1, <2>2, <2>3 DEF HandleRecord
  <1>4. serving' \in ServingRecord /\ serving'.pc = "create" /\ serving'.turn = NewTurn
    BY <1>2, FreshTurn, ServingType
  <1>5. told' \in Seq(CmaEvents) /\ ClosedIsLast'
    <2>1. /\ <<"started">> \in Seq(CmaEvents)
          /\ \A i \in 1..Len(<<"started">>) : <<"started">>[i] # "closed"
      BY DEF CmaEvents
    <2>2. told' = told \o <<"started">>
      BY <1>1, <1>2 DEF CmaTypeOK
    <2>3. serving.pc # "over" /\ serving'.pc # "over"
      BY <1>2, <1>4
    <2>. QED BY <1>1, <1>3, <2>1, <2>2, <2>3, ToldWhileServing
  <1>6. CmaTypeOK'
    BY <1>1, <1>2, <1>3, <1>4, <1>5 DEF CmaTypeOK
  <1>7. PaidAhead'
    BY <1>4, FreshTurn, CmaNumbers DEF PaidAhead
  <1>8. UsesToAnswer'
    BY <1>1, <1>2, <1>4 DEF UsesToAnswer
  <1>. QED BY <1>5, <1>6, <1>7, <1>8 DEF CmaInv

LEMMA SessionsCreated ==
  ASSUME CmaInv, CreateSession
  PROVE  CmaInv'
  <1>1. CASE DriverEnds(<<"error">>) /\ UNCHANGED <<dev, vendor, skipped>>
    <2>1. serving.pc # "over"
      BY DEF CreateSession
    <2>. QED BY <1>1, <2>1, BrokenTurns
  <1>2. CASE /\ serving' = [serving EXCEPT !.pc = "events"]
             /\ vendor' = [pc |-> "runs", events |-> <<>>, open |-> 0]
             /\ UNCHANGED <<dev, handle, told, skipped>>
    <2>1. CmaTypeOK /\ PaidAhead /\ UsesToAnswer /\ ClosedIsLast
      BY DEF CmaInv
    <2>2. /\ serving' \in ServingRecord /\ serving'.pc = "events"
          /\ serving'.turn = serving.turn
      <3>1. serving' = [pc |-> "events", turn |-> serving.turn]
        BY <1>2, <2>1 DEF CmaTypeOK, ServingRecord
      <3>. QED BY <2>1, <3>1, CmaFields DEF ServingRecord
    <2>3. /\ vendor' \in VendorRecord /\ vendor'.pc = "runs" /\ vendor'.events = <<>>
          /\ vendor'.open = 0
      <3>1. <<>> \in Seq(ToolUses \union Ends) /\ 0 \in Int
        OBVIOUS
      <3>. QED BY <1>2, <3>1 DEF VendorRecord
    <2>4. CmaTypeOK'
      BY <1>2, <2>1, <2>2, <2>3 DEF CmaTypeOK
    <2>5. PaidAhead'
      BY <2>1, <2>2 DEF PaidAhead
    <2>6. UsesToAnswer'
      BY <2>2, <2>3 DEF UsesToAnswer
    <2>7. ClosedIsLast'
      <3>1. serving.pc # "over" /\ serving'.pc # "over"
        BY <2>2 DEF CreateSession
      <3>. QED BY <1>2, <2>1, <3>1 DEF ClosedIsLast
    <2>. QED BY <2>4, <2>5, <2>6, <2>7 DEF CmaInv
  <1>. QED BY <1>1, <1>2 DEF CreateSession

(* A turn that ends with an answer leaves the driver free for the next.    *)
LEMMA AnsweredTurns ==
  ASSUME CmaInv, serving.pc = "events",
         serving' = [pc |-> "get", turn |-> NewTurn], vendor' = NoSession,
         told' = told \o <<"emit", "done">>, UNCHANGED <<dev, handle, skipped>>
  PROVE  CmaInv'
  <1>1. CmaTypeOK /\ PaidAhead /\ UsesToAnswer /\ ClosedIsLast
    BY DEF CmaInv
  <1>2. serving' \in ServingRecord /\ serving'.pc = "get" /\ serving'.turn = NewTurn
    BY FreshTurn, ServingType
  <1>3. told' \in Seq(CmaEvents) /\ ClosedIsLast'
    <2>1. /\ <<"emit", "done">> \in Seq(CmaEvents)
          /\ \A i \in 1..Len(<<"emit", "done">>) : <<"emit", "done">>[i] # "closed"
      BY DEF CmaEvents
    <2>2. serving.pc # "over" /\ serving'.pc # "over"
      BY <1>2
    <2>. QED BY <1>1, <2>1, <2>2, ToldWhileServing
  <1>4. CmaTypeOK'
    BY <1>1, <1>2, <1>3, FreshTurn DEF CmaTypeOK
  <1>5. PaidAhead'
    BY <1>2, FreshTurn, CmaNumbers DEF PaidAhead
  <1>6. UsesToAnswer'
    BY <1>2, FreshTurn DEF UsesToAnswer
  <1>. QED BY <1>3, <1>4, <1>5, <1>6 DEF CmaInv

(* What the vendor does next: it asks for tools, or it comes to an end.    *)
LEMMA VendorMoves ==
  ASSUME CmaInv, VendorRuns
  PROVE  CmaInv'
  <1>1. CmaTypeOK /\ PaidAhead /\ UsesToAnswer /\ ClosedIsLast
    BY DEF CmaInv
  <1>2. /\ vendor.pc = "runs" /\ vendor.events = <<>> /\ vendor.open = 0
        /\ serving.pc # "tool" /\ UNCHANGED <<dev, handle, serving, told, skipped>>
    BY <1>1 DEF VendorRuns, UsesToAnswer
  <1>3. vendor' \in VendorRecord /\ UsesToAnswer'
    <2>1. CASE \E uses \in {<<"granted">>, <<"ungranted">>, <<"granted", "granted">>} :
                 vendor' = [vendor EXCEPT !.events = uses, !.open = Len(uses)]
      <3>1. PICK uses \in {<<"granted">>, <<"ungranted">>, <<"granted", "granted">>} :
              vendor' = [vendor EXCEPT !.events = uses, !.open = Len(uses)]
        BY <2>1
      <3>2. /\ uses \in Seq(ToolUses) /\ uses \in Seq(ToolUses \union Ends)
            /\ Len(uses) \in Nat /\ \A i \in 1..Len(uses) : uses[i] \in ToolUses
        <4>1. CASE uses = <<"granted">>
          BY <4>1 DEF ToolUses
        <4>2. CASE uses = <<"ungranted">>
          BY <4>2 DEF ToolUses
        <4>3. CASE uses = <<"granted", "granted">>
          BY <4>3 DEF ToolUses
        <4>. QED BY <3>1, <4>1, <4>2, <4>3
      <3>3. vendor' = [pc |-> "runs", events |-> uses, open |-> Len(uses)]
        BY <1>1, <1>2, <3>1 DEF CmaTypeOK, VendorRecord
      <3>4. /\ vendor' \in VendorRecord /\ vendor'.pc = "runs" /\ vendor'.events = uses
            /\ vendor'.open = Len(uses)
        BY <3>2, <3>3 DEF VendorRecord
      <3>. QED BY <1>2, <3>2, <3>4 DEF UsesToAnswer
    <2>2. CASE \E end \in {"terminal", "error"} :
                 vendor' = [vendor EXCEPT !.events = <<end>>, !.pc = "ended"]
      <3>1. PICK end \in {"terminal", "error"} :
              vendor' = [vendor EXCEPT !.events = <<end>>, !.pc = "ended"]
        BY <2>2
      <3>2. /\ <<end>> \in Seq(ToolUses \union Ends)
            /\ \A i \in 1..Len(<<end>>) : <<end>>[i] \notin ToolUses
        BY <3>1 DEF ToolUses, Ends
      <3>3. vendor' = [pc |-> "ended", events |-> <<end>>, open |-> 0]
        BY <1>1, <1>2, <3>1 DEF CmaTypeOK, VendorRecord
      <3>4. /\ vendor' \in VendorRecord /\ vendor'.pc = "ended"
            /\ vendor'.events = <<end>> /\ vendor'.open = 0
        BY <3>2, <3>3 DEF VendorRecord
      <3>. QED BY <1>2, <3>2, <3>4 DEF UsesToAnswer
    <2>. QED BY <2>1, <2>2 DEF VendorRuns
  <1>4. CmaTypeOK' /\ PaidAhead' /\ ClosedIsLast'
    BY <1>1, <1>2, <1>3 DEF CmaTypeOK, PaidAhead, ClosedIsLast
  <1>. QED BY <1>3, <1>4 DEF CmaInv

LEMMA CmaInvHolds ==
  ASSUME CmaInv, [CmaNext]_cmaVars
  PROVE  CmaInv'
  <1>1. ASSUME Breaks, serving.pc # "over"
        PROVE  CmaInv'
    BY <1>1, BrokenTurns DEF Breaks
  <1>2. CASE CloseHandle
    <2>1. /\ serving.pc # "over" /\ DriverEnds(<<>>) /\ vendor' = NoSession
          /\ UNCHANGED <<dev, skipped>>
      BY <1>2 DEF CloseHandle, CmaInv, ClosedIsLast
    <2>. QED BY <2>1, BrokenTurns
  <1>3. CASE PolicyEnds
    BY <1>1, <1>3 DEF PolicyEnds, Reads
  <1>4. CASE AnswerFails
    BY <1>1, <1>4 DEF AnswerFails
  <1>5. CASE TurnEnds
    <2>1. serving.pc = "events"
      BY <1>5 DEF TurnEnds, Reads
    <2>2. CASE Breaks
      BY <1>1, <2>1, <2>2
    <2>3. CASE ~Breaks
      <3>1. /\ serving' = [pc |-> "get", turn |-> NewTurn] /\ vendor' = NoSession
            /\ told' = told \o <<"emit", "done">> /\ UNCHANGED <<dev, handle, skipped>>
        BY <1>5, <2>3 DEF TurnEnds
      <3>. QED BY <2>1, <3>1, AnsweredTurns
    <2>. QED BY <2>2, <2>3
  <1>6. CASE TurnBreaks
    BY <1>1, <1>6 DEF TurnBreaks, Reads
  <1>7. CASE UNCHANGED cmaVars
    BY <1>7 DEF cmaVars, CmaInv, CmaTypeOK, PaidAhead, UsesToAnswer, ClosedIsLast
  <1>. QED BY <1>2, <1>3, <1>4, <1>5, <1>6, <1>7, InputsSent, InputsTaken,
             SessionsCreated, SkippedTools, StartedTools, AnsweredTools, VendorMoves
       DEF CmaNext, Serves

LEMMA CmaKeepsBounds == CmaInv => TurnsKeptInBounds
  <1>. SUFFICES ASSUME CmaInv PROVE TurnsKeptInBounds
    OBVIOUS
  <1>1. CmaTypeOK /\ PaidAhead /\ UsesToAnswer /\ ClosedIsLast
    BY DEF CmaInv
  <1>2. "closed" \notin ToSet(Front(told))
    <2>1. told \in Seq(CmaEvents)
      BY <1>1 DEF CmaTypeOK
    <2>2. /\ Len(told) \in Nat /\ DOMAIN Front(told) = 1..(Len(told) - 1)
          /\ \A i \in 1..(Len(told) - 1) : Front(told)[i] = told[i]
      BY <2>1 DEF Front
    <2>3. \A i \in 1..(Len(told) - 1) : told[i] # "closed"
      BY <1>1, <2>2 DEF ClosedIsLast
    <2>. QED BY <2>2, <2>3 DEF ToSet
  <1>. QED BY <1>1, <1>2 DEF PaidAhead, UsesToAnswer, TurnsKeptInBounds, Turn

(* However clients, the vendor and the tools interleave, and whichever     *)
(* step of CMASessionHandle fails, no turn goes over a limit, the vendor   *)
(* waits for no answer but those still to come, and Closed is told last.   *)
THEOREM TurnsStayInBounds == CmaSpec => []TurnsKeptInBounds
  BY CmaStarts, CmaInvHolds, CmaKeepsBounds, PTL DEF CmaSpec

-----------------------------------------------------------------------------
(* Local sessions.                                                         *)
Kinds == {"none", "started", "emit", "error", "done", "fatal", "closed"}
EventRecord == [kind : Kinds, n : Nat]
DriverRecord == [pc : {"recv", "turn", "done"}, turns : Nat, errors : Nat]
LiveRecord ==
  [sent : Nat, out : Nat, closed : BOOLEAN, opened : BOOLEAN, keys : SUBSET Keys]

LocalTypeOK ==
  /\ queue \in Seq(Nat) /\ handed \in Seq(Nat)
  /\ live \in LiveRecord /\ driver \in DriverRecord
  /\ events \in Seq(EventRecord) /\ put \in Seq(EventRecord) /\ reader \in EventRecord
  /\ emitted \subseteq Nat
  /\ ended \in {"no", "close", "error", "cancel"}

(* The queue holds the messages that were accepted and not handed over, in *)
(* order, with wake-ups between them.                                      *)
MessagesInLine ==
  /\ Len(handed) <= live.sent
  /\ \A i \in 1..Len(queue) : queue[i] # WAKE => queue[i] \in Len(handed) + 1 .. live.sent
  /\ \A i, j \in 1..Len(queue) :
       i < j /\ queue[i] # WAKE /\ queue[j] # WAKE => queue[i] < queue[j]
  /\ \A m \in Len(handed) + 1 .. live.sent : \E i \in 1..Len(queue) : queue[i] = m

(* Emits are read in the order of their numbers.                           *)
EmitsInOrder ==
  /\ reader.kind = "emit" => reader.n <= live.out
  /\ \A i \in 1..Len(events) : events[i].kind = "emit" =>
       events[i].n <= live.out /\ (reader.kind = "emit" => reader.n < events[i].n)
  /\ \A i, j \in 1..Len(events) :
       i < j /\ events[i].kind = "emit" /\ events[j].kind = "emit" =>
         events[i].n < events[j].n

DriverEnded == driver.pc = "done" <=> ended # "no"

LocalInv == LocalTypeOK /\ MessagesInLine /\ EmitsInOrder /\ DriverEnded /\ EndTold

-----------------------------------------------------------------------------
LEMMA LocalStarts == LocalInit => LocalInv
  <1>. SUFFICES ASSUME LocalInit PROVE LocalInv
    OBVIOUS
  <1>1. /\ queue = <<>> /\ handed = <<>> /\ events = <<>> /\ put = <<>> /\ emitted = {}
        /\ reader = [kind |-> "none", n |-> 0] /\ ended = "no"
        /\ live = [sent |-> 0, out |-> 0, closed |-> FALSE, opened |-> FALSE, keys |-> {}]
        /\ driver = [pc |-> "recv", turns |-> 0, errors |-> 0]
    BY DEF LocalInit, Nothing, E
  <1>2. LocalTypeOK
    <2>1. live \in LiveRecord
      BY <1>1 DEF LiveRecord
    <2>2. driver \in DriverRecord
      BY <1>1 DEF DriverRecord
    <2>3. reader \in EventRecord
      BY <1>1 DEF EventRecord, Kinds
    <2>. QED BY <1>1, <2>1, <2>2, <2>3 DEF LocalTypeOK
  <1>3. MessagesInLine /\ EmitsInOrder /\ DriverEnded
    BY <1>1 DEF MessagesInLine, EmitsInOrder, DriverEnded
  <1>4. HandedInOrder
    BY <1>1 DEF HandedInOrder
  <1>5. EndIsLast
    BY <1>1 DEF EndIsLast
  <1>6. EmitsKept
    <2>1. Range(events) = {}
      BY <1>1 DEF Range
    <2>. QED BY <1>1, <2>1 DEF EmitsKept
  <1>. QED BY <1>2, <1>3, <1>4, <1>5, <1>6 DEF LocalInv, EndTold

(* The fields of the records.                                              *)
LEMMA LocalFields ==
  ASSUME LocalTypeOK
  PROVE  /\ live.sent \in Nat /\ live.out \in Nat /\ live.keys \in SUBSET Keys
         /\ live.closed \in BOOLEAN /\ live.opened \in BOOLEAN
         /\ driver.pc \in {"recv", "turn", "done"} /\ driver.turns \in Nat
         /\ driver.errors \in Nat
         /\ reader.kind \in Kinds /\ reader.n \in Nat
         /\ Len(queue) \in Nat /\ Len(handed) \in Nat
         /\ Len(events) \in Nat /\ Len(put) \in Nat
         /\ \A i \in 1..Len(events) : events[i] \in EventRecord /\ events[i].n \in Nat
         /\ \A i \in 1..Len(put) : put[i] \in EventRecord
  <1>1. /\ live.sent \in Nat /\ live.out \in Nat /\ live.keys \in SUBSET Keys
        /\ live.closed \in BOOLEAN /\ live.opened \in BOOLEAN
    BY DEF LocalTypeOK, LiveRecord
  <1>2. /\ driver.pc \in {"recv", "turn", "done"} /\ driver.turns \in Nat
        /\ driver.errors \in Nat
    BY DEF LocalTypeOK, DriverRecord
  <1>3. reader.kind \in Kinds /\ reader.n \in Nat
    BY DEF LocalTypeOK, EventRecord
  <1>4. /\ Len(queue) \in Nat /\ Len(handed) \in Nat
        /\ Len(events) \in Nat /\ Len(put) \in Nat
        /\ \A i \in 1..Len(events) : events[i] \in EventRecord
        /\ \A i \in 1..Len(put) : put[i] \in EventRecord
    BY DEF LocalTypeOK
  <1>5. \A i \in 1..Len(events) : events[i].n \in Nat
    BY <1>4 DEF EventRecord
  <1>. QED BY <1>1, <1>2, <1>3, <1>4, <1>5

LEMMA EventType ==
  /\ \A k \in Kinds, i \in Nat :
       E(k, i) \in EventRecord /\ E(k, i).kind = k /\ E(k, i).n = i
  BY DEF E, EventRecord

-----------------------------------------------------------------------------
(* The queue.                                                              *)
LEMMA MessageAccepted ==
  ASSUME LocalTypeOK, MessagesInLine, queue' = Append(queue, live.sent + 1),
         live'.sent = live.sent + 1, handed' = handed
  PROVE  queue' \in Seq(Nat) /\ MessagesInLine'
  <1>1. /\ queue \in Seq(Nat) /\ Len(queue) \in Nat /\ live.sent \in Nat
        /\ Len(handed) \in Nat
    BY LocalFields DEF LocalTypeOK
  <1>2. /\ queue' \in Seq(Nat) /\ Len(queue') = Len(queue) + 1
        /\ queue'[Len(queue) + 1] = live.sent + 1
        /\ \A i \in 1..Len(queue) : queue'[i] = queue[i]
    BY <1>1
  <1>3. \A i \in 1..Len(queue') : i \in 1..Len(queue) \/ i = Len(queue) + 1
    BY <1>1, <1>2
  <1>4. ASSUME NEW i \in 1..Len(queue'), queue'[i] # WAKE
        PROVE  queue'[i] \in Len(handed) + 1 .. live.sent + 1
    <2>1. CASE i \in 1..Len(queue)
      <3>1. queue'[i] \in Len(handed) + 1 .. live.sent
        BY <1>2, <1>4, <2>1 DEF MessagesInLine
      <3>. QED BY <1>1, <3>1
    <2>2. CASE i = Len(queue) + 1
      <3>1. Len(handed) <= live.sent
        BY DEF MessagesInLine
      <3>. QED BY <1>1, <1>2, <2>2, <3>1
    <2>. QED BY <1>3, <2>1, <2>2
  <1>5. ASSUME NEW i \in 1..Len(queue'), NEW j \in 1..Len(queue'), i < j,
               queue'[i] # WAKE, queue'[j] # WAKE
        PROVE  queue'[i] < queue'[j]
    <2>1. i \in 1..Len(queue)
      BY <1>1, <1>2, <1>5
    <2>2. queue'[i] = queue[i] /\ queue[i] \in Len(handed) + 1 .. live.sent
      BY <1>2, <1>5, <2>1 DEF MessagesInLine
    <2>3. CASE j \in 1..Len(queue)
      BY <1>2, <1>5, <2>1, <2>3 DEF MessagesInLine
    <2>4. CASE j = Len(queue) + 1
      BY <1>1, <1>2, <2>2, <2>4
    <2>. QED BY <1>3, <2>3, <2>4
  <1>6. ASSUME NEW m \in Len(handed) + 1 .. live.sent + 1
        PROVE  \E i \in 1..Len(queue') : queue'[i] = m
    <2>. m \in Int /\ Len(handed) + 1 <= m /\ m <= live.sent + 1
      BY <1>1
    <2>1. CASE m = live.sent + 1
      BY <1>1, <1>2, <2>1
    <2>2. CASE m <= live.sent
      <3>1. m \in Len(handed) + 1 .. live.sent
        BY <1>1, <2>2
      <3>2. PICK i \in 1..Len(queue) : queue[i] = m
        BY <3>1 DEF MessagesInLine
      <3>3. i \in 1..Len(queue') /\ queue'[i] = m
        BY <1>1, <1>2, <3>2
      <3>. QED BY <3>3
    <2>3. m = live.sent + 1 \/ m <= live.sent
      <3>1. \A x, y \in Int : x <= y + 1 => x = y + 1 \/ x <= y
        OBVIOUS
      <3>2. live.sent \in Int /\ m \in Int /\ m <= live.sent + 1
        BY <1>1
      <3>. QED BY <3>1, <3>2
    <2>. QED BY <2>1, <2>2, <2>3
  <1>7. Len(handed) <= live.sent + 1
    BY <1>1 DEF MessagesInLine
  <1>. QED BY <1>2, <1>4, <1>5, <1>6, <1>7 DEF MessagesInLine

LEMMA WakeQueued ==
  ASSUME LocalTypeOK, MessagesInLine, queue' = Append(queue, WAKE),
         live'.sent = live.sent, handed' = handed
  PROVE  queue' \in Seq(Nat) /\ MessagesInLine'
  <1>1. queue \in Seq(Nat) /\ Len(queue) \in Nat /\ WAKE \in Nat
    BY LocalFields DEF LocalTypeOK, WAKE
  <1>2. /\ queue' \in Seq(Nat) /\ Len(queue') = Len(queue) + 1
        /\ queue'[Len(queue) + 1] = WAKE
        /\ \A i \in 1..Len(queue) : queue'[i] = queue[i]
    BY <1>1
  <1>3. \A i \in 1..Len(queue') : queue'[i] # WAKE => i \in 1..Len(queue)
    BY <1>1, <1>2
  <1>4. \A i \in 1..Len(queue) : i \in 1..Len(queue')
    BY <1>1, <1>2
  <1>5. \A i \in 1..Len(queue') : queue'[i] # WAKE =>
          queue'[i] \in Len(handed) + 1 .. live.sent
    BY <1>2, <1>3 DEF MessagesInLine
  <1>6. ASSUME NEW i \in 1..Len(queue'), NEW j \in 1..Len(queue'), i < j,
               queue'[i] # WAKE, queue'[j] # WAKE
        PROVE  queue'[i] < queue'[j]
    <2>1. i \in 1..Len(queue) /\ j \in 1..Len(queue)
      BY <1>3, <1>6
    <2>. QED BY <1>2, <1>6, <2>1 DEF MessagesInLine
  <1>7. \A m \in Len(handed) + 1 .. live.sent : \E i \in 1..Len(queue') : queue'[i] = m
    BY <1>2, <1>4 DEF MessagesInLine
  <1>. QED BY <1>2, <1>5, <1>6, <1>7 DEF MessagesInLine

(* The first of the queue is a wake-up, which nobody misses, or the        *)
(* message that is next.                                                   *)
LEMMA FirstTaken ==
  ASSUME LocalTypeOK, MessagesInLine, HandedInOrder, queue # <<>>, queue' = Tail(queue),
         live'.sent = live.sent,
         \/ Head(queue) = WAKE /\ handed' = handed
         \/ Head(queue) # WAKE /\ handed' = Append(handed, Head(queue))
  PROVE  /\ queue' \in Seq(Nat) /\ handed' \in Seq(Nat) /\ MessagesInLine'
         /\ handed' = [i \in 1..Len(handed') |-> i]
  <1>1. /\ queue \in Seq(Nat) /\ Len(queue) \in Nat /\ handed \in Seq(Nat)
        /\ Len(handed) \in Nat /\ live.sent \in Nat /\ Len(queue) > 0
    BY LocalFields DEF LocalTypeOK
  <1>2. /\ queue' \in Seq(Nat) /\ Len(queue') = Len(queue) - 1 /\ Head(queue) = queue[1]
        /\ \A i \in 1..Len(queue') : queue'[i] = queue[i + 1] /\ i + 1 \in 1..Len(queue)
    BY <1>1
  <1>3. \A i, j \in 1..Len(queue') :
          i < j /\ queue'[i] # WAKE /\ queue'[j] # WAKE => queue'[i] < queue'[j]
    <2>1. \A i, j \in 1..Len(queue') : i < j => i + 1 < j + 1
      OBVIOUS
    <2>. QED BY <1>2, <2>1 DEF MessagesInLine
  <1>4. \A i \in 2..Len(queue) : i - 1 \in 1..Len(queue') /\ queue'[i - 1] = queue[i]
    BY <1>1, <1>2
  <1>5. CASE Head(queue) = WAKE /\ handed' = handed
    <2>1. \A i \in 1..Len(queue') : queue'[i] # WAKE =>
            queue'[i] \in Len(handed) + 1 .. live.sent
      BY <1>2 DEF MessagesInLine
    <2>2. ASSUME NEW m \in Len(handed) + 1 .. live.sent
          PROVE  \E i \in 1..Len(queue') : queue'[i] = m
      <3>1. PICK i \in 1..Len(queue) : queue[i] = m
        BY DEF MessagesInLine
      <3>2. i # 1
        BY <1>1, <1>2, <1>5, <3>1 DEF WAKE
      <3>3. i - 1 \in 1..Len(queue') /\ queue'[i - 1] = m
        BY <1>1, <1>4, <3>1, <3>2
      <3>. QED BY <3>3
    <2>3. MessagesInLine'
      BY <1>3, <1>5, <2>1, <2>2 DEF MessagesInLine
    <2>. QED BY <1>1, <1>2, <1>5, <2>3 DEF HandedInOrder
  <1>6. CASE Head(queue) # WAKE /\ handed' = Append(handed, Head(queue))
    <2>1. 1 \in 1..Len(queue)
      BY <1>1
    <2>2. Head(queue) \in Len(handed) + 1 .. live.sent
      BY <1>2, <1>6, <2>1 DEF MessagesInLine
    <2>3. Len(handed) + 1 \in Len(handed) + 1 .. live.sent
      BY <1>1, <2>2
    <2>4. PICK j \in 1..Len(queue) : queue[j] = Len(handed) + 1
      BY <2>3 DEF MessagesInLine
    <2>5. Head(queue) = Len(handed) + 1
      <3>1. CASE j = 1
        BY <1>2, <2>4, <3>1
      <3>2. CASE j # 1
        <4>1. 1 < j /\ queue[1] # WAKE /\ queue[j] # WAKE
          BY <1>1, <1>2, <1>6, <2>4, <3>2 DEF WAKE
        <4>2. queue[1] < queue[j]
          BY <2>1, <4>1 DEF MessagesInLine
        <4>. QED BY <1>1, <1>2, <2>2, <2>4, <4>2
      <3>. QED BY <3>1, <3>2
    <2>6. /\ handed' \in Seq(Nat) /\ Len(handed') = Len(handed) + 1
          /\ handed' = [i \in 1..Len(handed') |-> i]
      <3>1. /\ handed' \in Seq(Nat) /\ Len(handed') = Len(handed) + 1
            /\ handed'[Len(handed) + 1] = Len(handed) + 1
            /\ \A i \in 1..Len(handed) : handed'[i] = handed[i]
        BY <1>1, <1>6, <2>5
      <3>2. \A i \in 1..Len(handed) : handed[i] = i
        BY DEF HandedInOrder
      <3>3. ASSUME NEW i \in 1..Len(handed') PROVE handed'[i] = i
        <4>1. i \in 1..Len(handed) \/ i = Len(handed) + 1
          BY <1>1, <3>1
        <4>. QED BY <3>1, <3>2, <4>1
      <3>4. handed' = [i \in 1..Len(handed') |-> handed'[i]]
        BY <3>1
      <3>. QED BY <3>1, <3>3, <3>4
    <2>7. \A i \in 1..Len(queue') : queue'[i] # WAKE =>
            queue'[i] \in Len(handed') + 1 .. live.sent
      <3>1. ASSUME NEW i \in 1..Len(queue'), queue'[i] # WAKE
            PROVE  queue'[i] \in Len(handed') + 1 .. live.sent
        <4>1. /\ i + 1 \in 1..Len(queue) /\ 1 < i + 1 /\ queue[1] # WAKE
              /\ queue'[i] = queue[i + 1]
          BY <1>1, <1>2, <1>6
        <4>2. queue[1] < queue[i + 1] /\ queue[i + 1] \in Len(handed) + 1 .. live.sent
          BY <2>1, <3>1, <4>1 DEF MessagesInLine
        <4>. QED BY <1>1, <1>2, <2>5, <2>6, <4>1, <4>2
      <3>. QED BY <3>1
    <2>8. ASSUME NEW m \in Len(handed') + 1 .. live.sent
          PROVE  \E i \in 1..Len(queue') : queue'[i] = m
      <3>1. m \in Len(handed) + 1 .. live.sent /\ m # Len(handed) + 1
        BY <1>1, <2>6
      <3>2. PICK i \in 1..Len(queue) : queue[i] = m
        BY <3>1 DEF MessagesInLine
      <3>3. i # 1
        BY <1>2, <2>5, <3>1, <3>2
      <3>4. i - 1 \in 1..Len(queue') /\ queue'[i - 1] = m
        BY <1>1, <1>4, <3>2, <3>3
      <3>. QED BY <3>4
    <2>9. Len(handed') <= live.sent
      BY <1>1, <2>2, <2>6
    <2>. QED BY <1>2, <1>3, <2>6, <2>7, <2>8, <2>9 DEF MessagesInLine
  <1>. QED BY <1>5, <1>6

(* With no message in line all were handed over.                           *)
LEMMA AllHandedOver ==
  ASSUME LocalTypeOK, MessagesInLine, \A i \in 1..Len(queue) : queue[i] = WAKE
  PROVE  Len(handed) = live.sent
  <1>1. Len(handed) \in Nat /\ live.sent \in Nat /\ Len(handed) <= live.sent
    BY LocalFields DEF MessagesInLine
  <1>2. ASSUME Len(handed) # live.sent PROVE FALSE
    <2>1. Len(handed) + 1 \in Len(handed) + 1 .. live.sent
      BY <1>1, <1>2
    <2>2. PICK i \in 1..Len(queue) : queue[i] = Len(handed) + 1
      BY <2>1 DEF MessagesInLine
    <2>. QED BY <1>1, <2>2 DEF WAKE
  <1>. QED BY <1>2
-----------------------------------------------------------------------------
(* The events.                                                             *)
LEMMA JoinedEvents ==
  ASSUME NEW s \in Seq(EventRecord), NEW t \in Seq(EventRecord)
  PROVE  /\ s \o t \in Seq(EventRecord) /\ Len(s \o t) = Len(s) + Len(t)
         /\ Len(s) \in Nat /\ Len(t) \in Nat
         /\ \A i \in 1..Len(s) : i \in 1..Len(s \o t) /\ (s \o t)[i] = s[i]
         /\ \A i \in 1..Len(t) :
              Len(s) + i \in 1..Len(s \o t) /\ (s \o t)[Len(s) + i] = t[i]
         /\ \A i \in 1..Len(s \o t) :
              i \in 1..Len(s) \/ (i > Len(s) /\ i - Len(s) \in 1..Len(t)
                                  /\ (s \o t)[i] = t[i - Len(s)])
  OBVIOUS

LEMMA OpenTurns ==
  ASSUME LocalTypeOK, EndIsLast, ended = "no"
  PROVE  /\ \A i \in 1..Len(put) : put[i].kind # "closed" /\ put[i].kind # "fatal"
         /\ driver.pc # "turn" =>
              \A i \in 1..Len(put) : put[i].kind = "started" =>
                \E j \in i + 1 .. Len(put) : put[j].kind = "done"
  BY DEF EndIsLast

(* Events in the midst of a session: a turn starts or goes on, or it is    *)
(* over and told so, or an error is told of a round that began none.       *)
LEMMA ToldOn ==
  ASSUME LocalTypeOK, EndIsLast, ended = "no", ended' = "no",
         NEW es \in Seq(EventRecord), put' = put \o es,
         \A i \in 1..Len(es) : es[i].kind # "closed" /\ es[i].kind # "fatal",
         \/ driver'.pc = "turn"
         \/ /\ (Len(es) > 0 /\ es[Len(es)].kind = "done") \/ driver.pc # "turn"
            /\ \A i \in 1..Len(es) : es[i].kind # "started"
  PROVE  put' \in Seq(EventRecord) /\ EndIsLast'
  <1>1. put \in Seq(EventRecord)
    BY DEF LocalTypeOK
  <1>2. \A i \in 1..Len(put) : put[i].kind # "closed" /\ put[i].kind # "fatal"
    BY OpenTurns
  <1>3. /\ put' \in Seq(EventRecord) /\ Len(put') = Len(put) + Len(es)
        /\ Len(put) \in Nat /\ Len(es) \in Nat
        /\ \A i \in 1..Len(put) : i \in 1..Len(put') /\ put'[i] = put[i]
        /\ \A i \in 1..Len(es) :
             Len(put) + i \in 1..Len(put') /\ put'[Len(put) + i] = es[i]
        /\ \A i \in 1..Len(put') :
             i \in 1..Len(put) \/ (i > Len(put) /\ i - Len(put) \in 1..Len(es)
                                   /\ put'[i] = es[i - Len(put)])
    BY <1>1, JoinedEvents
  <1>4. \A i \in 1..Len(put') : put'[i].kind # "closed" /\ put'[i].kind # "fatal"
    BY <1>2, <1>3
  <1>5. ASSUME NEW i \in 1..Len(put'), put'[i].kind = "started", driver'.pc # "turn"
        PROVE  \E j \in i + 1 .. Len(put') : put'[j].kind = "done"
    <2>1. i \in 1..Len(put)
      BY <1>3, <1>5
    <2>2. CASE Len(es) > 0 /\ es[Len(es)].kind = "done"
      <3>1. Len(es) \in 1..Len(es) /\ Len(put') \in i + 1 .. Len(put')
        BY <1>3, <2>1, <2>2
      <3>2. put'[Len(put')].kind = "done"
        BY <1>3, <2>2, <3>1
      <3>. QED BY <3>1, <3>2
    <2>3. CASE driver.pc # "turn"
      <3>1. put[i].kind = "started"
        BY <1>3, <1>5, <2>1
      <3>2. PICK j \in i + 1 .. Len(put) : put[j].kind = "done"
        BY <2>1, <2>3, <3>1, OpenTurns
      <3>3. j \in 1..Len(put) /\ j \in i + 1 .. Len(put')
        BY <1>3, <2>1
      <3>. QED BY <1>3, <3>2, <3>3
    <2>. QED BY <1>5, <2>2, <2>3
  <1>. QED BY <1>3, <1>4, <1>5 DEF EndIsLast

(* The end: whatever the last turn told, then the fatal error if that is   *)
(* why, then Closed.                                                       *)
LEMMA ToldEnd ==
  ASSUME LocalTypeOK, EndIsLast, ended = "no",
         NEW before \in Seq(EventRecord),
         \A i \in 1..Len(before) : before[i].kind # "closed" /\ before[i].kind # "fatal",
         ended' \in {"close", "error", "cancel"},
         put' = put \o (before \o (IF ended' = "error" THEN <<E("fatal", 0)>> ELSE <<>>)
                               \o <<E("closed", 0)>>),
         ended' = "close" => driver.pc # "turn" /\ before = <<>>
  PROVE  put' \in Seq(EventRecord) /\ EndIsLast'
  <1>. DEFINE F == E("fatal", 0)
              C == E("closed", 0)
              x == put \o before
  <1>1. /\ F \in EventRecord /\ C \in EventRecord
        /\ F.kind = "fatal" /\ C.kind = "closed"
    BY EventType DEF Kinds
  <1>2. put \in Seq(EventRecord)
    BY DEF LocalTypeOK
  <1>3. /\ x \in Seq(EventRecord) /\ Len(x) \in Nat
        /\ \A i \in 1..Len(x) : x[i].kind # "closed" /\ x[i].kind # "fatal"
    <2>1. \A i \in 1..Len(put) : put[i].kind # "closed" /\ put[i].kind # "fatal"
      BY OpenTurns
    <2>. QED BY <1>2, <2>1, JoinedEvents
  <1>4. put' = IF ended' = "error" THEN Append(Append(x, F), C) ELSE Append(x, C)
    <2>. HIDE DEF F, C
    <2>1. <<F>> \in Seq(EventRecord) /\ <<C>> \in Seq(EventRecord)
      BY <1>1
    <2>2. CASE ended' = "error"
      <3>1. put' = put \o (before \o <<F>> \o <<C>>)
        BY <2>2 DEF F, C
      <3>2. put \o (before \o <<F>> \o <<C>>) = ((put \o before) \o <<F>>) \o <<C>>
        BY <1>2, <2>1, SMTT(30)
      <3>3. /\ (put \o before) \o <<F>> = Append(x, F)
            /\ Append(x, F) \o <<C>> = Append(Append(x, F), C)
        <4>. HIDE DEF x
        <4>1. x \o <<F>> = Append(x, F) /\ Append(x, F) \in Seq(EventRecord)
          BY <1>1, <1>3
        <4>2. Append(x, F) \o <<C>> = Append(Append(x, F), C)
          BY <1>1, <4>1
        <4>. QED BY <4>1, <4>2 DEF x
      <3>. QED BY <2>2, <3>1, <3>2, <3>3
    <2>3. CASE ended' # "error"
      <3>1. put' = put \o (before \o <<>> \o <<C>>)
        BY <2>3 DEF C
      <3>2. put \o (before \o <<>> \o <<C>>) = (put \o before) \o <<C>>
        BY <1>2, <2>1, SMTT(30)
      <3>3. x \o <<C>> = Append(x, C)
        <4>. HIDE DEF x
        <4>. QED BY <1>1, <1>3
      <3>. QED BY <2>3, <3>1, <3>2, <3>3
    <2>. QED BY <2>2, <2>3
  <1>5. CASE ended' = "error"
    <2>. HIDE DEF x, F, C
    <2>1. put' = Append(Append(x, F), C)
      BY <1>4, <1>5
    <2>2. /\ put' \in Seq(EventRecord) /\ Len(put') = Len(x) + 2
          /\ put'[Len(x) + 1] = F /\ put'[Len(x) + 2] = C
          /\ \A i \in 1..Len(x) : put'[i] = x[i]
      <3>. DEFINE y == Append(x, F)
      <3>1. /\ y \in Seq(EventRecord) /\ Len(y) = Len(x) + 1 /\ y[Len(x) + 1] = F
            /\ \A i \in 1..Len(x) : y[i] = x[i]
        BY <1>1, <1>3
      <3>. HIDE DEF y
      <3>2. /\ Append(y, C) \in Seq(EventRecord) /\ Len(Append(y, C)) = Len(y) + 1
            /\ Append(y, C)[Len(y) + 1] = C
            /\ \A i \in 1..Len(y) : Append(y, C)[i] = y[i]
        BY <1>1, <3>1
      <3>3. put' = Append(y, C)
        BY <2>1 DEF y
      <3>4. /\ Len(put') = Len(x) + 2 /\ put'[Len(x) + 2] = C /\ put'[Len(x) + 1] = F
        <4>1. Len(x) + 1 \in 1..Len(y) /\ Len(y) + 1 = Len(x) + 2
          BY <1>3, <3>1
        <4>. QED BY <3>1, <3>2, <3>3, <4>1
      <3>5. \A i \in 1..Len(x) : i \in 1..Len(y)
        BY <1>3, <3>1
      <3>. QED BY <3>1, <3>2, <3>3, <3>4, <3>5
    <2>3. \A i \in 1..Len(put') : i \in 1..Len(x) \/ i = Len(x) + 1 \/ i = Len(x) + 2
      BY <1>3, <2>2
    <2>4. ASSUME NEW i \in 1..Len(put')
          PROVE  /\ put'[i].kind = "closed" <=> i = Len(put')
                 /\ put'[i].kind = "fatal" <=> i = Len(put') - 1
      <3>1. CASE i \in 1..Len(x)
        <4>1. i # Len(put') /\ i # Len(put') - 1
          BY <1>3, <2>2, <3>1
        <4>. QED BY <1>3, <2>2, <3>1, <4>1
      <3>2. CASE i = Len(x) + 1
        <4>1. i # Len(put') /\ i = Len(put') - 1
          BY <1>3, <2>2, <3>2
        <4>. QED BY <1>1, <2>2, <3>2, <4>1
      <3>3. CASE i = Len(x) + 2
        <4>1. i = Len(put') /\ i # Len(put') - 1
          BY <1>3, <2>2, <3>3
        <4>. QED BY <1>1, <2>2, <3>3, <4>1
      <3>. QED BY <2>3, <3>1, <3>2, <3>3
    <2>. QED BY <1>5, <2>2, <2>4 DEF EndIsLast
  <1>6. CASE ended' # "error"
    <2>1. /\ put' \in Seq(EventRecord) /\ Len(put') = Len(x) + 1
          /\ put'[Len(x) + 1] = C
          /\ \A i \in 1..Len(x) : put'[i] = x[i]
      <3>. HIDE DEF x, F, C
      <3>1. /\ Append(x, C) \in Seq(EventRecord) /\ Len(Append(x, C)) = Len(x) + 1
            /\ Append(x, C)[Len(x) + 1] = C
            /\ \A i \in 1..Len(x) : Append(x, C)[i] = x[i]
        BY <1>1, <1>3
      <3>2. put' = Append(x, C)
        BY <1>4, <1>6
      <3>. QED BY <3>1, <3>2
    <2>2. \A i \in 1..Len(put') : i \in 1..Len(x) \/ i = Len(x) + 1
      <3>. HIDE DEF x
      <3>. QED BY <1>3, <2>1
    <2>3. \A i \in 1..Len(put') : /\ put'[i].kind = "closed" <=> i = Len(put')
                                  /\ put'[i].kind # "fatal"
      <3>. HIDE DEF x, C
      <3>. QED BY <1>1, <1>3, <2>1, <2>2
    <2>4. ASSUME ended' = "close", NEW i \in 1..Len(put'), put'[i].kind = "started"
          PROVE  \E j \in i + 1 .. Len(put') : put'[j].kind = "done"
      <3>1. x = put
        BY <1>2, <2>4
      <3>2. i \in 1..Len(put) /\ put[i].kind = "started"
        <4>. HIDE DEF x, C
        <4>. QED BY <1>1, <2>1, <2>2, <2>4, <3>1
      <3>3. PICK j \in i + 1 .. Len(put) : put[j].kind = "done"
        BY <2>4, <3>2, OpenTurns
      <3>4. j \in i + 1 .. Len(put') /\ j \in 1..Len(put)
        <4>. HIDE DEF x, C
        <4>. QED BY <1>3, <2>1, <3>1, <3>2
      <3>5. put'[j] = put[j]
        BY <2>1, <3>1, <3>4
      <3>. QED BY <3>3, <3>4, <3>5
    <2>. HIDE DEF x, F, C
    <2>5. ended' # "no" /\ (ended' = "close" \/ ended' = "cancel")
      BY <1>6
    <2>6. CASE ended' = "close"
      <3>1. \A i \in 1..Len(put') :
              ~(put'[i].kind = "started"
                /\ \A j \in i + 1 .. Len(put') : put'[j].kind # "done")
        BY <2>4, <2>6, Zenon
      <3>. QED BY <2>1, <2>3, <2>6, <3>1 DEF EndIsLast
    <2>7. CASE ended' = "cancel"
      BY <2>1, <2>3, <2>7 DEF EndIsLast
    <2>. QED BY <2>5, <2>6, <2>7
  <1>. QED BY <1>5, <1>6

-----------------------------------------------------------------------------
(* What waits for the reader.                                              *)
LEMMA NothingEmitted ==
  ASSUME LocalTypeOK, EmitsKept, EmitsInOrder, NEW es \in Seq(EventRecord),
         \A i \in 1..Len(es) : es[i].kind # "emit",
         events' = events \o es, UNCHANGED <<emitted, reader>>, live'.out = live.out
  PROVE  events' \in Seq(EventRecord) /\ EmitsKept' /\ EmitsInOrder'
  <1>1. events \in Seq(EventRecord)
    BY DEF LocalTypeOK
  <1>2. /\ events' \in Seq(EventRecord) /\ Len(events) \in Nat
        /\ \A i \in 1..Len(events) : i \in 1..Len(events') /\ events'[i] = events[i]
        /\ \A i \in 1..Len(events') :
             i \in 1..Len(events) \/ events'[i].kind # "emit"
    BY <1>1, JoinedEvents
  <1>3. EmitsInOrder'
    <2>1. \A i \in 1..Len(events') : events'[i].kind = "emit" =>
            i \in 1..Len(events) /\ events'[i] = events[i]
      BY <1>2
    <2>. QED BY <2>1 DEF EmitsInOrder
  <1>4. EmitsKept'
    <2>1. Range(events') = Range(events) \union Range(es)
      BY <1>1, RangeConcatenation
    <2>2. \A e \in Range(es) : e.kind # "emit"
      BY DEF Range
    <2>. QED BY <2>1, <2>2 DEF EmitsKept
  <1>. QED BY <1>2, <1>3, <1>4

LEMMA OneEmitted ==
  ASSUME LocalTypeOK, EmitsKept, EmitsInOrder, live'.out = live.out + 1,
         events' = events \o <<E("emit", live.out + 1)>>,
         emitted' = emitted \union {live.out + 1}, reader' = reader
  PROVE  /\ events' \in Seq(EventRecord) /\ emitted' \subseteq Nat
         /\ EmitsKept' /\ EmitsInOrder'
  <1>. DEFINE e == E("emit", live.out + 1)
  <1>1. /\ events \in Seq(EventRecord) /\ live.out \in Nat /\ emitted \subseteq Nat
        /\ reader.n \in Nat
    BY LocalFields DEF LocalTypeOK
  <1>2. e \in EventRecord /\ e.kind = "emit" /\ e.n = live.out + 1
    BY <1>1, EventType DEF Kinds
  <1>. HIDE DEF e
  <1>3. events' = events \o <<e>>
    BY DEF e
  <1>4. /\ events' \in Seq(EventRecord) /\ Len(events) \in Nat
        /\ Len(events') = Len(events) + 1 /\ events'[Len(events) + 1] = e
        /\ \A i \in 1..Len(events) : events'[i] = events[i]
    BY <1>1, <1>2, <1>3
  <1>5. \A i \in 1..Len(events') : i \in 1..Len(events) \/ i = Len(events) + 1
    BY <1>4
  <1>6. \A i \in 1..Len(events) : events[i].n \in Nat
    BY LocalFields
  <1>7. EmitsInOrder'
    <2>1. reader'.kind = "emit" => reader'.n <= live'.out
      BY <1>1 DEF EmitsInOrder
    <2>2. ASSUME NEW i \in 1..Len(events'), events'[i].kind = "emit"
          PROVE  events'[i].n <= live'.out
                 /\ (reader'.kind = "emit" => reader'.n < events'[i].n)
      <3>1. CASE i \in 1..Len(events)
        BY <1>1, <1>4, <1>6, <2>2, <3>1 DEF EmitsInOrder
      <3>2. CASE i = Len(events) + 1
        BY <1>1, <1>2, <1>4, <3>2 DEF EmitsInOrder
      <3>. QED BY <1>5, <3>1, <3>2
    <2>3. ASSUME NEW i \in 1..Len(events'), NEW j \in 1..Len(events'), i < j,
                 events'[i].kind = "emit", events'[j].kind = "emit"
          PROVE  events'[i].n < events'[j].n
      <3>1. i \in 1..Len(events)
        BY <1>4, <1>5, <2>3
      <3>2. CASE j \in 1..Len(events)
        BY <1>4, <2>3, <3>1, <3>2 DEF EmitsInOrder
      <3>3. CASE j = Len(events) + 1
        <4>1. events[i].n <= live.out /\ events'[i] = events[i]
          BY <1>4, <2>3, <3>1 DEF EmitsInOrder
        <4>. QED BY <1>1, <1>2, <1>4, <1>6, <3>1, <3>3, <4>1
      <3>. QED BY <1>5, <3>2, <3>3
    <2>. QED BY <2>1, <2>2, <2>3 DEF EmitsInOrder
  <1>8. EmitsKept'
    <2>1. <<e>> \in Seq(EventRecord) /\ Range(<<e>>) = {e}
      BY <1>2 DEF Range
    <2>2. Range(events') = Range(events) \union {e}
      <3>1. \A t \in Seq(EventRecord) : Range(events \o t) = Range(events) \union Range(t)
        BY <1>1, RangeConcatenation
      <3>. QED BY <1>3, <2>1, <3>1
    <2>. QED BY <1>2, <2>2 DEF EmitsKept
  <1>9. emitted' \subseteq Nat
    <2>1. live.out + 1 \in Nat
      BY <1>1
    <2>. QED BY <1>1, <2>1
  <1>. QED BY <1>4, <1>7, <1>8, <1>9

(* The reader's emit goes when it asks for the next; no other bears its    *)
(* number.                                                                 *)
LEMMA NextRead ==
  ASSUME LocalTypeOK, EmitsKept, EmitsInOrder, NextEvent
  PROVE  /\ events' \in Seq(EventRecord) /\ reader' \in EventRecord
         /\ emitted' \subseteq Nat /\ EmitsKept' /\ EmitsInOrder'
  <1>1. /\ events \in Seq(EventRecord) /\ events # <<>> /\ events' = Tail(events)
        /\ reader' = Head(events) /\ live' = live
        /\ emitted' = emitted \ (IF reader.kind = "emit" THEN {reader.n} ELSE {})
        /\ emitted \subseteq Nat
    BY DEF NextEvent, LocalTypeOK
  <1>2. /\ events' \in Seq(EventRecord) /\ Len(events) \in Nat /\ Len(events) > 0
        /\ Len(events') = Len(events) - 1 /\ reader' = events[1]
        /\ \A i \in 1..Len(events') : events'[i] = events[i + 1]
                                      /\ i + 1 \in 1..Len(events)
        /\ 1 \in 1..Len(events)
    BY <1>1
  <1>3. \A i \in 1..Len(events) : events[i].n \in Nat /\ events[i] \in EventRecord
    BY LocalFields
  <1>4. EmitsInOrder'
    <2>1. reader'.kind = "emit" => reader'.n <= live'.out
      BY <1>1, <1>2 DEF EmitsInOrder
    <2>2. ASSUME NEW i \in 1..Len(events'), events'[i].kind = "emit"
          PROVE  events'[i].n <= live'.out
                 /\ (reader'.kind = "emit" => reader'.n < events'[i].n)
      <3>1. i + 1 \in 1..Len(events) /\ 1 < i + 1 /\ events'[i] = events[i + 1]
        BY <1>2
      <3>. QED BY <1>1, <1>2, <2>2, <3>1 DEF EmitsInOrder
    <2>3. ASSUME NEW i \in 1..Len(events'), NEW j \in 1..Len(events'), i < j,
                 events'[i].kind = "emit", events'[j].kind = "emit"
          PROVE  events'[i].n < events'[j].n
      <3>1. /\ i + 1 \in 1..Len(events) /\ j + 1 \in 1..Len(events) /\ i + 1 < j + 1
            /\ events'[i] = events[i + 1] /\ events'[j] = events[j + 1]
        BY <1>2, <2>3
      <3>. QED BY <2>3, <3>1 DEF EmitsInOrder
    <2>. QED BY <2>1, <2>2, <2>3 DEF EmitsInOrder
  <1>5. Range(events) = Range(events') \union {reader'}
    <2>1. DOMAIN events = 1..Len(events) /\ DOMAIN events' = 1..Len(events')
      BY <1>1, <1>2
    <2>2. ASSUME NEW i \in 1..Len(events)
          PROVE  events[i] \in Range(events') \union {reader'}
      <3>1. CASE i = 1
        BY <1>2, <3>1
      <3>2. CASE i # 1
        <4>1. i - 1 \in 1..Len(events') /\ events'[i - 1] = events[i]
          BY <1>2, <3>2
        <4>. QED BY <2>1, <4>1 DEF Range
      <3>. QED BY <3>1, <3>2
    <2>3. Range(events) \subseteq Range(events') \union {reader'}
      BY <2>1, <2>2 DEF Range
    <2>4. Range(events') \union {reader'} \subseteq Range(events)
      BY <1>2, <2>1 DEF Range
    <2>. QED BY <2>3, <2>4
  <1>6. EmitsKept'
    <2>1. \A e \in Range(events) : e.kind = "emit" /\ reader.kind = "emit" => e.n # reader.n
      <3>1. ASSUME NEW i \in 1..Len(events), events[i].kind = "emit", reader.kind = "emit"
            PROVE  events[i].n # reader.n
        <4>1. reader.n < events[i].n /\ reader.n \in Nat /\ events[i].n \in Nat
          BY <1>3, <3>1, LocalFields DEF EmitsInOrder
        <4>. QED BY <4>1
      <3>. QED BY <1>1, <3>1 DEF Range
    <2>2. emitted = {e.n : e \in {e \in Range(events) \union {reader} : e.kind = "emit"}}
      BY DEF EmitsKept
    <2>3. emitted' = {e.n : e \in {e \in Range(events) : e.kind = "emit"}}
      <3>1. CASE reader.kind = "emit"
        BY <1>1, <2>1, <2>2, <3>1
      <3>2. CASE reader.kind # "emit"
        BY <1>1, <2>2, <3>2
      <3>. QED BY <3>1, <3>2
    <2>. QED BY <1>5, <2>3 DEF EmitsKept
  <1>. QED BY <1>1, <1>2, <1>3, <1>4, <1>6

-----------------------------------------------------------------------------
(* The driver's last step, which nothing can follow.                       *)
LEMMA DriverIsDone ==
  ASSUME LocalInv, ended = "no", NEW how \in {"close", "error", "cancel"},
         NEW before \in Seq(EventRecord),
         \A i \in 1..Len(before) : before[i].kind \in {"error", "done"},
         how = "close" => driver.pc # "turn" /\ before = <<>>,
         End(how, before), UNCHANGED <<emitted, reader>>
  PROVE  /\ live' \in LiveRecord /\ live'.sent = live.sent /\ driver' \in DriverRecord
         /\ events' \in Seq(EventRecord) /\ put' \in Seq(EventRecord)
         /\ ended' = how /\ DriverEnded' /\ EndIsLast' /\ EmitsInOrder' /\ EmitsKept'
  <1>. DEFINE es == before \o (IF how = "error" THEN <<E("fatal", 0)>> ELSE <<>>)
                           \o <<E("closed", 0)>>
  <1>1. /\ LocalTypeOK /\ EmitsInOrder /\ EndIsLast /\ EmitsKept
        /\ ended' = how /\ driver' = [driver EXCEPT !.pc = "done"]
        /\ live' = [live EXCEPT !.closed = TRUE]
        /\ events' = events \o es /\ put' = put \o es
    BY DEF End, Put, LocalInv, EndTold
  <1>2. /\ es \in Seq(EventRecord)
        /\ \A i \in 1..Len(es) : es[i].kind # "emit"
    <2>1. /\ E("fatal", 0) \in EventRecord /\ E("closed", 0) \in EventRecord
          /\ E("fatal", 0).kind = "fatal" /\ E("closed", 0).kind = "closed"
      BY EventType DEF Kinds
    <2>2. \A i \in 1..Len(before) : before[i].kind # "emit"
      OBVIOUS
    <2>. DEFINE mid == IF how = "error" THEN <<E("fatal", 0)>> ELSE <<>>
                last == <<E("closed", 0)>>
    <2>3. mid \in Seq(EventRecord) /\ \A i \in 1..Len(mid) : mid[i].kind # "emit"
      <3>1. CASE how = "error"
        <4>1. mid = <<E("fatal", 0)>>
          BY <3>1
        <4>. HIDE DEF mid
        <4>. QED BY <2>1, <4>1
      <3>2. CASE how # "error"
        <4>1. mid = <<>>
          BY <3>2
        <4>. HIDE DEF mid
        <4>. QED BY <4>1
      <3>. QED BY <3>1, <3>2
    <2>4. last \in Seq(EventRecord) /\ \A i \in 1..Len(last) : last[i].kind # "emit"
      BY <2>1
    <2>5. es = before \o mid \o last
      OBVIOUS
    <2>. HIDE DEF mid, last, es
    <2>6. /\ before \o mid \in Seq(EventRecord)
          /\ \A i \in 1..Len(before \o mid) : (before \o mid)[i].kind # "emit"
      BY <2>2, <2>3, JoinedEvents
    <2>. QED BY <2>4, <2>5, <2>6, JoinedEvents
  <1>3. live' \in LiveRecord /\ live'.sent = live.sent /\ live'.out = live.out
    <2>1. live' = [sent |-> live.sent, out |-> live.out, closed |-> TRUE,
                   opened |-> live.opened, keys |-> live.keys]
      BY <1>1 DEF LocalTypeOK, LiveRecord
    <2>. QED BY <1>1, <2>1, LocalFields DEF LiveRecord
  <1>4. driver' \in DriverRecord /\ driver'.pc = "done"
    <2>1. driver' = [pc |-> "done", turns |-> driver.turns, errors |-> driver.errors]
      BY <1>1 DEF LocalTypeOK, DriverRecord
    <2>. QED BY <1>1, <2>1, LocalFields DEF DriverRecord
  <1>5. DriverEnded'
    BY <1>1, <1>4 DEF DriverEnded
  <1>6. put' \in Seq(EventRecord) /\ EndIsLast'
    <2>1. \A i \in 1..Len(before) : before[i].kind # "closed" /\ before[i].kind # "fatal"
      OBVIOUS
    <2>2. put' = put \o (before \o (IF ended' = "error" THEN <<E("fatal", 0)>> ELSE <<>>)
                               \o <<E("closed", 0)>>)
      BY <1>1, Zenon
    <2>3. /\ ended' \in {"close", "error", "cancel"}
          /\ ended' = "close" => driver.pc # "turn" /\ before = <<>>
      BY <1>1
    <2>. HIDE DEF es
    <2>. QED BY <1>1, <2>1, <2>2, <2>3, ToldEnd
  <1>7. events' \in Seq(EventRecord) /\ EmitsInOrder' /\ EmitsKept'
    <2>. HIDE DEF es
    <2>. QED BY <1>1, <1>2, <1>3, NothingEmitted
  <1>. QED BY <1>1, <1>3, <1>4, <1>5, <1>6, <1>7

(* A step that leaves the driver where it is, and tells nothing.           *)
LEMMA NoEventTold ==
  ASSUME EndIsLast, EmitsInOrder, EmitsKept, DriverEnded,
         UNCHANGED <<driver, events, emitted, reader, ended, put>>, live'.out = live.out
  PROVE  EndIsLast' /\ EmitsInOrder' /\ EmitsKept' /\ DriverEnded'
  BY DEF EndIsLast, EmitsInOrder, EmitsKept, DriverEnded

LEMMA MessagesSent ==
  ASSUME LocalInv, NEW key \in Keys \union {None}, Send(key)
  PROVE  LocalInv'
  <1>1. /\ LocalTypeOK /\ MessagesInLine /\ EmitsInOrder /\ DriverEnded
        /\ HandedInOrder /\ EndIsLast /\ EmitsKept
    BY DEF LocalInv, EndTold
  <1>2. /\ ended = "no" /\ queue' = Append(queue, live.sent + 1)
        /\ live' = [live EXCEPT !.sent = @ + 1, !.opened = TRUE,
                                !.keys = @ \union ({key} \ {None})]
        /\ UNCHANGED <<driver, events, emitted, reader, ended, closes, handed, put>>
    BY DEF Send
  <1>3. live' \in LiveRecord /\ live'.sent = live.sent + 1 /\ live'.out = live.out
    <2>1. live' = [sent |-> live.sent + 1, out |-> live.out, closed |-> live.closed,
                   opened |-> TRUE, keys |-> live.keys \union ({key} \ {None})]
      BY <1>1, <1>2 DEF LocalTypeOK, LiveRecord
    <2>2. /\ live.sent + 1 \in Nat /\ live.out \in Nat /\ live.closed \in BOOLEAN
          /\ live.keys \union ({key} \ {None}) \in SUBSET Keys
      BY <1>1, LocalFields
    <2>. QED BY <2>1, <2>2 DEF LiveRecord
  <1>4. queue' \in Seq(Nat) /\ MessagesInLine'
    BY <1>1, <1>2, <1>3, MessageAccepted
  <1>5. LocalTypeOK'
    BY <1>1, <1>2, <1>3, <1>4 DEF LocalTypeOK
  <1>6. HandedInOrder'
    BY <1>1, <1>2 DEF HandedInOrder
  <1>7. EndIsLast' /\ EmitsInOrder' /\ EmitsKept' /\ DriverEnded'
    BY <1>1, <1>2, <1>3, NoEventTold
  <1>. QED BY <1>4, <1>5, <1>6, <1>7 DEF LocalInv, EndTold

LEMMA CloseAsked ==
  ASSUME LocalInv, Close
  PROVE  LocalInv'
  <1>1. /\ LocalTypeOK /\ MessagesInLine /\ EmitsInOrder /\ DriverEnded
        /\ HandedInOrder /\ EndIsLast /\ EmitsKept
    BY DEF LocalInv, EndTold
  <1>2. /\ queue' = (IF live.opened THEN Append(queue, WAKE) ELSE queue)
        /\ live' = [live EXCEPT !.closed = TRUE]
        /\ UNCHANGED <<driver, events, emitted, reader, ended, handed, put>>
    BY DEF Close
  <1>3. live' \in LiveRecord /\ live'.sent = live.sent /\ live'.out = live.out
    <2>1. live' = [sent |-> live.sent, out |-> live.out, closed |-> TRUE,
                   opened |-> live.opened, keys |-> live.keys]
      BY <1>1, <1>2 DEF LocalTypeOK, LiveRecord
    <2>. QED BY <1>1, <2>1, LocalFields DEF LiveRecord
  <1>4. queue' \in Seq(Nat) /\ MessagesInLine'
    <2>1. CASE queue' = Append(queue, WAKE)
      BY <1>1, <1>2, <1>3, <2>1, WakeQueued
    <2>2. CASE queue' = queue
      BY <1>1, <1>2, <1>3, <2>2 DEF MessagesInLine, LocalTypeOK
    <2>. QED BY <1>2, <2>1, <2>2
  <1>5. LocalTypeOK'
    BY <1>1, <1>2, <1>3, <1>4 DEF LocalTypeOK
  <1>6. HandedInOrder'
    BY <1>1, <1>2, <1>3 DEF HandedInOrder
  <1>7. EndIsLast' /\ EmitsInOrder' /\ EmitsKept' /\ DriverEnded'
    BY <1>1, <1>2, <1>3, NoEventTold
  <1>. QED BY <1>4, <1>5, <1>6, <1>7 DEF LocalInv, EndTold

(* An end for which there is nothing to hand over, or that is no close.    *)
LEMMA SessionOver ==
  ASSUME LocalInv, ended = "no", NEW how \in {"close", "error", "cancel"},
         NEW before \in Seq(EventRecord),
         \A i \in 1..Len(before) : before[i].kind \in {"error", "done"},
         how = "close" => driver.pc # "turn" /\ before = <<>>,
         End(how, before), UNCHANGED <<emitted, reader>>,
         queue' \in Seq(Nat), handed' = handed, MessagesInLine',
         how = "close" => Len(handed) = live.sent
  PROVE  LocalInv'
  <1>1. /\ live' \in LiveRecord /\ live'.sent = live.sent /\ driver' \in DriverRecord
        /\ events' \in Seq(EventRecord) /\ put' \in Seq(EventRecord)
        /\ ended' = how /\ DriverEnded' /\ EndIsLast' /\ EmitsInOrder' /\ EmitsKept'
    BY DriverIsDone
  <1>2. LocalTypeOK /\ HandedInOrder
    BY DEF LocalInv, EndTold
  <1>3. LocalTypeOK'
    BY <1>1, <1>2 DEF LocalTypeOK
  <1>4. HandedInOrder'
    BY <1>1, <1>2 DEF HandedInOrder
  <1>. QED BY <1>1, <1>3, <1>4 DEF LocalInv, EndTold

LEMMA CloseIsCanceled ==
  ASSUME LocalInv, CloseCanceled
  PROVE  LocalInv'
  <1>1. /\ ended = "no" /\ End("cancel", <<>>)
        /\ UNCHANGED <<queue, emitted, reader, closes, handed>>
    BY DEF CloseCanceled
  <1>2. live'.sent = live.sent
    BY <1>1 DEF End, LocalInv, LocalTypeOK, LiveRecord
  <1>3. queue' \in Seq(Nat) /\ MessagesInLine'
    BY <1>1, <1>2 DEF LocalInv, LocalTypeOK, MessagesInLine
  <1>4. <<>> \in Seq(EventRecord) /\ \A i \in 1..Len(<<>>) : <<>>[i].kind \in {"error", "done"}
    OBVIOUS
  <1>. QED BY <1>1, <1>3, <1>4, SessionOver

(* A round that is over leaves the driver to the next message, or it was   *)
(* the last.                                                               *)
LEMMA TurnsAreOver ==
  ASSUME LocalInv, driver.pc \in {"turn", "recv"}, NEW errors \in Nat, NEW es \in Seq(EventRecord),
         \A i \in 1..Len(es) : es[i].kind \in {"error", "done"},
         Len(es) > 0, es[Len(es)].kind = "done" \/ driver.pc = "recv",
         TurnOver(errors, es), UNCHANGED <<queue, emitted, reader, closes, handed>>
  PROVE  LocalInv'
  <1>1. /\ LocalTypeOK /\ MessagesInLine /\ EmitsInOrder /\ DriverEnded
        /\ HandedInOrder /\ EndIsLast /\ EmitsKept
    BY DEF LocalInv, EndTold
  <1>2. ended = "no"
    BY <1>1 DEF DriverEnded
  <1>3. CASE End("error", es)
    <2>1. live'.sent = live.sent
      BY <1>1, <1>3 DEF End, LocalTypeOK, LiveRecord
    <2>2. queue' \in Seq(Nat) /\ MessagesInLine'
      BY <1>1, <2>1 DEF LocalTypeOK, MessagesInLine
    <2>. QED BY <1>2, <1>3, <2>2, SessionOver
  <1>4. CASE ~End("error", es)
    <2>1. /\ driver' = [pc |-> "recv", turns |-> driver.turns + 1, errors |-> errors]
          /\ events' = events \o es /\ put' = put \o es /\ UNCHANGED <<live, ended>>
      BY <1>4 DEF TurnOver, Put
    <2>2. driver' \in DriverRecord /\ driver'.pc = "recv"
      <3>1. driver.turns + 1 \in Nat
        BY <1>1, LocalFields
      <3>. QED BY <2>1, <3>1 DEF DriverRecord
    <2>3. put' \in Seq(EventRecord) /\ EndIsLast'
      <3>1. \A i \in 1..Len(es) : /\ es[i].kind # "closed" /\ es[i].kind # "fatal"
                                  /\ es[i].kind # "started"
        OBVIOUS
      <3>. QED BY <1>1, <1>2, <2>1, <3>1, ToldOn
    <2>4. events' \in Seq(EventRecord) /\ EmitsKept' /\ EmitsInOrder'
      <3>1. \A i \in 1..Len(es) : es[i].kind # "emit"
        OBVIOUS
      <3>. QED BY <1>1, <2>1, <3>1, NothingEmitted
    <2>5. LocalTypeOK' /\ MessagesInLine' /\ HandedInOrder' /\ DriverEnded'
      BY <1>1, <1>2, <2>1, <2>2, <2>3, <2>4
         DEF LocalTypeOK, MessagesInLine, HandedInOrder, DriverEnded
    <2>. QED BY <2>3, <2>4, <2>5 DEF LocalInv, EndTold
  <1>. QED BY <1>3, <1>4
LEMMA MessageReceived ==
  ASSUME LocalInv, Recv
  PROVE  LocalInv'
  <1>1. /\ LocalTypeOK /\ MessagesInLine /\ EmitsInOrder /\ DriverEnded
        /\ HandedInOrder /\ EndIsLast /\ EmitsKept
    BY DEF LocalInv, EndTold
  <1>2. driver.pc = "recv" /\ ended = "no" /\ UNCHANGED <<emitted, reader, closes>>
    BY <1>1 DEF Recv, DriverEnded
  <1>3. <<>> \in Seq(EventRecord) /\ \A i \in 1..Len(<<>>) : <<>>[i].kind \in {"error", "done"}
    OBVIOUS
  <1>4. End("close", <<>>) => live'.sent = live.sent
    BY <1>1 DEF End, LocalTypeOK, LiveRecord
  <1>5. queue \in Seq(Nat) /\ Len(queue) \in Nat
    BY <1>1, LocalFields DEF LocalTypeOK
  <1>6. CASE NothingLeft(queue) /\ End("close", <<>>) /\ UNCHANGED <<queue, handed>>
    <2>1. queue = <<>>
      BY <1>6 DEF NothingLeft
    <2>2. Len(handed) = live.sent
      BY <1>1, <2>1, AllHandedOver
    <2>3. queue' \in Seq(Nat) /\ MessagesInLine'
      BY <1>1, <1>4, <1>5, <1>6 DEF MessagesInLine
    <2>. QED BY <1>2, <1>3, <1>6, <2>2, <2>3, SessionOver
  <1>7. CASE /\ live' = [live EXCEPT !.opened = TRUE]
             /\ UNCHANGED <<queue, driver, events, ended, handed, put>>
    <2>1. live' \in LiveRecord /\ live'.sent = live.sent /\ live'.out = live.out
      <3>1. live' = [sent |-> live.sent, out |-> live.out, closed |-> live.closed,
                     opened |-> TRUE, keys |-> live.keys]
        BY <1>1, <1>7 DEF LocalTypeOK, LiveRecord
      <3>. QED BY <1>1, <3>1, LocalFields DEF LiveRecord
    <2>2. LocalTypeOK' /\ MessagesInLine' /\ HandedInOrder'
      BY <1>1, <1>2, <1>7, <2>1 DEF LocalTypeOK, MessagesInLine, HandedInOrder
    <2>3. EndIsLast' /\ EmitsInOrder' /\ EmitsKept' /\ DriverEnded'
      BY <1>1, <1>2, <1>7, <2>1, NoEventTold
    <2>. QED BY <2>2, <2>3 DEF LocalInv, EndTold
  <1>8. CASE queue # <<>> /\ queue' = Tail(queue) /\ Head(queue) = WAKE /\ handed' = handed
             /\ NothingLeft(Tail(queue)) /\ End("close", <<>>)
    <2>1. \A i \in 1..Len(queue) : queue[i] = WAKE
      <3>. DEFINE rest == Tail(queue)
      <3>1. /\ rest \in Seq(Nat) /\ Len(queue) > 0 /\ Head(queue) = queue[1]
            /\ Len(rest) = Len(queue) - 1
        BY <1>5, <1>8
      <3>2. rest = <<>>
        BY <1>8 DEF NothingLeft
      <3>. HIDE DEF rest
      <3>3. Len(rest) = 0
        BY <3>2
      <3>. QED BY <1>5, <1>8, <3>1, <3>3
    <2>2. Len(handed) = live.sent
      BY <1>1, <2>1, AllHandedOver
    <2>3. queue' \in Seq(Nat) /\ MessagesInLine'
      BY <1>1, <1>4, <1>8, FirstTaken
    <2>. QED BY <1>2, <1>3, <1>8, <2>2, <2>3, SessionOver
  <1>9. CASE queue # <<>> /\ queue' = Tail(queue) /\ Head(queue) = WAKE /\ handed' = handed
             /\ UNCHANGED <<live, driver, events, ended, put>>
    <2>1. queue' \in Seq(Nat) /\ MessagesInLine'
      BY <1>1, <1>9, FirstTaken
    <2>2. LocalTypeOK' /\ HandedInOrder'
      BY <1>1, <1>2, <1>9, <2>1 DEF LocalTypeOK, HandedInOrder
    <2>3. EndIsLast' /\ EmitsInOrder' /\ EmitsKept' /\ DriverEnded'
      BY <1>1, <1>2, <1>9, NoEventTold
    <2>. QED BY <2>1, <2>2, <2>3 DEF LocalInv, EndTold
  <1>10. CASE queue # <<>> /\ queue' = Tail(queue) /\ Head(queue) # WAKE
              /\ handed' = Append(handed, Head(queue))
              /\ driver' = [driver EXCEPT !.pc = "turn"]
              /\ Put(<<E("started", 0)>>) /\ UNCHANGED <<live, ended>>
    <2>. DEFINE es == <<E("started", 0)>>
    <2>1. /\ queue' \in Seq(Nat) /\ handed' \in Seq(Nat) /\ MessagesInLine'
          /\ handed' = [i \in 1..Len(handed') |-> i]
      BY <1>1, <1>10, FirstTaken
    <2>2. driver' \in DriverRecord /\ driver'.pc = "turn"
      <3>1. driver' = [pc |-> "turn", turns |-> driver.turns, errors |-> driver.errors]
        BY <1>1, <1>10 DEF LocalTypeOK, DriverRecord
      <3>. QED BY <1>1, <3>1, LocalFields DEF DriverRecord
    <2>3. /\ es \in Seq(EventRecord)
          /\ \A i \in 1..Len(es) : es[i].kind = "started"
      <3>1. E("started", 0) \in EventRecord /\ E("started", 0).kind = "started"
        BY EventType DEF Kinds
      <3>. QED BY <3>1
    <2>4. events' = events \o es /\ put' = put \o es
      BY <1>10 DEF Put
    <2>. HIDE DEF es
    <2>5. put' \in Seq(EventRecord) /\ EndIsLast'
      BY <1>1, <1>2, <1>10, <2>2, <2>3, <2>4, ToldOn
    <2>6. events' \in Seq(EventRecord) /\ EmitsKept' /\ EmitsInOrder'
      BY <1>1, <1>2, <1>10, <2>3, <2>4, NothingEmitted
    <2>7. LocalTypeOK' /\ DriverEnded' /\ HandedInOrder'
      BY <1>1, <1>2, <1>10, <2>1, <2>2, <2>5, <2>6
         DEF LocalTypeOK, DriverEnded, HandedInOrder
    <2>. QED BY <2>1, <2>5, <2>6, <2>7 DEF LocalInv, EndTold
  <1>. QED BY <1>2, <1>6, <1>7, <1>8, <1>9, <1>10 DEF Recv

LEMMA BodyHasEmitted ==
  ASSUME LocalInv, BodyEmits
  PROVE  LocalInv'
  <1>1. /\ LocalTypeOK /\ MessagesInLine /\ EmitsInOrder /\ DriverEnded
        /\ HandedInOrder /\ EndIsLast /\ EmitsKept
    BY DEF LocalInv, EndTold
  <1>. DEFINE es == <<E("emit", live.out + 1)>>
  <1>2. /\ driver.pc = "turn" /\ ended = "no"
        /\ live' = [live EXCEPT !.out = @ + 1]
        /\ emitted' = emitted \union {live.out + 1}
        /\ events' = events \o es /\ put' = put \o es
        /\ UNCHANGED <<queue, driver, reader, ended, closes, handed>>
    BY <1>1 DEF BodyEmits, Put, DriverEnded
  <1>3. live' \in LiveRecord /\ live'.sent = live.sent /\ live'.out = live.out + 1
    <2>1. live' = [sent |-> live.sent, out |-> live.out + 1, closed |-> live.closed,
                   opened |-> live.opened, keys |-> live.keys]
      BY <1>1, <1>2 DEF LocalTypeOK, LiveRecord
    <2>2. live.out + 1 \in Nat
      BY <1>1, LocalFields
    <2>. QED BY <1>1, <2>1, <2>2, LocalFields DEF LiveRecord
  <1>4. es \in Seq(EventRecord) /\ \A i \in 1..Len(es) : es[i].kind = "emit"
    <2>1. "emit" \in Kinds /\ live.out + 1 \in Nat
      BY <1>1, LocalFields DEF Kinds
    <2>2. E("emit", live.out + 1) \in EventRecord /\ E("emit", live.out + 1).kind = "emit"
      BY <2>1, EventType
    <2>. QED BY <2>2
  <1>5. events' \in Seq(EventRecord) /\ emitted' \subseteq Nat /\ EmitsKept' /\ EmitsInOrder'
    BY <1>1, <1>2, <1>3, OneEmitted
  <1>. HIDE DEF es
  <1>6. put' \in Seq(EventRecord) /\ EndIsLast'
    BY <1>1, <1>2, <1>4, ToldOn
  <1>7. LocalTypeOK' /\ MessagesInLine' /\ DriverEnded' /\ HandedInOrder'
    BY <1>1, <1>2, <1>3, <1>5, <1>6
       DEF LocalTypeOK, MessagesInLine, DriverEnded, HandedInOrder
  <1>. QED BY <1>5, <1>6, <1>7 DEF LocalInv, EndTold

LEMMA TurnHasSucceeded ==
  ASSUME LocalInv, TurnSucceeds
  PROVE  LocalInv'
  <1>. DEFINE es == <<E("done", 0)>>
  <1>1. /\ driver.pc = "turn" /\ TurnOver(0, es)
        /\ UNCHANGED <<queue, emitted, reader, closes, handed>>
    BY DEF TurnSucceeds
  <1>2. E("done", 0) \in EventRecord /\ E("done", 0).kind = "done"
    BY EventType DEF Kinds
  <1>3. /\ es \in Seq(EventRecord) /\ Len(es) > 0 /\ es[Len(es)].kind = "done"
        /\ \A i \in 1..Len(es) : es[i].kind \in {"error", "done"}
    BY <1>2
  <1>. HIDE DEF es
  <1>. QED BY <1>1, <1>3, TurnsAreOver

LEMMA FatalTold ==
  ASSUME LocalInv, ended = "no", End("error", <<>>),
         UNCHANGED <<queue, emitted, reader, closes, handed>>
  PROVE  LocalInv'
  <1>1. live'.sent = live.sent
    BY DEF End, LocalInv, LocalTypeOK, LiveRecord
  <1>2. queue' \in Seq(Nat) /\ MessagesInLine'
    BY <1>1 DEF LocalInv, LocalTypeOK, MessagesInLine
  <1>3. /\ <<>> \in Seq(EventRecord)
        /\ \A i \in 1..Len(<<>>) : <<>>[i].kind \in {"error", "done"}
    OBVIOUS
  <1>. QED BY <1>2, <1>3, SessionOver

LEMMA TurnHasFailed ==
  ASSUME LocalInv, TurnFails
  PROVE  LocalInv'
  <1>1. LocalTypeOK /\ driver.pc = "turn" /\ ended = "no"
        /\ UNCHANGED <<queue, emitted, reader, closes, handed>>
    BY DEF TurnFails, LocalInv, DriverEnded
  <1>2. CASE End("error", <<>>)
    BY <1>1, <1>2, FatalTold
  <1>3. CASE TurnOver(driver.errors + 1, <<E("error", 0), E("done", 0)>>)
    <2>. DEFINE es == <<E("error", 0), E("done", 0)>>
    <2>1. /\ E("error", 0) \in EventRecord /\ E("error", 0).kind = "error"
          /\ E("done", 0) \in EventRecord /\ E("done", 0).kind = "done"
      BY EventType DEF Kinds
    <2>2. /\ es \in Seq(EventRecord) /\ Len(es) > 0 /\ es[Len(es)].kind = "done"
          /\ \A i \in 1..Len(es) : es[i].kind \in {"error", "done"}
      BY <2>1
    <2>3. driver.errors + 1 \in Nat
      BY <1>1, LocalFields
    <2>4. TurnOver(driver.errors + 1, es)
      BY <1>3
    <2>. HIDE DEF es
    <2>. QED BY <1>1, <2>2, <2>3, <2>4, TurnsAreOver
  <1>. QED BY <1>2, <1>3 DEF TurnFails

LEMMA RoundHasFailed ==
  ASSUME LocalInv, FailsEarly
  PROVE  LocalInv'
  <1>1. LocalTypeOK /\ driver.pc = "recv" /\ ended = "no"
        /\ UNCHANGED <<queue, emitted, reader, closes, handed>>
    BY DEF FailsEarly, LocalInv, DriverEnded
  <1>2. CASE End("error", <<>>)
    BY <1>1, <1>2, FatalTold
  <1>3. CASE TurnOver(driver.errors + 1, <<E("error", 0)>>)
    <2>. DEFINE es == <<E("error", 0)>>
    <2>1. E("error", 0) \in EventRecord /\ E("error", 0).kind = "error"
      BY EventType DEF Kinds
    <2>2. /\ es \in Seq(EventRecord) /\ Len(es) > 0
          /\ \A i \in 1..Len(es) : es[i].kind \in {"error", "done"}
      BY <2>1
    <2>3. driver.errors + 1 \in Nat
      BY <1>1, LocalFields
    <2>4. TurnOver(driver.errors + 1, es)
      BY <1>3
    <2>. HIDE DEF es
    <2>. QED BY <1>1, <2>2, <2>3, <2>4, TurnsAreOver
  <1>. QED BY <1>2, <1>3 DEF FailsEarly

LEMMA EventRead ==
  ASSUME LocalInv, NextEvent
  PROVE  LocalInv'
  <1>1. /\ LocalTypeOK /\ MessagesInLine /\ EmitsInOrder /\ DriverEnded
        /\ HandedInOrder /\ EndIsLast /\ EmitsKept
    BY DEF LocalInv, EndTold
  <1>2. /\ events' \in Seq(EventRecord) /\ reader' \in EventRecord
        /\ emitted' \subseteq Nat /\ EmitsKept' /\ EmitsInOrder'
    BY <1>1, NextRead
  <1>3. UNCHANGED <<queue, live, driver, ended, closes, handed, put>>
    BY DEF NextEvent
  <1>4. /\ LocalTypeOK' /\ MessagesInLine' /\ DriverEnded' /\ HandedInOrder' /\ EndIsLast'
    BY <1>1, <1>2, <1>3
       DEF LocalTypeOK, MessagesInLine, DriverEnded, HandedInOrder, EndIsLast
  <1>. QED BY <1>2, <1>4 DEF LocalInv, EndTold

LEMMA NobodyActs ==
  ASSUME LocalInv,
         UNCHANGED <<queue, live, driver, events, emitted, reader, ended, handed, put>>
  PROVE  LocalInv'
  <1>1. LocalTypeOK' /\ MessagesInLine' /\ HandedInOrder'
    BY DEF LocalInv, EndTold, LocalTypeOK, MessagesInLine, HandedInOrder
  <1>2. EndIsLast' /\ EmitsInOrder' /\ EmitsKept' /\ DriverEnded'
    BY NoEventTold DEF LocalInv, EndTold
  <1>. QED BY <1>1, <1>2 DEF LocalInv, EndTold

LEMMA LocalInvHolds == LocalSpec => []LocalInv
  <1>1. LocalInv /\ [LocalNext]_localVars => LocalInv'
    <2>. SUFFICES ASSUME LocalInv, [LocalNext]_localVars PROVE LocalInv'
      OBVIOUS
    <2>1. ASSUME NEW key \in Keys \union {None}, Send(key) PROVE LocalInv'
      BY <2>1, MessagesSent
    <2>2. CASE Close
      BY <2>2, CloseAsked
    <2>3. CASE CloseReturns
      BY <2>3, NobodyActs DEF CloseReturns
    <2>4. CASE CloseCanceled
      BY <2>4, CloseIsCanceled
    <2>5. CASE Recv
      BY <2>5, MessageReceived
    <2>6. CASE TurnSucceeds
      BY <2>6, TurnHasSucceeded
    <2>7. CASE TurnFails
      BY <2>7, TurnHasFailed
    <2>11. CASE FailsEarly
      BY <2>11, RoundHasFailed
    <2>8. CASE BodyEmits
      BY <2>8, BodyHasEmitted
    <2>9. CASE NextEvent
      BY <2>9, EventRead
    <2>10. CASE UNCHANGED localVars
      BY <2>10, NobodyActs DEF localVars
    <2>. QED BY <2>1, <2>2, <2>3, <2>4, <2>5, <2>6, <2>7, <2>8, <2>9, <2>10, <2>11
                DEF LocalNext, Drives
  <1>. QED BY <1>1, LocalStarts, PTL DEF LocalSpec

(* A local session ends as it says: it hands over its messages in order    *)
(* and, closed by its client, all that it accepted; Closed is its last     *)
(* event, behind the fatal error if there was one; and an emit is kept     *)
(* until its reader asks for what comes next.  A part of LocalSessionEnds. *)
THEOREM SessionsEndAsTheySay == LocalSpec => []EndTold
  <1>1. LocalInv => EndTold
    BY DEF LocalInv
  <1>. QED BY <1>1, LocalInvHolds, PTL
=============================================================================
