-------------------------- MODULE ControlPlaneProofs --------------------------
(***************************************************************************)
(* Proofs about ControlPlane, for any requests and releases, any batch     *)
(* size and any budget: one key starts one workflow, its end sticks, and   *)
(* a stream that ended told everything.                                    *)
(***************************************************************************)
EXTENDS ControlPlane, DataLemmas, TLAPS

Ends == {"completed", "failed", "canceled"}

RequestRecord ==
  [pc : {"idle", "create", "start", "wait", "check", "answered", "conflict", "error"},
   asks : Releases \union {None}, release : Releases \union {None}]
EventRecord == [seg : Nat, n : Nat, terminal : BOOLEAN]
WorkflowRecord ==
  [pc : {"none", "body", "drain", "final", "over"},
   outcome : TERMINAL_RUN_STATUSES \union {"running", "continued"},
   seg : Nat, produced : Nat, cursor : Nat, clean : BOOLEAN]
ActRecord == [kind : {"persist"} \union Ends, seg : Nat, first : Nat, last : Nat]
RecRecord ==
  [pc : {"idle", "describe", "apply", "event"}, submitting : BOOLEAN,
   verdict : {"not_found", "running"} \union TERMINAL_RUN_STATUSES]
ReaderRecord ==
  [pc : {"off", "read", "status", "ended"}, cursor : Nat, terminal_seen : BOOLEAN,
   empty : BOOLEAN, got : Seq(EventRecord)]

StateOK ==
  /\ TypeOK
  /\ request \in [Requests -> RequestRecord]
  /\ \A q \in Requests : request[q].pc # "idle" => request[q].release \in Releases
  /\ rpc \in {"none", "sent", "done", "lost"}
  /\ wf \in WorkflowRecord
  /\ wf.pc = "drain" => wf.outcome \in Ends \union {"continued"}
  /\ wf.pc = "final" => wf.outcome \in Ends
  /\ wf.pc = "over" => wf.outcome \in TERMINAL_RUN_STATUSES
  /\ act # None =>
       /\ act \in ActRecord /\ act.last <= wf.produced
       /\ act.kind # "persist" => wf.pc \in {"final", "over"}
  /\ rec \in RecRecord
  /\ rec.pc = "event" => rec.verdict \in TERMINAL_RUN_STATUSES

(* Whoever submits has the row, alone, and calls Temporal once.            *)
Submits(q) == request[q].pc \in {"start", "wait", "check"}

Submission ==
  /\ \A p, q \in Requests : Submits(p) /\ Submits(q) => p = q
  /\ \A q \in Requests : request[q].pc = "start" => rpc = "none"
  /\ starts = IF rpc = "done" THEN 1 ELSE 0
  /\ rpc = "done" <=> wf.pc # "none"
  /\ wf.pc = "none" => act = None
  /\ row = None =>
       /\ rpc = "none" /\ rec.pc = "idle" /\ reader.pc = "off"
       /\ \A q \in Requests : ~Submits(q)

BaseInv == StateOK /\ Submission

-----------------------------------------------------------------------------
(* What the workflow emitted before its present segment.                   *)
earlier == Len(emitted) - wf.produced

EmittedOK ==
  /\ emitted \in Seq(EventRecord) /\ wf.produced <= Len(emitted)
  /\ \A i \in 1..Len(emitted) :
       /\ i <= earlier => emitted[i].seg < wf.seg /\ ~emitted[i].terminal
       /\ i > earlier => emitted[i] = Event(wf.seg, i - earlier)

(* Until the workflow is over, the log follows what it emitted.            *)
LogFollows ==
  /\ log \in Seq(EventRecord)
  /\ wf.clean => wf.pc = "over"
  /\ wf.pc = "none" => emitted = <<>> /\ log = <<>>
  /\ wf.pc \in {"body", "drain"} =>
       /\ act # None => /\ act.kind = "persist" /\ act.seg = wf.seg
                        /\ act.first = wf.cursor + 1
                        /\ wf.cursor < act.last /\ act.last <= wf.produced
       /\ \/ log = SubSeq(emitted, 1, earlier + wf.cursor)
          \/ act # None /\ log = SubSeq(emitted, 1, earlier + act.last)
  /\ wf.pc = "final" =>
       /\ act # None => act.kind = wf.outcome /\ act.seg = wf.seg
       /\ log \in {emitted, Append(emitted, TerminalEvent(wf.seg))}
  /\ wf.clean =>
       LET all == Append(emitted, TerminalEvent(wf.seg))
       IN  act = None /\ log \in {all, Append(all, ReconciledEvent)}

(* A batch is stored as a whole, by every attempt, a late one as well.     *)
BatchStored ==
  act # None /\ act.kind = "persist" =>
    /\ act.first <= act.last
    /\ \/ \A i \in act.first..act.last : Event(act.seg, i) \in Range(log)
       \/ \A i \in act.first..act.last : Event(act.seg, i) \notin Range(log)

(* The end that the workflow stored is the one its attempts store.         *)
EndStored ==
  Finalized =>
    /\ wf.pc \in {"final", "over"}
    /\ row # None /\ row.status \in Ends
    /\ act # None => act.kind = row.status

(* The reconciler acts on a terminal verdict when the workflow is over.    *)
VerdictHolds ==
  rec.pc \in {"apply", "event"} /\ rec.verdict \in TERMINAL_RUN_STATUSES =>
    wf.pc = "over"

(* The client has what is stored up to its cursor.                         *)
ReaderFollows ==
  /\ reader \in ReaderRecord
  /\ reader.cursor <= Len(log) /\ reader.got = SubSeq(log, 1, reader.cursor)
  /\ reader.terminal_seen => \E i \in 1..reader.cursor : log[i].terminal
  /\ reader.pc = "ended" => reader.terminal_seen \/ given_up
  /\ row # None /\ row.status = "start_failed" => given_up

StreamInv ==
  EmittedOK /\ LogFollows /\ BatchStored /\ EndStored /\ VerdictHolds /\ ReaderFollows

-----------------------------------------------------------------------------
(* A row keeps its release, and a terminal status is never left.           *)
LEMMA StatusMoves ==
  ASSUME row \in Rows, NEW status \in Statuses, NEW finished \in BOOLEAN,
         set_run_status(status, finished)
  PROVE  /\ row' \in Rows
         /\ row'.status \in {row.status, status}
         /\ row.status \in TERMINAL_RUN_STATUSES => row'.status = row.status
         /\ given_up => given_up'
         /\ row'.status = "start_failed" => given_up'
  <1>. DEFINE moved == IF row.status \in _RUN_STATUS_PREDECESSORS(status)
                       THEN status ELSE row.status
              done == row.finished \/ finished
  <1>1. row' = [row EXCEPT !.status = moved, !.finished = done]
        /\ given_up' = (given_up \/ row'.status = "start_failed")
    BY DEF set_run_status
  <1>2. moved \in Statuses /\ moved \in {row.status, status} /\ done \in BOOLEAN
    BY DEF Rows
  <1>3. row.status \in TERMINAL_RUN_STATUSES => moved = row.status
    BY DEF _RUN_STATUS_PREDECESSORS, Statuses, TERMINAL_RUN_STATUSES
  <1>4. row' \in Rows /\ row'.status = moved
    <2>. HIDE DEF moved, done
    <2>. QED BY <1>1, <1>2 DEF Rows
  <1>5. (given_up => given_up') /\ (row'.status = "start_failed" => given_up')
    BY <1>1, Zenon
  <1>. QED BY <1>2, <1>3, <1>4, <1>5

LEMMA EventsMove ==
  ASSUME row \in Rows \union {None},
         row' = IF row # None /\ row.status = "accepted"
                THEN [row EXCEPT !.status = "running"] ELSE row
  PROVE  /\ row' \in Rows \union {None} /\ (row' = None <=> row = None)
         /\ row # None /\ row.status # "accepted" => row' = row
         /\ row' # row => row'.status = "running"
  BY NoRowAssumption DEF Rows, Statuses

LEMMA InitBase == Init => BaseInv
  <1>. SUFFICES ASSUME Init PROVE BaseInv
    OBVIOUS
  <1>1. active \in Releases
    BY ControlPlaneAssumption DEF Init
  <1>2. TypeOK
    BY <1>1 DEF Init, TypeOK, WorkflowInit
  <1>3. StateOK
    BY <1>2 DEF Init, StateOK, WorkflowInit, RecIdle, RequestRecord, WorkflowRecord, RecRecord
  <1>4. Submission
    BY DEF Init, Submission, Submits, WorkflowInit, RecIdle
  <1>. QED BY <1>3, <1>4 DEF BaseInv

-----------------------------------------------------------------------------
(* A step of one request, given what it does to the row and the call.      *)
LEMMA RequestFrame ==
  ASSUME BaseInv, NEW q \in Requests, NEW to \in RequestRecord,
         request' = [request EXCEPT ![q] = to], to.release \in Releases,
         row' \in Rows \union {None}, row' = None => row = None,
         to.pc \in {"start", "wait", "check"} => row' # None /\ (Submits(q) \/ row = None),
         to.pc = "start" => rpc = "none",
         rpc' # rpc => row # None /\ Submits(q) /\ to.pc # "start"
                       /\ rpc' \in {"sent", "lost"} /\ rpc # "done",
         UNCHANGED <<active, starts, wf, act, rec, reader>>
  PROVE  BaseInv'
  <1>. USE DEF BaseInv
  <1>1. /\ request' \in [Requests -> RequestRecord] /\ request'[q] = to
        /\ \A o \in Requests \ {q} : request'[o] = request[o]
    BY DEF StateOK
  <1>2. TypeOK'
    BY DEF StateOK, TypeOK
  <1>3. StateOK'
    BY <1>1, <1>2 DEF StateOK, RequestRecord, WorkflowRecord, ActRecord, RecRecord
  <1>4. \A p, o \in Requests : Submits(p)' /\ Submits(o)' => p = o
    BY <1>1 DEF Submission, Submits
  <1>5. \A o \in Requests : request'[o].pc = "start" => rpc' = "none"
    BY <1>1 DEF Submission, Submits
  <1>6. starts' = IF rpc' = "done" THEN 1 ELSE 0
    BY DEF Submission
  <1>7. row' = None => /\ rpc' = "none" /\ rec'.pc = "idle" /\ reader'.pc = "off"
                       /\ \A o \in Requests : ~Submits(o)'
    BY <1>1 DEF Submission, Submits
  <1>8. (rpc' = "done" <=> wf'.pc # "none") /\ (wf'.pc = "none" => act' = None)
    BY DEF Submission
  <1>. QED BY <1>3, <1>4, <1>5, <1>6, <1>7, <1>8 DEF Submission

LEMMA AnswerTo ==
  ASSUME BaseInv, NEW q \in Requests,
         NEW what \in {"start", "wait", "check", "answered", "conflict", "error"},
         request[q].pc # "idle", Answer(q, what)
  PROVE  \E to \in RequestRecord :
           /\ request' = [request EXCEPT ![q] = to]
           /\ to.release \in Releases /\ to.pc = what
  <1>. DEFINE to == [request[q] EXCEPT !.pc = what]
  <1>1. request[q] \in RequestRecord /\ request[q].release \in Releases
    BY DEF BaseInv, StateOK
  <1>2. to \in RequestRecord /\ to.release \in Releases /\ to.pc = what
    BY <1>1 DEF RequestRecord
  <1>3. request' = [request EXCEPT ![q] = to]
    BY DEF Answer
  <1>. QED BY <1>2, <1>3

(* The requests: whoever creates the row is the only one that goes on.     *)
LEMMA RequestKeepsBase ==
  ASSUME BaseInv, NEW q \in Requests, Request(q)
  PROVE  BaseInv'
  <1>. USE DEF front, stored, temporal, watchers
  <1>1. row \in Rows \union {None} /\ (Submits(q) => row \in Rows)
    BY DEF BaseInv, StateOK, TypeOK, Submission
  <1>2. CASE Submit(q)
    <2>1. PICK asks \in Releases \union {None} :
            request' = [request EXCEPT ![q] =
              [pc |-> IF row = None THEN "create"
                      ELSE IF row.release = (IF asks = None THEN active ELSE asks)
                      THEN "answered" ELSE "conflict",
               asks |-> asks, release |-> IF asks = None THEN active ELSE asks]]
      BY <1>2 DEF Submit
    <2>. DEFINE release == IF asks = None THEN active ELSE asks
                pc == IF row = None THEN "create"
                      ELSE IF row.release = release THEN "answered" ELSE "conflict"
                to == [pc |-> pc, asks |-> asks, release |-> release]
    <2>2. release \in Releases
      BY DEF BaseInv, StateOK, TypeOK
    <2>3. to \in RequestRecord /\ to.release \in Releases
          /\ to.pc \in {"create", "answered", "conflict"}
      BY <2>2 DEF RequestRecord
    <2>4. request' = [request EXCEPT ![q] = to]
      BY <2>1
    <2>5. UNCHANGED <<active, row, rpc, starts, wf, act, rec, reader>>
      BY <1>2 DEF Submit
    <2>. HIDE DEF to
    <2>. QED BY <1>1, <2>3, <2>4, <2>5, RequestFrame
  <1>3. CASE Create(q)
    <2>1. UNCHANGED <<active, rpc, starts, wf, act, rec, reader>> /\ request[q].pc = "create"
      BY <1>3 DEF Create
    <2>2. CASE row = None
      <3>. DEFINE release == request[q].release
      <3>0. release \in Releases
        BY <2>1 DEF BaseInv, StateOK
      <3>1. row' \in Rows
        <4>1. row' = [status |-> "submitting", release |-> release, finished |-> FALSE]
          BY <1>3, <2>2 DEF Create
        <4>. HIDE DEF release
        <4>. QED BY <3>0, <4>1 DEF Rows, Statuses
      <3>2. rpc = "none"
        BY <2>2 DEF BaseInv, Submission
      <3>3. Answer(q, "start")
        BY <1>3, <2>2 DEF Create
      <3>. QED BY <2>1, <2>2, <3>1, <3>2, <3>3, AnswerTo, RequestFrame, NoRowAssumption
    <2>3. CASE row # None
      <3>1. PICK what \in {"answered", "conflict"} : Answer(q, what)
        BY <1>3, <2>3 DEF Create
      <3>2. row' = row
        BY <1>3, <2>3 DEF Create
      <3>. QED BY <1>1, <2>1, <2>3, <3>1, <3>2, AnswerTo, RequestFrame
    <2>. QED BY <2>2, <2>3
  <1>4. CASE CannotStart(q)
    <2>1. row' \in Rows
      BY <1>1, <1>4, StatusMoves DEF CannotStart, Submits, Statuses
    <2>2. UNCHANGED <<active, rpc, starts, wf, act, rec, reader>>
          /\ Answer(q, "error") /\ request[q].pc = "start"
      BY <1>4 DEF CannotStart
    <2>. QED BY <2>1, <2>2, AnswerTo, RequestFrame, NoRowAssumption
  <1>5. CASE SendStart(q)
    <2>1. /\ UNCHANGED <<active, row, starts, wf, act, rec, reader>>
          /\ Answer(q, "wait") /\ request[q].pc = "start" /\ rpc' = "sent"
      BY <1>5 DEF SendStart
    <2>2. rpc = "none" /\ Submits(q) /\ row # None
      BY <2>1, <1>1, NoRowAssumption DEF BaseInv, Submission, Submits
    <2>. QED BY <1>1, <2>1, <2>2, AnswerTo, RequestFrame
  <1>6. CASE Ambiguous(q) \/ ServerCrash(q)
    <2>1. /\ UNCHANGED <<active, row, rpc, starts, wf, act, rec, reader>>
          /\ Answer(q, "error") /\ request[q].pc # "idle"
      BY <1>6 DEF Ambiguous, ServerCrash
    <2>. QED BY <1>1, <2>1, AnswerTo, RequestFrame
  <1>7. CASE Accept(q)
    <2>1. row' \in Rows
      BY <1>1, <1>7, StatusMoves DEF Accept, Submits, Statuses
    <2>2. UNCHANGED <<active, rpc, starts, wf, act, rec, reader>>
          /\ Answer(q, "check") /\ request[q].pc = "wait"
      BY <1>7 DEF Accept
    <2>. QED BY <2>1, <2>2, AnswerTo, RequestFrame, NoRowAssumption DEF Submits
  <1>8. CASE Check(q)
    <2>1. row' \in Rows
      BY <1>1, <1>8, StatusMoves DEF Check, Submits, Statuses
    <2>2. UNCHANGED <<active, rpc, starts, wf, act, rec, reader>>
          /\ Answer(q, "answered") /\ request[q].pc = "check"
      BY <1>8 DEF Check
    <2>. QED BY <2>1, <2>2, AnswerTo, RequestFrame, NoRowAssumption
  <1>. QED BY <1>2, <1>3, <1>4, <1>5, <1>6, <1>7, <1>8 DEF Request

(* A step of the workflow or of its activity.                              *)
LEMMA WorkflowFrame ==
  ASSUME BaseInv, wf.pc # "none", wf'.pc # "none",
         wf' \in WorkflowRecord, wf'.cursor <= wf'.produced,
         wf'.pc = "drain" => wf'.outcome \in Ends \union {"continued"},
         wf'.pc = "final" => wf'.outcome \in Ends,
         wf'.pc = "over" => wf'.outcome \in TERMINAL_RUN_STATUSES,
         act' # None =>
           /\ act' \in ActRecord /\ act'.last <= wf'.produced
           /\ act'.last - act'.first < BatchSize
           /\ act'.kind # "persist" => wf'.pc \in {"final", "over"},
         row' \in Rows,
         UNCHANGED <<active, request, rpc, starts, rec, reader>>
  PROVE  BaseInv'
  <1>1. TypeOK'
    BY DEF BaseInv, StateOK, TypeOK
  <1>2. StateOK'
    BY <1>1 DEF BaseInv, StateOK, RequestRecord, WorkflowRecord, ActRecord, RecRecord
  <1>3. Submission'
    BY NoRowAssumption DEF BaseInv, Submission, Submits
  <1>. QED BY <1>2, <1>3 DEF BaseInv

LEMMA Started == 
  ASSUME BaseInv, wf.pc # "none"
  PROVE  row \in Rows /\ rpc = "done"
  BY DEF BaseInv, StateOK, TypeOK, Submission

LEMMA MinOfTwo ==
  ASSUME NEW a \in Nat, NEW b \in Nat
  PROVE  Min({a, b}) \in {a, b} /\ Min({a, b}) <= a /\ Min({a, b}) <= b
  <1>1. \E x \in {a, b} : \A y \in {a, b} : x <= y
    OBVIOUS
  <1>. QED BY <1>1 DEF Min

(* The batch that Flush takes is of this segment and at most BatchSize.    *)
LEMMA FlushTakes ==
  ASSUME BaseInv, Flush
  PROVE  /\ act' \in ActRecord /\ act'.kind = "persist" /\ act'.seg = wf.seg
         /\ act'.first = wf.cursor + 1 /\ act'.first <= act'.last
         /\ act'.last <= wf.produced /\ act'.last - act'.first < BatchSize
  <1>. DEFINE last == Min({wf.produced, wf.cursor + BatchSize})
  <1>1. wf \in WorkflowRecord /\ wf.cursor < wf.produced
        /\ act' = [kind |-> "persist", seg |-> wf.seg, first |-> wf.cursor + 1,
                   last |-> last]
    BY DEF Flush, BaseInv, StateOK
  <1>2. /\ wf.seg \in Nat /\ wf.cursor \in Nat /\ wf.produced \in Nat
        /\ BatchSize \in Nat \ {0} /\ wf.cursor + BatchSize \in Nat
    BY <1>1, ControlPlaneAssumption DEF WorkflowRecord
  <1>3. last \in {wf.produced, wf.cursor + BatchSize}
        /\ last <= wf.produced /\ last <= wf.cursor + BatchSize
    BY <1>2, MinOfTwo
  <1>4. last \in Nat /\ wf.cursor < last
    BY <1>1, <1>2, <1>3
  <1>. HIDE DEF last
  <1>. QED BY <1>1, <1>2, <1>3, <1>4 DEF ActRecord

LEMMA WorkflowKeepsBase ==
  ASSUME BaseInv, Workflow
  PROVE  BaseInv'
  <1>. USE DEF front, stored, temporal, watchers, elsewhere, quiet
  <1>1. /\ wf \in WorkflowRecord /\ wf.cursor <= wf.produced
        /\ wf.pc = "drain" => wf.outcome \in Ends \union {"continued"}
        /\ wf.pc = "final" => wf.outcome \in Ends
        /\ wf.pc = "over" => wf.outcome \in TERMINAL_RUN_STATUSES
        /\ act # None => /\ act \in ActRecord /\ act.last <= wf.produced
                         /\ act.last - act.first < BatchSize /\ wf.pc # "none"
                         /\ act.kind # "persist" => wf.pc \in {"final", "over"}
    BY DEF BaseInv, StateOK, TypeOK, Submission
  <1>2. CASE Produce
    <2>1. /\ wf.pc = "body" /\ wf' = [wf EXCEPT !.produced = @ + 1]
          /\ UNCHANGED <<elsewhere, act>>
      BY <1>2 DEF Produce
    <2>2. /\ wf' \in WorkflowRecord /\ wf'.pc = "body" /\ wf'.cursor = wf.cursor
          /\ wf'.produced = wf.produced + 1 /\ wf.cursor \in Nat /\ wf.produced \in Nat
      BY <1>1, <2>1 DEF WorkflowRecord
    <2>3. act # None => act.last <= wf'.produced
      BY <1>1, <2>2 DEF ActRecord
    <2>. QED BY <1>1, <2>1, <2>2, <2>3, WorkflowFrame, Started
  <1>3. ASSUME NEW o \in {"completed", "failed", "continued"}, BodyEnds(o)
        PROVE  BaseInv'
    BY <1>1, <1>3, WorkflowFrame, Started
    DEF BodyEnds, WorkflowRecord, Ends, TERMINAL_RUN_STATUSES
  <1>4. CASE BootFails \/ Terminate \/ Cancel
    <2>1. PICK pc \in {"drain", "over"}, outcome \in {"failed", "canceled", "terminated"} :
            /\ wf' = [wf EXCEPT !.pc = pc, !.outcome = outcome]
            /\ pc = "drain" => wf.pc = "body" /\ outcome = "canceled"
      BY <1>4 DEF BootFails, Terminate, Cancel
    <2>2. wf.pc # "none" /\ UNCHANGED <<quiet, act>>
      BY <1>4 DEF BootFails, Terminate, Cancel
    <2>3. /\ wf' \in WorkflowRecord /\ wf'.pc = pc /\ wf'.outcome = outcome
          /\ wf'.cursor = wf.cursor /\ wf'.produced = wf.produced
      BY <1>1, <2>1 DEF WorkflowRecord, TERMINAL_RUN_STATUSES
    <2>. QED BY <1>1, <2>1, <2>2, <2>3, WorkflowFrame, Started
             DEF Ends, TERMINAL_RUN_STATUSES
  <1>5. CASE Flush
    BY <1>1, <1>5, FlushTakes, WorkflowFrame, Started DEF Flush
  <1>6. CASE Finalize
    <2>1. /\ wf.outcome \in Ends /\ wf' = [wf EXCEPT !.pc = "final"]
          /\ act' = [kind |-> wf.outcome, seg |-> wf.seg, first |-> 1, last |-> 0]
          /\ wf.pc = "drain" /\ UNCHANGED quiet
      BY <1>1, <1>6 DEF Finalize, Drained
    <2>2. act' \in ActRecord /\ act'.last - act'.first < BatchSize
      BY <1>1, <2>1, ControlPlaneAssumption DEF ActRecord, WorkflowRecord
    <2>. QED BY <1>1, <2>1, <2>2, WorkflowFrame, Started DEF WorkflowRecord
  <1>7. CASE ContinueAsNew
    <2>1. /\ wf.pc = "drain" /\ UNCHANGED quiet /\ act' = None
          /\ wf' = [pc |-> "body", outcome |-> "running", seg |-> wf.seg + 1,
                    produced |-> 0, cursor |-> 0, clean |-> FALSE]
      BY <1>7 DEF ContinueAsNew, Drained, WorkflowInit
    <2>. QED BY <1>1, <2>1, WorkflowFrame, Started DEF WorkflowRecord
  <1>8. CASE RunPersist
    <2>1. row \in Rows /\ wf.pc # "none"
      BY <1>1, <1>8, Started DEF RunPersist
    <2>2. row' \in Rows
      BY <1>8, <2>1, EventsMove DEF RunPersist, insert_events
    <2>3. /\ act.last \in Nat /\ act.last <= wf.produced /\ wf.pc # "none"
          /\ UNCHANGED <<active, request, rpc, starts, rec, reader>>
          /\ \/ UNCHANGED <<wf, act>>
             \/ wf' = [wf EXCEPT !.cursor = act.last] /\ act' = None
      BY <1>1, <1>8 DEF RunPersist, ActRecord
    <2>4. CASE UNCHANGED <<wf, act>>
      BY <1>1, <2>1, <2>2, <2>3, <2>4, WorkflowFrame
    <2>5. CASE wf' = [wf EXCEPT !.cursor = act.last] /\ act' = None
      BY <1>1, <2>1, <2>2, <2>3, <2>5, WorkflowFrame DEF WorkflowRecord
    <2>. QED BY <2>3, <2>4, <2>5
  <1>9. CASE RunFinalize
    <2>1. row \in Rows /\ wf.pc # "none" /\ act.kind \in Ends
      BY <1>1, <1>9, Started DEF RunFinalize, ActRecord
    <2>2. row' \in Rows
      BY <1>9, <2>1 DEF RunFinalize, Rows, Statuses, TERMINAL_RUN_STATUSES, Ends
    <2>3. /\ UNCHANGED <<active, request, rpc, starts, rec, reader>>
          /\ \/ UNCHANGED <<wf, act>>
             \/ /\ wf' = [wf EXCEPT !.pc = "over", !.clean = TRUE] /\ act' = None
                /\ wf.outcome \in TERMINAL_RUN_STATUSES
      BY <1>1, <1>9 DEF RunFinalize, Ends, TERMINAL_RUN_STATUSES
    <2>4. CASE UNCHANGED <<wf, act>>
      BY <1>1, <2>1, <2>2, <2>3, <2>4, WorkflowFrame
    <2>5. CASE /\ wf' = [wf EXCEPT !.pc = "over", !.clean = TRUE] /\ act' = None
               /\ wf.outcome \in TERMINAL_RUN_STATUSES
      BY <1>1, <2>1, <2>2, <2>3, <2>5, WorkflowFrame DEF WorkflowRecord
    <2>. QED BY <2>3, <2>4, <2>5
  <1>. QED BY <1>2, <1>3, <1>4, <1>5, <1>6, <1>7, <1>8, <1>9 DEF Workflow

-----------------------------------------------------------------------------
(* A step of the reconciler.                                               *)
LEMMA RecFrame ==
  ASSUME BaseInv, row \in Rows, row' \in Rows, rec' \in RecRecord,
         rec'.pc = "event" => rec'.verdict \in TERMINAL_RUN_STATUSES,
         UNCHANGED <<active, request, rpc, starts, wf, act, reader>>
  PROVE  BaseInv'
  <1>1. TypeOK'
    BY DEF BaseInv, StateOK, TypeOK
  <1>2. StateOK'
    BY <1>1 DEF BaseInv, StateOK, RequestRecord, WorkflowRecord, ActRecord, RecRecord
  <1>3. Submission'
    BY NoRowAssumption DEF BaseInv, Submission, Submits
  <1>. QED BY <1>2, <1>3 DEF BaseInv

LEMMA ReconcileKeepsBase ==
  ASSUME BaseInv, Reconcile \/ RecCrash
  PROVE  BaseInv'
  <1>. USE DEF front, stored, temporal, watchers
  <1>1. /\ rec \in RecRecord
        /\ rec.pc = "event" => rec.verdict \in TERMINAL_RUN_STATUSES
        /\ row # None \/ rec.pc # "idle" => row \in Rows
    BY DEF BaseInv, StateOK, TypeOK, Submission
  <1>2. RecIdle \in RecRecord /\ RecIdle.pc = "idle"
    BY DEF RecIdle, RecRecord
  <1>3. CASE RecList
    <2>. DEFINE submitting == row.status = "submitting"
    <2>1. /\ rec' = [rec EXCEPT !.pc = "describe", !.submitting = submitting]
          /\ submitting \in BOOLEAN /\ row # None
          /\ UNCHANGED <<front, stored, temporal, reader, budget>>
      BY <1>3 DEF RecList
    <2>. HIDE DEF submitting
    <2>2. rec' \in RecRecord /\ rec'.pc = "describe"
      BY <1>1, <2>1 DEF RecRecord
    <2>. QED BY <1>1, <2>1, <2>2, RecFrame
  <1>4. CASE RecDescribe
    <2>1. Described \in {"not_found", "running"} \union TERMINAL_RUN_STATUSES
      BY DEF Described, BaseInv, StateOK
    <2>2. rec' \in RecRecord /\ rec'.pc # "event"
      BY <1>1, <1>2, <1>4, <2>1 DEF RecDescribe, RecRecord
    <2>. QED BY <1>1, <1>4, <2>2, RecFrame DEF RecDescribe
  <1>5. CASE RecApply
    <2>. DEFINE status == CASE rec.verdict = "not_found" -> "start_failed"
                            [] rec.verdict = "running" -> "accepted"
                            [] OTHER -> rec.verdict
                finished == rec.verdict # "running"
    <2>1. status \in Statuses /\ finished \in BOOLEAN
      BY <1>1 DEF RecRecord, Statuses
    <2>2. set_run_status(status, finished) /\ row \in Rows
      BY <1>1, <1>5 DEF RecApply
    <2>3. row' \in Rows
      <3>. HIDE DEF status, finished
      <3>. QED BY <2>1, <2>2, StatusMoves
    <2>4. /\ rec' \in RecRecord
          /\ rec'.pc = "event" => rec'.verdict \in TERMINAL_RUN_STATUSES
      BY <1>1, <1>2, <1>5 DEF RecApply, RecRecord
    <2>. QED BY <1>5, <2>2, <2>3, <2>4, RecFrame DEF RecApply
  <1>6. CASE RecEvent
    BY <1>1, <1>2, <1>6, EventsMove, NoRowAssumption, RecFrame DEF RecEvent, insert_events
  <1>7. CASE RecCrash
    BY <1>1, <1>2, <1>7, RecFrame DEF RecCrash
  <1>. QED BY <1>3, <1>4, <1>5, <1>6, <1>7 DEF Reconcile

LEMMA ReaderKeepsBase ==
  ASSUME BaseInv, Connect \/ Stream \/ Disconnect
  PROVE  BaseInv'
  <1>. USE DEF front, stored, temporal, watchers
  <1>1. UNCHANGED <<active, request, row, rpc, starts, wf, act, rec>> /\ row # None
    BY DEF Connect, Stream, ReadRows, CheckStatus, Disconnect, BaseInv, Submission
  <1>2. TypeOK'
    BY <1>1 DEF BaseInv, StateOK, TypeOK
  <1>3. StateOK'
    BY <1>1, <1>2 DEF BaseInv, StateOK, RequestRecord, WorkflowRecord, ActRecord, RecRecord
  <1>4. Submission'
    BY <1>1 DEF BaseInv, Submission, Submits
  <1>. QED BY <1>3, <1>4 DEF BaseInv

(* A deployment, and what becomes of the start call.                       *)
LEMMA CallKeepsBase ==
  ASSUME BaseInv, (\E r \in Releases : Deploy(r)) \/ StartLands \/ StartLost
  PROVE  BaseInv'
  <1>. USE DEF front, stored, temporal, watchers
  <1>1. UNCHANGED <<request, row, act, rec, reader>>
    BY DEF Deploy, StartLands, StartLost
  <1>2. /\ wf' \in WorkflowRecord /\ wf'.cursor <= wf'.produced /\ active' \in Releases
        /\ wf'.produced = wf.produced
        /\ wf' # wf => wf.pc = "none" /\ wf'.pc = "body"
    <2>1. wf \in WorkflowRecord /\ wf.cursor <= wf.produced /\ active \in Releases
      BY DEF BaseInv, StateOK, TypeOK
    <2>2. CASE StartLands
      <3>1. wf' = [wf EXCEPT !.pc = "body"] /\ active' = active /\ wf.pc = "none"
        BY <2>2 DEF StartLands, BaseInv, Submission
      <3>. QED BY <2>1, <3>1 DEF WorkflowRecord
    <2>3. CASE (\E r \in Releases : Deploy(r)) \/ StartLost
      <3>1. wf' = wf /\ active' \in Releases
        BY <2>1, <2>3 DEF Deploy, StartLost
      <3>. QED BY <2>1, <3>1
    <2>. QED BY <2>2, <2>3
  <1>3. TypeOK'
    BY <1>1, <1>2 DEF BaseInv, StateOK, TypeOK
  <1>4. rpc' \in {"none", "sent", "done", "lost"} /\ (rpc' # rpc => rpc = "sent" /\ rpc' # "none")
    BY DEF Deploy, StartLands, StartLost, BaseInv, StateOK
  <1>5. StateOK'
    BY <1>1, <1>2, <1>3, <1>4
    DEF BaseInv, Submission, StateOK, RequestRecord, WorkflowRecord, ActRecord, RecRecord
  <1>6. starts' = IF rpc' = "done" THEN 1 ELSE 0
    BY DEF Deploy, StartLands, StartLost, BaseInv, Submission
  <1>7. rpc' = "done" <=> wf'.pc # "none"
    BY DEF Deploy, StartLands, StartLost, BaseInv, StateOK, Submission, WorkflowRecord
  <1>8. \A q \in Requests : Submits(q)' = Submits(q)
    BY <1>1 DEF Submits
  <1>9. Submission'
    BY <1>1, <1>4, <1>6, <1>7, <1>8 DEF BaseInv, Submission
  <1>. QED BY <1>5, <1>9 DEF BaseInv

LEMMA NextBase == BaseInv /\ [Next]_vars => BaseInv'
  <1>. SUFFICES ASSUME BaseInv, [Next]_vars PROVE BaseInv'
    OBVIOUS
  <1>1. CASE UNCHANGED vars
    <2>1. UNCHANGED <<active, request, row, rpc, starts, wf, act, rec, reader>>
      BY <1>1 DEF vars, front, stored, temporal, watchers
    <2>2. StateOK'
      BY <2>1 DEF BaseInv, StateOK, TypeOK, RequestRecord, WorkflowRecord, ActRecord, RecRecord
    <2>3. Submission'
      BY <2>1 DEF BaseInv, Submission, Submits
    <2>. QED BY <2>2, <2>3 DEF BaseInv
  <1>. QED BY <1>1, RequestKeepsBase, WorkflowKeepsBase, ReconcileKeepsBase,
              ReaderKeepsBase, CallKeepsBase DEF Next

LEMMA BaseHolds == Spec => []BaseInv
  BY InitBase, NextBase, PTL DEF Spec

(* One key, one workflow (StartsOnce): of any number of requests, answered *)
(* late, retried or cut off by a crash at any step, at most one goes on to *)
(* start the run, it has created the row, and calls Temporal once.         *)
THEOREM OneKeyOneWorkflow == Spec => []StartsOnce
  <1>1. ASSUME BaseInv PROVE StartsOnce
    <2>. DEFINE submitting == {q \in Requests : request[q].pc \in {"start", "wait", "check"}}
    <2>1. TypeOK /\ starts <= 1 /\ (starts = 1 => row # None)
      BY <1>1 DEF BaseInv, StateOK, Submission
    <2>2. \A p, q \in submitting : p = q
      BY <1>1 DEF BaseInv, Submission, Submits
    <2>. HIDE DEF submitting
    <2>3. Cardinality(submitting) <= 1
      <3>1. CASE submitting = {}
        BY <3>1, FS_EmptySet
      <3>2. CASE submitting # {}
        <4>1. PICK q \in submitting : submitting = {q}
          BY <2>2, <3>2
        <4>. QED BY <4>1, FS_Singleton
      <3>. QED BY <3>1, <3>2
    <2>. QED BY <2>1, <2>3 DEF StartsOnce, submitting
  <1>. QED BY <1>1, BaseHolds, PTL

-----------------------------------------------------------------------------
(* Parts of sequences.                                                     *)
LEMMA PrefixGrows ==
  ASSUME NEW S, NEW s \in Seq(S), NEW x \in Seq(S), NEW a \in Nat, NEW b \in Nat,
         a <= b, b <= Len(s), Len(x) = b - a, \A i \in 1..Len(x) : x[i] = s[a + i]
  PROVE  SubSeq(s, 1, a) \o x = SubSeq(s, 1, b)
  <1>1. /\ SubSeq(s, 1, a) \in Seq(S) /\ Len(SubSeq(s, 1, a)) = a
        /\ \A i \in 1..a : SubSeq(s, 1, a)[i] = s[i]
        /\ SubSeq(s, 1, b) \in Seq(S) /\ Len(SubSeq(s, 1, b)) = b
        /\ \A i \in 1..b : SubSeq(s, 1, b)[i] = s[i]
    BY SubSeqProperties
  <1>2. SubSeq(s, 1, a) \o x \in Seq(S) /\ Len(SubSeq(s, 1, a) \o x) = b
    BY <1>1
  <1>3. \A i \in 1..b : (SubSeq(s, 1, a) \o x)[i] = SubSeq(s, 1, b)[i]
    BY <1>1
  <1>. QED BY <1>1, <1>2, <1>3, SeqEqual

LEMMA PrefixElements ==
  ASSUME NEW S, NEW s \in Seq(S), NEW a \in Nat, a <= Len(s)
  PROVE  /\ SubSeq(s, 1, a) \in Seq(S) /\ DOMAIN SubSeq(s, 1, a) = 1..a
         /\ \A i \in 1..a : SubSeq(s, 1, a)[i] = s[i] /\ i \in 1..Len(s)
  <1>1. /\ SubSeq(s, 1, a) \in Seq(S) /\ Len(SubSeq(s, 1, a)) = a
        /\ \A i \in 1..a : SubSeq(s, 1, a)[i] = s[i]
    BY SubSeqProperties
  <1>. QED BY <1>1, LenProperties

LEMMA PrefixWhole ==
  ASSUME NEW S, NEW s \in Seq(S)
  PROVE  SubSeq(s, 1, Len(s)) = s
  <1>1. SubSeq(s, 1, Len(s)) \in Seq(S) /\ Len(SubSeq(s, 1, Len(s))) = Len(s)
        /\ \A i \in 1..Len(s) : SubSeq(s, 1, Len(s))[i] = s[i]
    BY SubSeqProperties
  <1>. QED BY <1>1, SeqEqual

LEMMA PrefixAndRest ==
  ASSUME NEW S, NEW s \in Seq(S), NEW a \in Nat, a <= Len(s)
  PROVE  /\ SubSeq(s, a + 1, Len(s)) \in Seq(S)
         /\ SubSeq(s, 1, a) \o SubSeq(s, a + 1, Len(s)) = SubSeq(s, 1, Len(s))
  <1>. DEFINE rest == SubSeq(s, a + 1, Len(s))
  <1>1. a + 1 \in 1..(Len(s) + 1) /\ Len(s) \in Nat /\ Len(s) \in a..Len(s)
    OBVIOUS
  <1>2. /\ rest \in Seq(S) /\ Len(rest) = Len(s) - a
        /\ \A i \in 1..(Len(s) - a) : rest[i] = s[a + i]
    BY <1>1, SubSeqProperties
  <1>. HIDE DEF rest
  <1>3. SubSeq(s, 1, a) \o rest = SubSeq(s, 1, Len(s))
    BY <1>1, <1>2, PrefixGrows
  <1>. QED BY <1>2, <1>3 DEF rest

LEMMA PrefixStays ==
  ASSUME NEW S, NEW s \in Seq(S), NEW x \in Seq(S), NEW a \in Nat, a <= Len(s)
  PROVE  SubSeq(s \o x, 1, a) = SubSeq(s, 1, a)
  <1>1. s \o x \in Seq(S) /\ Len(s \o x) >= Len(s) /\ \A i \in 1..a : (s \o x)[i] = s[i]
    OBVIOUS
  <1>2. /\ SubSeq(s, 1, a) \in Seq(S) /\ Len(SubSeq(s, 1, a)) = a
        /\ \A i \in 1..a : SubSeq(s, 1, a)[i] = s[i]
        /\ SubSeq(s \o x, 1, a) \in Seq(S) /\ Len(SubSeq(s \o x, 1, a)) = a
        /\ \A i \in 1..a : SubSeq(s \o x, 1, a)[i] = (s \o x)[i]
    BY <1>1, SubSeqProperties
  <1>. QED BY <1>1, <1>2, SeqEqual

(* What insert_events adds: nothing of a batch that is stored, all of one  *)
(* of which nothing is.                                                    *)
LEMMA NewNothing ==
  ASSUME NEW events \in Seq(EventRecord),
         \A i \in 1..Len(events) : events[i] \in Range(log)
  PROVE  New(events) = <<>>
  <1>. DEFINE new == {i \in DOMAIN events : events[i] \notin Range(log)}
              nth(n) == CHOOSE i \in new : Cardinality(new \intersect (1..i)) = n
  <1>1. new = {}
    OBVIOUS
  <1>2. Cardinality(new) = 0
    <2>. HIDE DEF new
    <2>. QED BY <1>1, FS_EmptySet
  <1>3. New(events) = [n \in 1..Cardinality(new) |-> events[nth(n)]]
    BY DEF New
  <1>. HIDE DEF new, nth
  <1>. QED BY <1>2, <1>3

LEMMA NewAll ==
  ASSUME NEW events \in Seq(EventRecord),
         \A i \in 1..Len(events) : events[i] \notin Range(log)
  PROVE  New(events) = events
  <1>. DEFINE new == {i \in DOMAIN events : events[i] \notin Range(log)}
              nth(n) == CHOOSE i \in new : Cardinality(new \intersect (1..i)) = n
  <1>1. new = 1..Len(events) /\ Len(events) \in Nat
    OBVIOUS
  <1>2. \A i \in Nat : Cardinality(1..i) = i
    BY FS_Interval
  <1>3. \A i \in new : new \intersect (1..i) = 1..i /\ i \in Nat
    BY <1>1
  <1>. HIDE DEF new
  <1>4. \A n \in new : nth(n) = n
    BY <1>2, <1>3
  <1>5. Cardinality(new) = Len(events)
    BY <1>1, <1>2
  <1>. HIDE DEF nth
  <1>6. [n \in 1..Cardinality(new) |-> events[nth(n)]] = [n \in 1..Len(events) |-> events[n]]
    BY <1>1, <1>4, <1>5
  <1>7. events = [n \in 1..Len(events) |-> events[n]]
    OBVIOUS
  <1>8. New(events) = [n \in 1..Cardinality(new) |-> events[nth(n)]]
    BY DEF New, new, nth
  <1>. QED BY <1>6, <1>7, <1>8

LEMMA NewOne ==
  ASSUME NEW e \in EventRecord
  PROVE  New(<<e>>) = IF e \in Range(log) THEN <<>> ELSE <<e>>
  <1>1. <<e>> \in Seq(EventRecord) /\ Len(<<e>>) = 1 /\ <<e>>[1] = e
    OBVIOUS
  <1>2. CASE e \in Range(log)
    <2>1. \A i \in 1..Len(<<e>>) : <<e>>[i] \in Range(log)
      BY <1>1, <1>2
    <2>. QED BY <1>1, <1>2, <2>1, NewNothing
  <1>3. CASE e \notin Range(log)
    <2>1. \A i \in 1..Len(<<e>>) : <<e>>[i] \notin Range(log)
      BY <1>1, <1>3
    <2>. QED BY <1>1, <1>3, <2>1, NewAll
  <1>. QED BY <1>2, <1>3

LEMMA EventTypes ==
  ASSUME NEW seg \in Nat, NEW n \in Nat
  PROVE  /\ Event(seg, n) \in EventRecord /\ ~Event(seg, n).terminal
         /\ TerminalEvent(seg) \in EventRecord /\ TerminalEvent(seg).terminal
         /\ ReconciledEvent \in EventRecord /\ ReconciledEvent.terminal
         /\ TerminalEvent(seg) # ReconciledEvent
  BY DEF Event, TerminalEvent, ReconciledEvent, EventRecord

-----------------------------------------------------------------------------
(* What the steps that write to the log add to it.                         *)
batch == [i \in 1..(act.last - act.first + 1) |-> Event(act.seg, act.first + i - 1)]

LEMMA BatchEvents ==
  ASSUME BaseInv, BatchStored, act # None, act.kind = "persist"
  PROVE  /\ batch \in Seq(EventRecord) /\ Len(batch) = act.last - act.first + 1
         /\ \A i \in act.first..act.last :
              i - act.first + 1 \in 1..Len(batch)
              /\ batch[i - act.first + 1] = Event(act.seg, i)
         /\ \A i \in 1..Len(batch) :
              act.first + i - 1 \in act.first..act.last
              /\ batch[i] = Event(act.seg, act.first + i - 1)
  <1>1. act.seg \in Nat /\ act.first \in Nat /\ act.last \in Nat /\ act.first <= act.last
    BY DEF BaseInv, StateOK, ActRecord, BatchStored
  <1>2. \A i \in 1..(act.last - act.first + 1) :
          act.first + i - 1 \in Nat /\ Event(act.seg, act.first + i - 1) \in EventRecord
    BY <1>1, EventTypes
  <1>3. batch \in Seq(EventRecord) /\ Len(batch) = act.last - act.first + 1
    <2>. DEFINE size == act.last - act.first + 1
                event(i) == Event(act.seg, act.first + i - 1)
    <2>1. size \in Nat /\ (\A i \in 1..size : event(i) \in EventRecord)
          /\ batch = [i \in 1..size |-> event(i)]
      BY <1>1, <1>2 DEF batch
    <2>. HIDE DEF size, event
    <2>2. batch \in Seq(EventRecord) /\ Len(batch) = size
      BY <2>1
    <2>. QED BY <2>2 DEF size
  <1>4. \A i \in 1..Len(batch) : batch[i] = Event(act.seg, act.first + i - 1)
    BY <1>3 DEF batch
  <1>5. \A i \in act.first..act.last : i - act.first + 1 \in 1..Len(batch)
                                       /\ act.first + (i - act.first + 1) - 1 = i
    BY <1>1, <1>3
  <1>6. \A i \in 1..Len(batch) : act.first + i - 1 \in act.first..act.last
    BY <1>1, <1>3
  <1>. HIDE DEF batch
  <1>. QED BY <1>3, <1>4, <1>5, <1>6

LEMMA Persisted ==
  ASSUME BaseInv, BatchStored, RunPersist
  PROVE  /\ act # None /\ act.kind = "persist"
         /\ \/ /\ log' = log \o <<>>
               /\ \A i \in act.first..act.last : Event(act.seg, i) \in Range(log)
            \/ /\ log' = log \o batch
               /\ \A i \in act.first..act.last : Event(act.seg, i) \notin Range(log)
  <1>1. act # None /\ act.kind = "persist" /\ log' = log \o New(batch)
    BY DEF RunPersist, insert_events, batch
  <1>2. /\ batch \in Seq(EventRecord)
        /\ \A i \in 1..Len(batch) :
             act.first + i - 1 \in act.first..act.last
             /\ batch[i] = Event(act.seg, act.first + i - 1)
    BY <1>1, BatchEvents
  <1>3. CASE \A i \in act.first..act.last : Event(act.seg, i) \in Range(log)
    BY <1>1, <1>2, <1>3, NewNothing
  <1>4. CASE \A i \in act.first..act.last : Event(act.seg, i) \notin Range(log)
    BY <1>1, <1>2, <1>4, NewAll
  <1>. QED BY <1>1, <1>3, <1>4 DEF BatchStored

LEMMA FinalizeStores ==
  ASSUME BaseInv, RunFinalize
  PROVE  /\ act # None /\ act.kind \in Ends /\ act.seg \in Nat
         /\ wf.pc \in {"final", "over"}
         /\ row' = [row EXCEPT !.status = act.kind, !.finished = TRUE]
         /\ log' = log \o IF TerminalEvent(act.seg) \in Range(log) THEN <<>>
                          ELSE <<TerminalEvent(act.seg)>>
  <1>1. act # None /\ act.kind \in Ends /\ act.seg \in Nat /\ wf.pc \in {"final", "over"}
    BY DEF RunFinalize, BaseInv, StateOK, ActRecord
  <1>. QED BY <1>1, EventTypes, NewOne DEF RunFinalize

LEMMA ReconcilerStores ==
  ASSUME RecEvent, log \in Seq(EventRecord)
  PROVE  \/ log' = log
         \/ /\ log' = log \o <<ReconciledEvent>> /\ ReconciledEvent \notin Range(log)
            /\ row.status = rec.verdict
  <1>1. ReconciledEvent \in EventRecord /\ log \o <<>> = log
    BY DEF ReconciledEvent, EventRecord
  <1>2. CASE row.status = rec.verdict
    <2>1. log' = log \o New(<<ReconciledEvent>>)
      BY <1>2 DEF RecEvent, insert_events
    <2>. QED BY <1>1, <1>2, <2>1, NewOne
  <1>3. CASE row.status # rec.verdict
    BY <1>3 DEF RecEvent
  <1>. QED BY <1>2, <1>3

(* Everything else leaves the log alone.                                   *)
LEMMA LogWrites ==
  ASSUME BaseInv, BatchStored, log \in Seq(EventRecord), [Next]_vars
  PROVE  \/ log' = log
         \/ RunPersist /\ act # None /\ act.kind = "persist" /\ log' = log \o batch
         \/ RunFinalize /\ log' = log \o <<TerminalEvent(act.seg)>>
         \/ RecEvent /\ log' = log \o <<ReconciledEvent>>
  <1>. USE DEF front, stored, temporal, watchers, elsewhere, quiet
  <1>1. log \o <<>> = log
    OBVIOUS
  <1>2. ASSUME NEW q \in Requests, Request(q)
        PROVE  log' = log
    BY <1>2 DEF Request, Submit, Create, CannotStart, SendStart, Ambiguous, Accept,
                Check, ServerCrash
  <1>3. CASE Workflow /\ ~RunPersist /\ ~RunFinalize
    BY <1>3 DEF Workflow, Produce, BodyEnds, BootFails, Flush, Finalize, ContinueAsNew,
                Cancel, Terminate
  <1>4. CASE RunPersist
    BY <1>1, <1>4, Persisted
  <1>5. CASE RunFinalize
    BY <1>1, <1>5, FinalizeStores
  <1>6. CASE Reconcile \/ RecCrash
    BY <1>6, ReconcilerStores DEF Reconcile, RecCrash, RecList, RecDescribe, RecApply
  <1>7. CASE \/ \E r \in Releases : Deploy(r)
             \/ StartLands \/ StartLost \/ Connect \/ Stream \/ Disconnect
             \/ UNCHANGED vars
    BY <1>7 DEF Deploy, StartLands, StartLost, Connect, Stream, ReadRows, CheckStatus,
                Disconnect, vars
  <1>. QED BY <1>2, <1>3, <1>4, <1>5, <1>6, <1>7 DEF Next

LEMMA LogGrows ==
  ASSUME BaseInv, BatchStored, log \in Seq(EventRecord), [Next]_vars
  PROVE  \E x \in Seq(EventRecord) : log' = log \o x
  <1>1. <<>> \in Seq(EventRecord) /\ log \o <<>> = log
    OBVIOUS
  <1>2. RunFinalize => TerminalEvent(act.seg) \in EventRecord
    BY FinalizeStores, EventTypes
  <1>3. ReconciledEvent \in EventRecord
    BY DEF ReconciledEvent, EventRecord
  <1>4. \A e \in EventRecord : <<e>> \in Seq(EventRecord)
    OBVIOUS
  <1>5. act # None /\ act.kind = "persist" => batch \in Seq(EventRecord)
    BY BatchEvents
  <1>. QED BY <1>1, <1>2, <1>3, <1>4, <1>5, LogWrites

(* Nobody but Temporal and the workflow change what the workflow does.     *)
LEMMA Bystanders ==
  ASSUME [Next]_vars, ~Workflow, ~StartLands
  PROVE  UNCHANGED <<wf, act, emitted>>
  <1>. USE DEF front, stored, temporal, watchers
  <1>1. ASSUME NEW q \in Requests, Request(q)
        PROVE  UNCHANGED <<wf, act, emitted>>
    BY <1>1 DEF Request, Submit, Create, CannotStart, SendStart, Ambiguous, Accept,
                Check, ServerCrash
  <1>2. CASE Reconcile \/ RecCrash
    BY <1>2 DEF Reconcile, RecCrash, RecList, RecDescribe, RecApply, RecEvent
  <1>3. CASE \/ \E r \in Releases : Deploy(r)
             \/ StartLost \/ Connect \/ Stream \/ Disconnect \/ UNCHANGED vars
    BY <1>3 DEF Deploy, StartLost, Connect, Stream, ReadRows, CheckStatus, Disconnect, vars
  <1>. QED BY <1>1, <1>2, <1>3 DEF Next

(* A workflow that is over stays as it is, with what it emitted and the    *)
(* activity it left.                                                       *)
LEMMA OverStays ==
  ASSUME BaseInv, wf.pc = "over", [Next]_vars
  PROVE  UNCHANGED <<wf, act, emitted>>
  <1>1. ~StartLands
    BY DEF StartLands, BaseInv, Submission
  <1>2. Workflow => UNCHANGED <<wf, act, emitted>>
    BY DEF Workflow, Produce, BodyEnds, BootFails, Flush, Finalize, ContinueAsNew,
           RunPersist, RunFinalize, Cancel, Terminate, Drained, quiet
  <1>. QED BY <1>1, <1>2, Bystanders

-----------------------------------------------------------------------------
LEMMA EmittedKept ==
  ASSUME BaseInv, EmittedOK, [Next]_vars
  PROVE  EmittedOK'
  <1>1. wf \in WorkflowRecord
    BY DEF BaseInv, StateOK
  <1>2. wf.seg \in Nat /\ wf.produced \in Nat /\ Len(emitted) \in Nat /\ earlier \in Nat
    BY <1>1 DEF WorkflowRecord, EmittedOK, earlier
  <1>3. CASE UNCHANGED emitted /\ wf'.seg = wf.seg /\ wf'.produced = wf.produced
    BY <1>3 DEF EmittedOK, earlier, Event
  <1>4. CASE Produce
    <2>. DEFINE e == Event(wf.seg, wf.produced + 1)
    <2>1. emitted' = Append(emitted, e) /\ wf' = [wf EXCEPT !.produced = @ + 1]
      BY <1>4 DEF Produce
    <2>2. wf'.produced = wf.produced + 1 /\ wf'.seg = wf.seg
      BY <1>1, <2>1 DEF WorkflowRecord
    <2>3. e \in EventRecord
      BY <1>2, EventTypes
    <2>. HIDE DEF e
    <2>4. /\ emitted' \in Seq(EventRecord) /\ Len(emitted') = Len(emitted) + 1
          /\ \A i \in 1..Len(emitted) : emitted'[i] = emitted[i]
          /\ emitted'[Len(emitted) + 1] = e
      BY <2>1, <2>3 DEF EmittedOK
    <2>5. earlier' = earlier
      BY <1>2, <2>2, <2>4 DEF earlier
    <2>6. ASSUME NEW i \in 1..Len(emitted')
          PROVE  /\ i <= earlier' => emitted'[i].seg < wf'.seg /\ ~emitted'[i].terminal
                 /\ i > earlier' => emitted'[i] = Event(wf'.seg, i - earlier')
      <3>1. CASE i \in 1..Len(emitted)
        BY <2>2, <2>4, <2>5, <3>1 DEF EmittedOK
      <3>2. CASE i = Len(emitted) + 1
        <4>1. i > earlier /\ i - earlier = wf.produced + 1
          BY <1>2, <3>2 DEF earlier
        <4>2. emitted'[i] = Event(wf.seg, i - earlier)
          BY <2>4, <3>2, <4>1 DEF e
        <4>. QED BY <1>2, <2>2, <2>5, <3>2, <4>1, <4>2
      <3>. QED BY <1>2, <2>4, <3>1, <3>2
    <2>. QED BY <1>2, <2>2, <2>4, <2>6 DEF EmittedOK, Event
  <1>5. CASE ContinueAsNew
    <2>1. /\ emitted' = emitted
          /\ wf' = [pc |-> "body", outcome |-> "running", seg |-> wf.seg + 1,
                    produced |-> 0, cursor |-> 0, clean |-> FALSE]
      BY <1>5 DEF ContinueAsNew, WorkflowInit, quiet
    <2>2. earlier' = Len(emitted)
      BY <1>2, <2>1 DEF earlier
    <2>3. \A i \in 1..Len(emitted) : emitted[i].seg < wf.seg + 1 /\ ~emitted[i].terminal
      <3>. SUFFICES ASSUME NEW i \in 1..Len(emitted)
                    PROVE  emitted[i].seg < wf.seg + 1 /\ ~emitted[i].terminal
        OBVIOUS
      <3>0. /\ emitted[i] \in EventRecord
            /\ i <= earlier => emitted[i].seg < wf.seg /\ ~emitted[i].terminal
            /\ i > earlier => emitted[i] = Event(wf.seg, i - earlier)
        BY DEF EmittedOK
      <3>1. CASE i <= earlier
        <4>1. emitted[i].seg \in Nat
          BY <3>0 DEF EventRecord
        <4>. QED BY <1>2, <3>0, <3>1, <4>1
      <3>2. CASE i > earlier
        BY <1>2, <3>0, <3>2 DEF Event
      <3>. QED BY <1>2, <3>1, <3>2
    <2>. QED BY <1>2, <2>1, <2>2, <2>3 DEF EmittedOK
  <1>6. CASE StartLands \/ (Workflow /\ ~Produce /\ ~ContinueAsNew)
    <2>1. emitted' = emitted
      BY <1>6 DEF StartLands, Workflow, BodyEnds, BootFails, Flush, Finalize, RunPersist,
                  RunFinalize, Cancel, Terminate, quiet
    <2>2. wf'.seg = wf.seg /\ wf'.produced = wf.produced
      BY <1>1, <1>6 DEF StartLands, Workflow, BodyEnds, BootFails, Flush, Finalize,
         RunPersist, RunFinalize, Cancel, Terminate, quiet, WorkflowRecord
    <2>. QED BY <1>3, <2>1, <2>2
  <1>. QED BY <1>3, <1>4, <1>5, <1>6, Bystanders

(* What a step does to the status of the row; only the workflow's own      *)
(* finalization overwrites a terminal one.                                 *)
LEMMA RowMoves ==
  ASSUME BaseInv, [Next]_vars
  PROVE  /\ given_up => given_up'
         /\ row' # None /\ row'.status = "start_failed" =>
              given_up' \/ (row # None /\ row.status = "start_failed")
         /\ ~RunFinalize /\ row # None /\ row.status \in TERMINAL_RUN_STATUSES =>
              row' # None /\ row'.status = row.status
  <1>. USE DEF front, stored, temporal, watchers, elsewhere, quiet
  <1>. DEFINE Moves ==
         /\ given_up => given_up'
         /\ row' # None /\ row'.status = "start_failed" =>
              given_up' \/ (row # None /\ row.status = "start_failed")
         /\ row # None /\ row.status \in TERMINAL_RUN_STATUSES =>
              row' # None /\ row'.status = row.status
  <1>1. row \in Rows \union {None}
    BY DEF BaseInv, StateOK, TypeOK
  <1>2. ASSUME row \in Rows, NEW status \in Statuses, NEW finished \in BOOLEAN,
               set_run_status(status, finished)
        PROVE  Moves
    <2>1. /\ row' \in Rows
          /\ row.status \in TERMINAL_RUN_STATUSES => row'.status = row.status
          /\ given_up => given_up'
          /\ row'.status = "start_failed" => given_up'
      BY <1>2, StatusMoves
    <2>2. row' # None
      BY <2>1, NoRowAssumption
    <2>3. row' # None /\ row'.status = "start_failed" =>
            given_up' \/ (row # None /\ row.status = "start_failed")
      BY <2>1
    <2>4. row # None /\ row.status \in TERMINAL_RUN_STATUSES =>
            row' # None /\ row'.status = row.status
      BY <2>1, <2>2
    <2>. QED BY <2>1, <2>3, <2>4
  <1>3. ASSUME row' = IF row # None /\ row.status = "accepted"
                      THEN [row EXCEPT !.status = "running"] ELSE row,
               given_up' = given_up
        PROVE  Moves
    BY <1>1, <1>3, EventsMove DEF TERMINAL_RUN_STATUSES
  <1>4. ASSUME UNCHANGED <<row, given_up>> PROVE Moves
    BY <1>4
  <1>. HIDE DEF Moves
  <1>5. ASSUME NEW q \in Requests, Request(q)
        PROVE  Moves
    <2>1. Submits(q) => row \in Rows
      BY <1>1 DEF BaseInv, Submission
    <2>2. CASE Create(q)
      <3>1. CASE row = None
        BY <2>2, <3>1 DEF Create, Moves
      <3>2. CASE row # None
        BY <1>4, <2>2, <3>2 DEF Create
      <3>. QED BY <3>1, <3>2
    <2>3. CASE CannotStart(q) \/ Accept(q) \/ Check(q)
      <3>1. row \in Rows
        BY <2>1, <2>3 DEF CannotStart, Accept, Check, Submits
      <3>2. \/ \E status \in Statuses, finished \in BOOLEAN : set_run_status(status, finished)
            \/ UNCHANGED <<row, given_up>>
        BY <2>3 DEF CannotStart, Accept, Check, Statuses
      <3>. QED BY <1>2, <1>4, <3>1, <3>2
    <2>4. CASE Submit(q) \/ SendStart(q) \/ Ambiguous(q) \/ ServerCrash(q)
      BY <1>4, <2>4 DEF Submit, SendStart, Ambiguous, ServerCrash
    <2>. QED BY <1>5, <2>2, <2>3, <2>4 DEF Request
  <1>6. CASE Workflow /\ ~RunFinalize
    <2>1. CASE RunPersist
      <3>1. /\ row' = IF row # None /\ row.status = "accepted"
                      THEN [row EXCEPT !.status = "running"] ELSE row
            /\ given_up' = given_up
        BY <2>1 DEF RunPersist, insert_events
      <3>. QED BY <1>3, <3>1 DEF Moves
    <2>2. CASE ~RunPersist
      BY <1>4, <1>6, <2>2 DEF Workflow, Produce, BodyEnds, BootFails, Flush, Finalize,
         ContinueAsNew, Cancel, Terminate
    <2>. QED BY <2>1, <2>2
  <1>7. CASE RunFinalize
    <2>1. act.kind \in Ends /\ row' = [row EXCEPT !.status = act.kind, !.finished = TRUE]
          /\ given_up' = given_up /\ row \in Rows
      BY <1>1, <1>7, FinalizeStores DEF RunFinalize, BaseInv, Submission
    <2>. QED BY <1>7, <2>1 DEF Rows, Ends
  <1>8. CASE Reconcile \/ RecCrash
    <2>1. CASE RecApply
      <3>. DEFINE status == CASE rec.verdict = "not_found" -> "start_failed"
                              [] rec.verdict = "running" -> "accepted"
                              [] OTHER -> rec.verdict
                  finished == rec.verdict # "running"
      <3>1. row \in Rows
        BY <1>1, <2>1 DEF RecApply, BaseInv, Submission
      <3>2. status \in Statuses /\ finished \in BOOLEAN /\ set_run_status(status, finished)
        BY <2>1 DEF RecApply, BaseInv, StateOK, RecRecord, Statuses
      <3>. HIDE DEF status, finished
      <3>. QED BY <1>2, <3>1, <3>2 DEF Moves
    <2>2. CASE RecEvent
      <3>1. /\ given_up' = given_up
            /\ \/ row' = row
               \/ row' = IF row # None /\ row.status = "accepted"
                         THEN [row EXCEPT !.status = "running"] ELSE row
        BY <2>2 DEF RecEvent, insert_events
      <3>. QED BY <1>3, <1>4, <3>1 DEF Moves
    <2>3. CASE RecList \/ RecDescribe \/ RecCrash
      BY <1>4, <2>3 DEF RecList, RecDescribe, RecCrash
    <2>. QED BY <1>8, <2>1, <2>2, <2>3 DEF Reconcile
  <1>9. CASE \/ \E r \in Releases : Deploy(r)
             \/ StartLands \/ StartLost \/ Connect \/ Stream \/ Disconnect
             \/ UNCHANGED vars
    BY <1>4, <1>9 DEF Deploy, StartLands, StartLost, Connect, Stream, ReadRows, CheckStatus,
                Disconnect, vars
  <1>. QED BY <1>5, <1>6, <1>7, <1>8, <1>9 DEF Next, Moves

LEMMA VerdictKept ==
  ASSUME BaseInv, VerdictHolds, [Next]_vars
  PROVE  VerdictHolds'
  <1>. USE DEF front, stored, temporal, watchers, elsewhere, quiet
  <1>1. wf.pc = "over" => wf'.pc = "over"
    BY OverStays
  <1>2. CASE RecDescribe
    BY <1>2 DEF RecDescribe, VerdictHolds, Described, RecIdle, RecRecord, BaseInv,
                StateOK, TERMINAL_RUN_STATUSES
  <1>3. CASE (Reconcile /\ ~RecDescribe) \/ RecCrash
    <2>1. rec \in RecRecord
      BY DEF BaseInv, StateOK
    <2>2. CASE RecList
      <3>1. rec'.pc = "describe"
        BY <2>1, <2>2 DEF RecList, RecRecord
      <3>. QED BY <3>1 DEF VerdictHolds
    <2>3. CASE RecApply
      <3>1. /\ rec.pc = "apply"
            /\ rec' = IF rec.verdict \in TERMINAL_RUN_STATUSES
                      THEN [rec EXCEPT !.pc = "event"] ELSE RecIdle
        BY <2>3 DEF RecApply
      <3>2. rec'.pc = "idle" \/ (rec.verdict \in TERMINAL_RUN_STATUSES)
        BY <3>1 DEF RecIdle
      <3>. QED BY <1>1, <3>1, <3>2 DEF VerdictHolds
    <2>4. CASE RecEvent \/ RecCrash
      BY <2>4 DEF RecEvent, RecCrash, RecIdle, VerdictHolds
    <2>. QED BY <1>3, <2>2, <2>3, <2>4 DEF Reconcile
  <1>4. CASE ~Reconcile /\ ~RecCrash
    <2>1. rec' = rec
      BY <1>4 DEF Next, Request, Submit, Create, CannotStart, SendStart, Ambiguous, Accept,
         Check, ServerCrash, Deploy, StartLands, StartLost, Workflow, Produce, BodyEnds,
         BootFails, Flush, Finalize, ContinueAsNew, RunPersist, RunFinalize, Cancel,
         Terminate, Connect, Stream, ReadRows, CheckStatus, Disconnect, vars
    <2>. QED BY <1>1, <2>1 DEF VerdictHolds
  <1>. QED BY <1>2, <1>3, <1>4 DEF Reconcile

(* The end of the workflow: who finalized is final or over, and overwrites *)
(* the status with the same one.                                           *)
LEMMA EndKept ==
  ASSUME BaseInv, EmittedOK, LogFollows, BatchStored, EndStored, [Next]_vars
  PROVE  EndStored'
  <1>1. CASE Finalized
    <2>1. /\ wf.pc \in {"final", "over"} /\ row # None /\ row.status \in Ends
          /\ act # None => act.kind = row.status
      BY <1>1 DEF EndStored
    <2>2. row \in Rows /\ row.status \in TERMINAL_RUN_STATUSES
      BY <2>1 DEF BaseInv, StateOK, TypeOK, Ends, TERMINAL_RUN_STATUSES
    <2>3. row' # None /\ row'.status = row.status
      <3>1. CASE RunFinalize
        <4>1. row' = [row EXCEPT !.status = act.kind, !.finished = TRUE] /\ act # None
          BY <3>1, FinalizeStores
        <4>2. row'.status = row.status
          BY <2>1, <2>2, <4>1 DEF Rows
        <4>3. row' \in Rows
          BY <2>1, <2>2, <4>1 DEF Rows
        <4>. QED BY <4>2, <4>3, NoRowAssumption
      <3>2. CASE ~RunFinalize
        BY <2>1, <2>2, <3>2, RowMoves
      <3>. QED BY <3>1, <3>2
    <2>4. wf'.pc \in {"final", "over"} /\ (act' = act \/ act' = None)
      <3>1. wf \in WorkflowRecord /\ ~StartLands
        BY <2>1 DEF BaseInv, StateOK, Submission, StartLands
      <3>2. CASE Workflow
        BY <2>1, <3>1, <3>2 DEF Workflow, Produce, BodyEnds, BootFails, Flush, Finalize,
           ContinueAsNew, RunPersist, RunFinalize, Cancel, Terminate, Drained, quiet,
           WorkflowRecord
      <3>3. CASE ~Workflow
        BY <2>1, <3>1, <3>3, Bystanders
      <3>. QED BY <3>2, <3>3
    <2>. QED BY <2>1, <2>3, <2>4 DEF EndStored
  <1>2. CASE ~Finalized /\ RunFinalize
    <2>1. /\ act # None /\ act.kind \in Ends /\ wf.pc \in {"final", "over"}
          /\ row' = [row EXCEPT !.status = act.kind, !.finished = TRUE]
      BY <1>2, FinalizeStores
    <2>2. row \in Rows
      BY <2>1 DEF BaseInv, StateOK, TypeOK, Submission
    <2>3. row' \in Rows /\ row'.status = act.kind
      BY <2>1, <2>2 DEF Rows, Statuses, Ends, TERMINAL_RUN_STATUSES
    <2>4. wf'.pc \in {"final", "over"} /\ (act' = act \/ act' = None)
      BY <1>2, <2>1 DEF RunFinalize, BaseInv, StateOK, WorkflowRecord
    <2>. QED BY <2>1, <2>3, <2>4, NoRowAssumption DEF EndStored
  <1>3. CASE ~Finalized /\ ~RunFinalize
    <2>1. log \in Seq(EventRecord)
      BY DEF LogFollows
    <2>2. CASE log' = log
      BY <1>3, <2>2 DEF EndStored, Finalized, ReconciledEvent
    <2>3. CASE /\ RunPersist /\ act # None /\ act.kind = "persist"
               /\ log' = log \o batch
      <3>1. /\ batch \in Seq(EventRecord)
            /\ \A i \in 1..Len(batch) : batch[i] = Event(act.seg, act.first + i - 1)
        BY <2>3, BatchEvents
      <3>2. \A i \in 1..Len(batch) : ~batch[i].terminal
        <4>1. \A n : ~Event(act.seg, n).terminal
          BY DEF Event
        <4>. QED BY <3>1, <4>1
      <3>3. \A i \in DOMAIN log' : log'[i] \in Range(log) \/ ~log'[i].terminal
        BY <2>1, <2>3, <3>1, <3>2, ConcatElement DEF Range
      <3>. QED BY <1>3, <3>3 DEF EndStored, Finalized, Range, ReconciledEvent
    <2>4. CASE RecEvent /\ log' = log \o <<ReconciledEvent>>
      <3>1. <<ReconciledEvent>> \in Seq(EventRecord) /\ Len(<<ReconciledEvent>>) = 1
            /\ <<ReconciledEvent>>[1] = ReconciledEvent
        BY DEF ReconciledEvent, EventRecord
      <3>2. \A i \in DOMAIN log' : log'[i] \in Range(log) \/ log'[i] = ReconciledEvent
        BY <2>1, <2>4, <3>1, ConcatElement DEF Range
      <3>. QED BY <1>3, <3>2 DEF EndStored, Finalized, Range, ReconciledEvent
    <2>. QED BY <1>3, <2>1, <2>2, <2>3, <2>4, LogWrites
  <1>. QED BY <1>1, <1>2, <1>3

LEMMA ReaderKept ==
  ASSUME BaseInv, BatchStored, log \in Seq(EventRecord), ReaderFollows, [Next]_vars
  PROVE  ReaderFollows'
  <1>. USE DEF front, stored, temporal, watchers, elsewhere, quiet
  <1>1. PICK x \in Seq(EventRecord) : log' = log \o x
    BY LogGrows
  <1>2. /\ log' \in Seq(EventRecord) /\ Len(log') = Len(log) + Len(x)
        /\ Len(log) \in Nat /\ Len(x) \in Nat
        /\ \A i \in 1..Len(log) : log'[i] = log[i]
    BY <1>1
  <1>3. /\ reader \in ReaderRecord /\ reader.cursor \in Nat /\ reader.cursor <= Len(log)
        /\ reader.got = SubSeq(log, 1, reader.cursor) /\ reader.got \in Seq(EventRecord)
        /\ reader.terminal_seen => \E i \in 1..reader.cursor : log[i].terminal
        /\ reader.pc = "ended" => reader.terminal_seen \/ given_up
        /\ row # None /\ row.status = "start_failed" => given_up
    BY DEF ReaderFollows, ReaderRecord
  <1>4. /\ given_up => given_up'
        /\ row' # None /\ row'.status = "start_failed" => given_up'
    BY <1>3, RowMoves
  <1>5. CASE reader' = reader
    <2>1. reader.got = SubSeq(log', 1, reader.cursor)
      BY <1>1, <1>3, PrefixStays
    <2>2. reader.terminal_seen => \E i \in 1..reader.cursor : log'[i].terminal
      BY <1>2, <1>3
    <2>3. reader.cursor <= Len(log')
      BY <1>2, <1>3
    <2>4. reader' \in ReaderRecord'
      BY <1>3, <1>5 DEF ReaderRecord, EventRecord
    <2>. QED BY <1>3, <1>4, <1>5, <2>1, <2>2, <2>3, <2>4 DEF ReaderFollows
  <1>6. CASE Connect \/ Stream \/ Disconnect
    <2>1. /\ log' = log /\ row' = row /\ ReaderRecord' = ReaderRecord
          /\ row # None /\ row'.status = "start_failed" => given_up'
      BY <1>3, <1>4, <1>6 DEF Connect, Stream, ReadRows, CheckStatus, Disconnect,
                              ReaderRecord, EventRecord, BaseInv, Submission
    <2>2. CASE Connect
      <3>. DEFINE seen == \E i \in 1..reader.cursor : log[i].terminal
      <3>1. reader' = [reader EXCEPT !.pc = "read", !.terminal_seen = seen] /\ seen \in BOOLEAN
        BY <2>2 DEF Connect
      <3>. HIDE DEF seen
      <3>2. /\ reader' \in ReaderRecord /\ reader'.pc = "read" /\ reader'.terminal_seen = seen
            /\ reader'.cursor = reader.cursor /\ reader'.got = reader.got
        BY <1>3, <3>1 DEF ReaderRecord
      <3>. QED BY <1>3, <1>4, <2>1, <3>2 DEF ReaderFollows, seen
    <2>3. CASE ReadRows
      <3>. DEFINE seen == \/ reader.terminal_seen
                         \/ \E i \in (reader.cursor + 1)..Len(log) : log[i].terminal
                  empty == Len(log) = reader.cursor
                  rest == SubSeq(log, reader.cursor + 1, Len(log))
                  got == reader.got \o rest
      <3>1. /\ reader' = [reader EXCEPT !.pc = "status", !.empty = empty,
                            !.cursor = Len(log), !.got = got, !.terminal_seen = seen]
            /\ empty \in BOOLEAN /\ seen \in BOOLEAN
        BY <1>3, <2>3 DEF ReadRows
      <3>2. seen => \E i \in 1..Len(log) : log[i].terminal
        BY <1>2, <1>3
      <3>3. got \in Seq(EventRecord) /\ got = SubSeq(log, 1, Len(log))
        <4>1. rest \in Seq(EventRecord) /\ got = SubSeq(log, 1, Len(log))
          BY <1>3, PrefixAndRest
        <4>. HIDE DEF rest
        <4>. QED BY <1>3, <4>1
      <3>. HIDE DEF seen, empty, got
      <3>4. /\ reader' \in ReaderRecord /\ reader'.pc = "status" /\ reader'.terminal_seen = seen
            /\ reader'.cursor = Len(log) /\ reader'.got = got
        BY <1>2, <1>3, <3>1, <3>3 DEF ReaderRecord
      <3>. QED BY <1>2, <1>4, <2>1, <3>2, <3>3, <3>4 DEF ReaderFollows
    <2>4. CASE CheckStatus
      <3>1. PICK pc \in {"ended", "read"} :
              /\ reader' = [reader EXCEPT !.pc = pc]
              /\ pc = "ended" => row.status = "start_failed" \/ reader.terminal_seen
        BY <2>4 DEF CheckStatus, terminal_projection_is_persisted
      <3>2. row # None /\ given_up' = given_up
        BY <2>4 DEF CheckStatus, BaseInv, Submission
      <3>3. /\ reader' \in ReaderRecord /\ reader'.pc = pc
            /\ reader'.terminal_seen = reader.terminal_seen
            /\ reader'.cursor = reader.cursor /\ reader'.got = reader.got
        BY <1>3, <3>1 DEF ReaderRecord
      <3>. QED BY <1>3, <1>4, <2>1, <3>1, <3>2, <3>3 DEF ReaderFollows
    <2>5. CASE Disconnect
      <3>1. reader' = [reader EXCEPT !.pc = "off"]
        BY <2>5 DEF Disconnect
      <3>2. /\ reader' \in ReaderRecord /\ reader'.pc = "off"
            /\ reader'.terminal_seen = reader.terminal_seen
            /\ reader'.cursor = reader.cursor /\ reader'.got = reader.got
        BY <1>3, <3>1 DEF ReaderRecord
      <3>. QED BY <1>3, <1>4, <2>1, <3>2 DEF ReaderFollows
    <2>. QED BY <1>6, <2>2, <2>3, <2>4, <2>5 DEF Stream
  <1>7. CASE ~Connect /\ ~Stream /\ ~Disconnect
    <2>1. reader' = reader
      BY <1>7 DEF Next, Request, Submit, Create, CannotStart, SendStart, Ambiguous, Accept,
         Check, ServerCrash, Deploy, StartLands, StartLost, Workflow, Produce, BodyEnds,
         BootFails, Flush, Finalize, ContinueAsNew, RunPersist, RunFinalize, Cancel,
         Terminate, Reconcile, RecCrash, RecList, RecDescribe, RecApply, RecEvent, vars
    <2>. QED BY <1>5, <2>1
  <1>. QED BY <1>6, <1>7

(* What Flush takes was not stored before: the log ends at the cursor.     *)
LEMMA FlushFresh ==
  ASSUME BaseInv, EmittedOK, LogFollows, Flush
  PROVE  \A i \in act'.first..act'.last : Event(act'.seg, i) \notin Range(log)
  <1>1. /\ wf.pc \in {"body", "drain"} /\ act = None
        /\ log = SubSeq(emitted, 1, earlier + wf.cursor)
    BY DEF Flush, LogFollows
  <1>2. /\ act'.seg = wf.seg /\ act'.first = wf.cursor + 1 /\ act'.last \in Nat
        /\ wf.seg \in Nat /\ wf.cursor \in Nat /\ wf.produced \in Nat
        /\ wf.cursor <= wf.produced
    BY FlushTakes DEF ActRecord, BaseInv, StateOK, TypeOK, WorkflowRecord
  <1>3. /\ earlier \in Nat /\ Len(emitted) \in Nat /\ emitted \in Seq(EventRecord)
        /\ earlier + wf.cursor <= Len(emitted)
    BY <1>2 DEF EmittedOK, earlier
  <1>4. /\ DOMAIN log = 1..(earlier + wf.cursor)
        /\ \A j \in 1..(earlier + wf.cursor) : log[j] = emitted[j] /\ j \in 1..Len(emitted)
    BY <1>1, <1>2, <1>3, SubSeqProperties
  <1>. SUFFICES ASSUME NEW i \in act'.first..act'.last, NEW j \in DOMAIN log,
                       log[j] = Event(wf.seg, i)
                PROVE  FALSE
    BY <1>2 DEF Range
  <1>5. emitted[j] = Event(wf.seg, i) /\ j \in Nat /\ i > wf.cursor /\ i \in Nat
    BY <1>2, <1>4
  <1>6. CASE j <= earlier
    <2>1. emitted[j].seg < wf.seg
      BY <1>4, <1>6 DEF EmittedOK
    <2>2. emitted[j].seg = wf.seg
      BY <1>5 DEF Event
    <2>. QED BY <1>2, <2>1, <2>2
  <1>7. CASE j > earlier
    <2>1. emitted[j] = Event(wf.seg, j - earlier)
      BY <1>4, <1>7 DEF EmittedOK
    <2>2. j - earlier = i
      BY <1>5, <2>1 DEF Event
    <2>. QED BY <1>2, <1>3, <1>4, <1>5, <2>2
  <1>. QED BY <1>3, <1>5, <1>6, <1>7

LEMMA ActMoves ==
  ASSUME [Next]_vars
  PROVE  act' = act \/ act' = None \/ Flush \/ Finalize
  BY Bystanders DEF StartLands, Workflow, Produce, BodyEnds, BootFails, ContinueAsNew,
     RunPersist, RunFinalize, Cancel, Terminate, quiet

LEMMA BatchKept ==
  ASSUME BaseInv, EmittedOK, LogFollows, BatchStored, [Next]_vars
  PROVE  BatchStored'
  <1>1. log \in Seq(EventRecord)
    BY DEF LogFollows
  <1>2. CASE act' = None
    BY <1>2 DEF BatchStored
  <1>3. CASE Flush
    <2>1. log' = log /\ act'.first <= act'.last
      BY <1>3, FlushTakes DEF Flush, quiet, elsewhere, stored
    <2>2. \A i \in act'.first..act'.last : Event(act'.seg, i) \notin Range(log')
      BY <1>3, <2>1, FlushFresh
    <2>. QED BY <2>1, <2>2 DEF BatchStored, Event
  <1>4. CASE Finalize
    <2>1. act'.kind = wf.outcome /\ wf.outcome \in Ends
      BY <1>4 DEF Finalize, Drained, BaseInv, StateOK
    <2>. QED BY <2>1 DEF BatchStored, Ends
  <1>5. CASE act' = act
    <2>. SUFFICES ASSUME act # None, act.kind = "persist"
                  PROVE  /\ act.first <= act.last
                         /\ \/ \A i \in act.first..act.last : Event(act.seg, i) \in Range(log')
                            \/ \A i \in act.first..act.last : Event(act.seg, i) \notin Range(log')
      BY <1>5 DEF BatchStored, Event
    <2>1. act.first <= act.last
      BY DEF BatchStored
    <2>2. PICK x \in Seq(EventRecord) : log' = log \o x
      BY <1>1, LogGrows
    <2>3. Range(log) \subseteq Range(log')
      <3>1. \A i \in DOMAIN log : i \in DOMAIN log' /\ log'[i] = log[i]
        BY <1>1, <2>2
      <3>. QED BY <3>1 DEF Range
    <2>4. CASE log' = log
      BY <2>1, <2>4 DEF BatchStored
    <2>5. CASE RunPersist
      <3>1. CASE \A i \in act.first..act.last : Event(act.seg, i) \in Range(log)
        BY <2>1, <2>3, <3>1
      <3>2. CASE log' = log \o batch
        <4>1. /\ batch \in Seq(EventRecord)
              /\ \A i \in act.first..act.last :
                   i - act.first + 1 \in 1..Len(batch)
                   /\ batch[i - act.first + 1] = Event(act.seg, i)
          BY BatchEvents
        <4>2. \A k \in 1..Len(batch) : batch[k] \in Range(log')
          <5>1. \A k \in 1..Len(batch) : Len(log) + k \in DOMAIN log'
                                         /\ log'[Len(log) + k] = batch[k]
            BY <1>1, <3>2, <4>1
          <5>. QED BY <5>1 DEF Range
        <4>. QED BY <2>1, <4>1, <4>2
      <3>. QED BY <2>5, <3>1, <3>2, Persisted
    <2>6. CASE RecEvent /\ log' = log \o <<ReconciledEvent>>
      <3>1. \A i : Event(act.seg, i) # ReconciledEvent
        BY DEF Event, ReconciledEvent
      <3>2. <<ReconciledEvent>> \in Seq(EventRecord) /\ Len(<<ReconciledEvent>>) = 1
            /\ <<ReconciledEvent>>[1] = ReconciledEvent
        BY DEF ReconciledEvent, EventRecord
      <3>3. \A e \in Range(log') : e \in Range(log) \/ e = ReconciledEvent
        BY <1>1, <2>6, <3>2, ConcatElement DEF Range
      <3>4. CASE \A i \in act.first..act.last : Event(act.seg, i) \in Range(log)
        BY <2>1, <2>3, <3>4
      <3>5. CASE \A i \in act.first..act.last : Event(act.seg, i) \notin Range(log)
        BY <2>1, <3>1, <3>3, <3>5
      <3>. QED BY <3>4, <3>5 DEF BatchStored
    <2>7. ~RunFinalize
      BY DEF RunFinalize
    <2>. QED BY <1>1, <2>4, <2>5, <2>6, <2>7, LogWrites
  <1>. QED BY <1>2, <1>3, <1>4, <1>5, ActMoves

-----------------------------------------------------------------------------
(* The log follows what is emitted: the steps of the workflow.             *)
LEMMA RunPersistFollows ==
  ASSUME BaseInv, EmittedOK, LogFollows, BatchStored, RunPersist
  PROVE  LogFollows'
  <1>1. /\ act # None /\ act.kind = "persist" /\ act \in ActRecord /\ wf \in WorkflowRecord
        /\ wf.pc \in {"body", "drain", "over"} /\ ~wf.clean
        /\ act.last \in Nat /\ act.first \in Nat /\ wf.cursor \in Nat /\ wf.produced \in Nat
    BY DEF RunPersist, BaseInv, StateOK, Submission, LogFollows, WorkflowRecord, ActRecord,
           Ends
  <1>2. /\ emitted' = emitted /\ log \in Seq(EventRecord) /\ log' \in Seq(EventRecord)
        /\ \/ UNCHANGED <<wf, act>>
           \/ wf.pc # "over" /\ wf' = [wf EXCEPT !.cursor = act.last] /\ act' = None
    <2>1. log' = log \o <<>> \/ log' = log \o batch
      BY Persisted
    <2>2. log \in Seq(EventRecord) /\ batch \in Seq(EventRecord)
      BY <1>1, BatchEvents DEF LogFollows
    <2>3. log' \in Seq(EventRecord)
      <3>1. log \o <<>> = log
        BY <2>2
      <3>2. log \o batch \in Seq(EventRecord)
        <4>. HIDE DEF EventRecord, batch
        <4>. QED BY <2>2
      <3>. QED BY <2>1, <2>2, <3>1, <3>2
    <2>4. /\ emitted' = emitted
          /\ \/ UNCHANGED <<wf, act>>
             \/ wf.pc # "over" /\ wf' = [wf EXCEPT !.cursor = act.last] /\ act' = None
      BY DEF RunPersist
    <2>. QED BY <2>2, <2>3, <2>4
  <1>3. CASE wf.pc = "over"
    BY <1>1, <1>2, <1>3 DEF LogFollows
  <1>4. CASE wf.pc \in {"body", "drain"}
    <2>0. /\ act.seg = wf.seg /\ act.first = wf.cursor + 1
          /\ wf.cursor < act.last /\ act.last <= wf.produced
      BY <1>1, <1>4 DEF LogFollows
    <2>1. /\ act.seg = wf.seg /\ act.first = wf.cursor + 1
          /\ wf.cursor < act.last /\ act.last <= wf.produced
          /\ \/ log = SubSeq(emitted, 1, earlier + wf.cursor)
             \/ log = SubSeq(emitted, 1, earlier + act.last)
      BY <1>1, <1>4 DEF LogFollows
    <2>2. /\ earlier \in Nat /\ Len(emitted) \in Nat /\ emitted \in Seq(EventRecord)
          /\ earlier + act.last <= Len(emitted) /\ earlier + wf.produced = Len(emitted)
      BY <1>1, <2>1 DEF EmittedOK, earlier
    <2>3. /\ batch \in Seq(EventRecord) /\ Len(batch) = act.last - act.first + 1
          /\ \A i \in 1..Len(batch) : batch[i] = Event(act.seg, act.first + i - 1)
      BY <1>1, BatchEvents
    <2>4. \A i \in 1..Len(batch) : batch[i] = emitted[earlier + wf.cursor + i]
      <3>. SUFFICES ASSUME NEW i \in 1..Len(batch)
                    PROVE  batch[i] = emitted[earlier + wf.cursor + i]
        OBVIOUS
      <3>. DEFINE j == earlier + wf.cursor + i
      <3>1. /\ j \in 1..Len(emitted) /\ j > earlier
            /\ j - earlier = act.first + i - 1
        <4>1. i \in 1..(act.last - wf.cursor)
          BY <1>1, <2>0, <2>3
        <4>2. i \in Nat /\ i >= 1 /\ wf.cursor + i <= act.last
          BY <1>1, <4>1
        <4>3. earlier + wf.cursor + i <= earlier + act.last
          BY <1>1, <2>2, <4>2
        <4>4. j \in Nat /\ j > earlier /\ j <= Len(emitted)
          BY SMTT(20), <1>1, <2>2, <4>2, <4>3
        <4>5. j - earlier = wf.cursor + i /\ act.first + i - 1 = wf.cursor + i
          BY <1>1, <2>0, <2>2, <4>2
        <4>. QED BY <2>2, <4>4, <4>5
      <3>. HIDE DEF j
      <3>2. emitted[j] = Event(wf.seg, j - earlier)
        BY <3>1 DEF EmittedOK
      <3>. QED BY <2>1, <2>3, <3>1, <3>2 DEF j
    <2>5. log' = SubSeq(emitted, 1, earlier + act.last)
      <3>1. CASE log = SubSeq(emitted, 1, earlier + wf.cursor)
        <4>1. SubSeq(emitted, 1, earlier + wf.cursor) \o batch
                = SubSeq(emitted, 1, earlier + act.last)
          <5>. DEFINE a == earlier + wf.cursor
                      b == earlier + act.last
          <5>1. /\ a \in Nat /\ b \in Nat /\ a <= b /\ b <= Len(emitted)
                /\ Len(batch) = b - a
            <6>1. a \in Nat /\ b \in Nat /\ b <= Len(emitted)
              BY <1>1, <2>2
            <6>2. a <= b /\ b - a = act.last - wf.cursor
              BY <1>1, <2>0, <2>2
            <6>3. Len(batch) = act.last - wf.cursor
              BY <1>1, <2>0, <2>3
            <6>. QED BY <6>1, <6>2, <6>3
          <5>2. \A i \in 1..Len(batch) : batch[i] = emitted[a + i]
            BY <2>4
          <5>. HIDE DEF a, b
          <5>3. SubSeq(emitted, 1, a) \o batch = SubSeq(emitted, 1, b)
            BY <2>2, <2>3, <5>1, <5>2, PrefixGrows
          <5>. QED BY <5>3 DEF a, b
        <4>2. CASE log' = log \o batch
          BY <3>1, <4>1, <4>2
        <4>3. CASE \A i \in act.first..act.last : Event(act.seg, i) \in Range(log)
          <5>1. act.first \in act.first..act.last /\ act.first \in Nat
            BY <1>1, <2>1
          <5>2. PICK j \in DOMAIN log : log[j] = Event(wf.seg, act.first)
            BY <2>1, <4>3, <5>1 DEF Range
          <5>3. j \in 1..(earlier + wf.cursor) /\ log[j] = emitted[j] /\ j \in 1..Len(emitted)
            <6>. DEFINE k == earlier + wf.cursor
            <6>1. k \in Nat /\ k <= Len(emitted) /\ Len(emitted) \in Nat
              BY <1>1, <2>0, <2>2
            <6>2. log = SubSeq(emitted, 1, k)
              BY <3>1
            <6>. HIDE DEF k
            <6>3. DOMAIN log = 1..k /\ \A i \in 1..k : log[i] = emitted[i]
              BY <2>2, <6>1, <6>2, PrefixElements
            <6>4. j \in 1..k /\ log[j] = emitted[j] /\ j \in 1..Len(emitted)
              BY <5>2, <6>1, <6>3
            <6>. QED BY <6>4 DEF k
          <5>4. CASE j <= earlier
            <6>1. emitted[j].seg < wf.seg
              BY <5>3, <5>4 DEF EmittedOK
            <6>2. emitted[j].seg = wf.seg /\ wf.seg \in Nat
              BY <1>1, <5>2, <5>3 DEF Event, WorkflowRecord
            <6>. QED BY <6>1, <6>2
          <5>5. CASE j > earlier
            <6>1. emitted[j] = Event(wf.seg, j - earlier)
              BY <5>3, <5>5 DEF EmittedOK
            <6>2. j - earlier = act.first
              BY <5>2, <5>3, <6>1 DEF Event
            <6>. QED BY <1>1, <2>1, <2>2, <5>3, <6>2
          <5>. QED BY <2>2, <5>3, <5>4, <5>5
        <4>. QED BY <4>2, <4>3, Persisted
      <3>2. CASE log = SubSeq(emitted, 1, earlier + act.last)
        <4>1. ASSUME NEW i \in act.first..act.last
              PROVE  Event(act.seg, i) \in Range(log)
          <5>. DEFINE j == earlier + i
          <5>1. /\ j \in 1..(earlier + act.last) /\ j \in 1..Len(emitted) /\ j > earlier
                /\ j - earlier = i
            BY SMTT(20), <1>1, <2>0, <2>2
          <5>. HIDE DEF j
          <5>2. j \in DOMAIN log /\ log[j] = emitted[j]
            BY <1>1, <2>2, <3>2, <5>1, SubSeqProperties
          <5>3. emitted[j] = Event(wf.seg, i)
            BY <5>1 DEF EmittedOK
          <5>. QED BY <2>1, <5>2, <5>3 DEF Range
        <4>2. act.first \in act.first..act.last
          BY <1>1, <2>1
        <4>3. log' = log \o <<>>
          BY <4>1, <4>2, Persisted
        <4>. QED BY <1>2, <3>2, <4>3
      <3>. QED BY <2>1, <3>1, <3>2
    <2>6. CASE UNCHANGED <<wf, act>>
      BY <1>1, <1>2, <1>4, <2>1, <2>5, <2>6 DEF LogFollows, earlier
    <2>7. CASE wf' = [wf EXCEPT !.cursor = act.last] /\ act' = None
      <3>1. /\ wf'.pc = wf.pc /\ wf'.cursor = act.last /\ wf'.produced = wf.produced
            /\ wf'.clean = wf.clean
        BY <1>1, <2>7 DEF WorkflowRecord
      <3>. QED BY <1>1, <1>2, <1>4, <2>5, <2>7, <3>1 DEF LogFollows, earlier
    <2>. QED BY <1>2, <2>6, <2>7
  <1>. QED BY <1>1, <1>3, <1>4

(* No event of the body is a terminal one.                                 *)
LEMMA EmittedPlain ==
  ASSUME BaseInv, EmittedOK, NEW i \in 1..Len(emitted)
  PROVE  ~emitted[i].terminal
  <1>1. earlier \in Int
    BY DEF BaseInv, StateOK, WorkflowRecord, EmittedOK, earlier
  <1>2. /\ i <= earlier => ~emitted[i].terminal
        /\ i > earlier => emitted[i] = Event(wf.seg, i - earlier)
    BY DEF EmittedOK
  <1>3. i <= earlier \/ i > earlier
    BY <1>1
  <1>. QED BY <1>2, <1>3 DEF Event

LEMMA RunFinalizeFollows ==
  ASSUME BaseInv, EmittedOK, LogFollows, RunFinalize
  PROVE  LogFollows'
  <1>. DEFINE T == TerminalEvent(act.seg)
  <1>1. /\ act # None /\ act.seg \in Nat /\ wf \in WorkflowRecord /\ ~wf.clean
        /\ wf.pc \in {"final", "over"} /\ log \in Seq(EventRecord)
        /\ emitted \in Seq(EventRecord)
    BY FinalizeStores DEF LogFollows, EmittedOK, BaseInv, StateOK
  <1>2. /\ emitted' = emitted
        /\ \/ UNCHANGED <<wf, act>>
           \/ /\ wf.pc # "over" /\ wf' = [wf EXCEPT !.pc = "over", !.clean = TRUE]
              /\ act' = None
    BY DEF RunFinalize
  <1>3. T \in EventRecord /\ T.terminal
    BY <1>1, EventTypes
  <1>4. \/ log' = log /\ T \in Range(log)
        \/ log' = Append(log, T) /\ T \notin Range(log)
    <2>1. log \o <<>> = log /\ log \o <<T>> = Append(log, T)
      <3>. HIDE DEF T
      <3>. QED BY <1>1, <1>3
    <2>. QED BY <2>1, FinalizeStores
  <1>5. log' \in Seq(EventRecord)
    <2>. HIDE DEF T
    <2>. QED BY <1>1, <1>3, <1>4
  <1>6. CASE wf.pc = "over"
    BY <1>1, <1>2, <1>5, <1>6 DEF LogFollows
  <1>7. CASE wf.pc = "final"
    <2>1. act.seg = wf.seg /\ log \in {emitted, Append(emitted, T)}
      BY <1>1, <1>7 DEF LogFollows
    <2>2. log' = Append(emitted, T)
      <3>1. CASE log = emitted
        <4>1. T \notin Range(log)
          BY <1>1, <1>3, <3>1, EmittedPlain DEF Range
        <4>. QED BY <1>4, <3>1, <4>1
      <3>2. CASE log = Append(emitted, T)
        <4>1. Len(emitted) + 1 \in DOMAIN log /\ log[Len(emitted) + 1] = T
          <5>. HIDE DEF T
          <5>. QED BY <1>1, <1>3, <3>2
        <4>2. T \in Range(log)
          BY <4>1 DEF Range
        <4>. QED BY <1>4, <3>2, <4>2
      <3>. QED BY <2>1, <3>1, <3>2
    <2>3. CASE UNCHANGED <<wf, act>>
      BY <1>1, <1>2, <1>5, <1>7, <2>1, <2>2, <2>3 DEF LogFollows, TerminalEvent
    <2>4. CASE wf' = [wf EXCEPT !.pc = "over", !.clean = TRUE] /\ act' = None
      <3>1. wf'.pc = "over" /\ wf'.seg = wf.seg
        BY <1>1, <2>4 DEF WorkflowRecord
      <3>. QED BY <1>2, <1>5, <2>1, <2>2, <2>4, <3>1 DEF LogFollows, TerminalEvent
    <2>. QED BY <1>2, <2>3, <2>4
  <1>. QED BY <1>1, <1>6, <1>7

(* The reconciler stores its event when the workflow is over; of a run     *)
(* that finalized, behind everything.                                      *)
LEMMA RecEventFollows ==
  ASSUME BaseInv, EmittedOK, LogFollows, VerdictHolds, RecEvent
  PROVE  LogFollows'
  <1>. DEFINE R == ReconciledEvent
              all == Append(emitted, TerminalEvent(wf.seg))
  <1>1. wf.pc = "over" /\ UNCHANGED <<wf, act, emitted>>
    BY DEF RecEvent, VerdictHolds, BaseInv, StateOK, temporal
  <1>2. /\ log \in Seq(EventRecord) /\ R \in EventRecord
        /\ wf.clean => act = None /\ log \in {all, Append(all, R)}
    BY DEF LogFollows, ReconciledEvent, EventRecord
  <1>3. log' = log \/ (log' = Append(log, R) /\ R \notin Range(log))
    <2>1. log \o <<R>> = Append(log, R)
      <3>. HIDE DEF R
      <3>. QED BY <1>2
    <2>. QED BY <1>2, <2>1, ReconcilerStores
  <1>4. log' \in Seq(EventRecord)
    <2>. HIDE DEF R
    <2>. QED BY <1>2, <1>3
  <1>5. ASSUME wf.clean PROVE log' \in {all, Append(all, R)}
    <2>1. CASE log = all
      BY <1>3, <2>1
    <2>2. CASE log = Append(all, R)
      <3>1. all \in Seq(EventRecord)
        <4>1. TerminalEvent(wf.seg) \in EventRecord /\ emitted \in Seq(EventRecord)
          BY EventTypes DEF EmittedOK, BaseInv, StateOK, WorkflowRecord
        <4>. QED BY <4>1
      <3>2. Len(all) + 1 \in DOMAIN log /\ log[Len(all) + 1] = R
        <4>. HIDE DEF all, R
        <4>. QED BY <1>2, <2>2, <3>1
      <3>3. R \in Range(log)
        BY <3>2 DEF Range
      <3>. QED BY <1>3, <2>2, <3>3
    <2>. QED BY <1>2, <1>5, <2>1, <2>2
  <1>. QED BY <1>1, <1>2, <1>4, <1>5 DEF LogFollows, TerminalEvent, ReconciledEvent

(* The steps that leave the log alone.                                     *)
LEMMA QuietFollows ==
  ASSUME BaseInv, EmittedOK, LogFollows, log' = log, StartLands \/ Workflow,
         ~RunPersist, ~RunFinalize
  PROVE  LogFollows'
  <1>. USE DEF quiet
  <1>1. /\ wf \in WorkflowRecord /\ wf.cursor \in Nat /\ wf.produced \in Nat
        /\ wf.cursor <= wf.produced
        /\ emitted \in Seq(EventRecord) /\ Len(emitted) \in Nat /\ earlier \in Nat
        /\ earlier + wf.produced = Len(emitted) /\ log \in Seq(EventRecord)
        /\ wf.clean => wf.pc = "over"
    BY DEF BaseInv, StateOK, TypeOK, WorkflowRecord, EmittedOK, LogFollows, earlier
  <1>2. ASSUME Drained
        PROVE  log = emitted /\ act = None /\ wf.pc = "drain"
    <2>1. /\ wf.pc = "drain" /\ act = None /\ wf.cursor = wf.produced
          /\ log = SubSeq(emitted, 1, earlier + wf.cursor)
      BY <1>2 DEF Drained, LogFollows
    <2>. QED BY <1>1, <2>1, PrefixWhole
  <1>3. CASE StartLands
    <2>1. /\ wf.pc = "none" /\ emitted = <<>> /\ log = <<>> /\ act = None
          /\ wf' = [wf EXCEPT !.pc = "body"] /\ UNCHANGED <<emitted, act>>
      BY <1>3 DEF StartLands, BaseInv, Submission, LogFollows
    <2>2. wf'.pc = "body" /\ wf'.clean = wf.clean /\ wf'.cursor = 0 /\ wf'.produced = 0
      BY <1>1, <2>1 DEF WorkflowRecord
    <2>3. earlier' = 0 /\ SubSeq(<<>>, 1, 0) = <<>>
      BY <2>1, <2>2 DEF earlier
    <2>. QED BY <1>1, <2>1, <2>2, <2>3 DEF LogFollows
  <1>4. CASE Produce
    <2>. DEFINE e == Event(wf.seg, wf.produced + 1)
    <2>1. /\ wf.pc = "body" /\ wf' = [wf EXCEPT !.produced = @ + 1] /\ act' = act
          /\ emitted' = Append(emitted, e)
      BY <1>4 DEF Produce
    <2>2. /\ wf'.pc = "body" /\ wf'.clean = wf.clean /\ wf'.cursor = wf.cursor
          /\ wf'.seg = wf.seg /\ wf'.produced = wf.produced + 1
      BY <1>1, <2>1 DEF WorkflowRecord
    <2>3. e \in EventRecord
      BY <1>1, EventTypes DEF WorkflowRecord
    <2>. HIDE DEF e
    <2>4. /\ Len(emitted') = Len(emitted) + 1 /\ emitted' = emitted \o <<e>>
          /\ <<e>> \in Seq(EventRecord)
      <3>1. emitted \in Seq(EventRecord) /\ emitted' = Append(emitted, e)
        BY <1>1, <2>1
      <3>. QED BY <2>3, <3>1
    <2>5. earlier' = earlier
      <3>1. earlier' = Len(emitted') - wf'.produced /\ earlier = Len(emitted) - wf.produced
        BY DEF earlier
      <3>. QED BY <1>1, <2>2, <2>4, <3>1
    <2>6. \A n \in Nat : n <= Len(emitted) => SubSeq(emitted', 1, n) = SubSeq(emitted, 1, n)
      BY <1>1, <2>4, PrefixStays
    <2>7. /\ act # None => /\ act.kind = "persist" /\ act.seg = wf.seg
                           /\ act.first = wf.cursor + 1 /\ act.last \in Nat
                           /\ wf.cursor < act.last /\ act.last <= wf.produced
          /\ \/ log = SubSeq(emitted, 1, earlier + wf.cursor)
             \/ act # None /\ log = SubSeq(emitted, 1, earlier + act.last)
      BY <2>1 DEF LogFollows, BaseInv, StateOK, ActRecord
    <2>8. act # None => act.last <= wf'.produced /\ earlier + act.last <= Len(emitted)
                        /\ earlier + act.last \in Nat
      BY SMTT(20), <1>1, <2>2, <2>7
    <2>9. earlier + wf.cursor \in Nat /\ earlier + wf.cursor <= Len(emitted)
      BY <1>1
    <2>10. \/ log = SubSeq(emitted', 1, earlier + wf.cursor)
           \/ act # None /\ log = SubSeq(emitted', 1, earlier + act.last)
      BY <2>6, <2>7, <2>8, <2>9
    <2>. QED BY <1>1, <2>1, <2>2, <2>5, <2>7, <2>8, <2>10 DEF LogFollows
  <1>5. CASE \E pc \in {"drain", "over"} : \E outcome :
               /\ wf' = [wf EXCEPT !.pc = pc, !.outcome = outcome]
               /\ UNCHANGED <<act, emitted>>
               /\ wf.pc # "over" /\ (pc = "drain" => wf.pc = "body")
    <2>1. PICK pc \in {"drain", "over"} :
               /\ wf'.pc = pc /\ wf'.clean = wf.clean /\ wf'.cursor = wf.cursor
               /\ wf'.seg = wf.seg /\ wf'.produced = wf.produced
               /\ UNCHANGED <<act, emitted>>
               /\ wf.pc # "over" /\ (pc = "drain" => wf.pc = "body")
      BY <1>1, <1>5 DEF WorkflowRecord
    <2>2. earlier' = earlier
      BY <2>1 DEF earlier
    <2>3. CASE pc = "over"
      BY <1>1, <2>1, <2>3 DEF LogFollows
    <2>4. CASE pc = "drain"
      BY <1>1, <2>1, <2>2, <2>4 DEF LogFollows
    <2>. QED BY <2>3, <2>4
  <1>6. CASE (\E o \in {"completed", "failed", "continued"} : BodyEnds(o))
             \/ BootFails \/ Terminate \/ Cancel
    BY <1>5, <1>6 DEF BodyEnds, BootFails, Terminate, Cancel
  <1>7. CASE Flush
    <2>1. /\ wf.pc \in {"body", "drain"} /\ act = None
          /\ log = SubSeq(emitted, 1, earlier + wf.cursor) /\ UNCHANGED <<wf, emitted>>
      BY <1>7 DEF Flush, LogFollows
    <2>2. wf.cursor < act'.last
      BY <1>1, <1>7, FlushTakes DEF ActRecord
    <2>3. earlier' = earlier
      BY <2>1 DEF earlier
    <2>. QED BY <1>1, <1>7, <2>1, <2>2, <2>3, FlushTakes DEF LogFollows
  <1>8. CASE Finalize
    <2>1. /\ log = emitted /\ wf' = [wf EXCEPT !.pc = "final"] /\ emitted' = emitted
          /\ act'.kind = wf.outcome /\ act'.seg = wf.seg /\ wf.pc = "drain"
      BY <1>2, <1>8 DEF Finalize
    <2>2. wf'.pc = "final" /\ wf'.outcome = wf.outcome /\ wf'.seg = wf.seg
          /\ wf'.clean = wf.clean
      BY <1>1, <2>1 DEF WorkflowRecord
    <2>. QED BY <1>1, <2>1, <2>2 DEF LogFollows
  <1>9. CASE ContinueAsNew
    <2>1. /\ log = emitted /\ act' = None /\ emitted' = emitted
          /\ wf' = [pc |-> "body", outcome |-> "running", seg |-> wf.seg + 1,
                    produced |-> 0, cursor |-> 0, clean |-> FALSE]
      BY <1>2, <1>9 DEF ContinueAsNew, WorkflowInit
    <2>2. earlier' = Len(emitted) /\ earlier' + wf'.cursor = Len(emitted)
      BY <1>1, <2>1 DEF earlier
    <2>3. log = SubSeq(emitted, 1, Len(emitted))
      BY <1>1, <2>1, PrefixWhole
    <2>. QED BY <1>1, <2>1, <2>2, <2>3 DEF LogFollows
  <1>. QED BY <1>3, <1>4, <1>6, <1>7, <1>8, <1>9 DEF Workflow

LEMMA LogKept ==
  ASSUME BaseInv, EmittedOK, LogFollows, BatchStored, VerdictHolds, [Next]_vars
  PROVE  LogFollows'
  <1>1. CASE RunPersist
    BY <1>1, RunPersistFollows
  <1>2. CASE RunFinalize
    BY <1>2, RunFinalizeFollows
  <1>3. CASE RecEvent
    BY <1>3, RecEventFollows
  <1>4. CASE ~RunPersist /\ ~RunFinalize /\ ~RecEvent
    <2>1. log' = log
      BY <1>4, LogWrites DEF LogFollows
    <2>2. CASE StartLands \/ Workflow
      BY <1>4, <2>1, <2>2, QuietFollows
    <2>3. CASE ~StartLands /\ ~Workflow
      BY <2>1, <2>3, Bystanders DEF LogFollows, earlier, TerminalEvent, ReconciledEvent
    <2>. QED BY <2>2, <2>3
  <1>. QED BY <1>1, <1>2, <1>3, <1>4

LEMMA InitStream == Init => StreamInv
  <1>. SUFFICES ASSUME Init PROVE StreamInv
    OBVIOUS
  <1>. USE DEF Init, WorkflowInit, RecIdle
  <1>1. EmittedOK /\ LogFollows
    BY DEF EmittedOK, LogFollows, earlier
  <1>2. BatchStored /\ EndStored /\ VerdictHolds
    BY DEF BatchStored, EndStored, Finalized, Range, VerdictHolds
  <1>3. ReaderFollows
    BY DEF ReaderFollows, ReaderRecord
  <1>. QED BY <1>1, <1>2, <1>3 DEF StreamInv

LEMMA NextStream == BaseInv /\ StreamInv /\ [Next]_vars => StreamInv'
  BY EmittedKept, LogKept, BatchKept, EndKept, VerdictKept, ReaderKept
  DEF StreamInv, LogFollows

LEMMA StreamHolds == Spec => [](BaseInv /\ StreamInv)
  BY InitBase, NextBase, InitStream, NextStream, PTL DEF Spec

(* A stream that ended told everything (StreamComplete): every event of a  *)
(* run that got to finalize, once and in order, over any number of         *)
(* segments, batches, late attempts and reconnects, up to the terminal one.*)
THEOREM EndedStreamsToldAll == Spec => []StreamComplete
  <1>1. ASSUME BaseInv, StreamInv PROVE StreamComplete
    <2>. DEFINE T == TerminalEvent(wf.seg)
                R == ReconciledEvent
                all == Append(emitted, T)
    <2>. SUFFICES ASSUME reader.pc = "ended", wf.clean, ~given_up
                  PROVE  reader.got \in {all, Append(all, R)}
      BY DEF StreamComplete
    <2>1. /\ log \in {all, Append(all, R)} /\ log \in Seq(EventRecord)
          /\ emitted \in Seq(EventRecord) /\ wf.seg \in Nat
      BY <1>1 DEF StreamInv, LogFollows, EmittedOK, BaseInv, StateOK, WorkflowRecord
    <2>2. T \in EventRecord /\ R \in EventRecord
      BY <2>1, EventTypes
    <2>3. /\ reader.cursor \in Nat /\ reader.cursor <= Len(log)
          /\ reader.got = SubSeq(log, 1, reader.cursor)
      BY <1>1 DEF StreamInv, ReaderFollows, ReaderRecord
    <2>4. PICK i \in 1..reader.cursor : log[i].terminal
      BY <1>1 DEF StreamInv, ReaderFollows
    <2>5. \A j \in 1..Len(emitted) : ~emitted[j].terminal
      BY <1>1, EmittedPlain DEF StreamInv
    <2>. HIDE DEF T, R
    <2>6. /\ all \in Seq(EventRecord) /\ Len(all) = Len(emitted) + 1
          /\ \A j \in 1..Len(emitted) : all[j] = emitted[j]
      BY <2>1, <2>2
    <2>. HIDE DEF all
    <2>7. \A j \in 1..Len(all) : log[j] = all[j]
      BY SMTT(20), <2>1, <2>2, <2>6
    <2>8. i > Len(emitted)
      <3>1. SUFFICES ASSUME i <= Len(emitted) PROVE FALSE
        BY <2>1, <2>3
      <3>2. i \in 1..Len(emitted) /\ i \in 1..Len(all)
        BY <2>1, <2>3, <2>6, <3>1
      <3>3. log[i] = emitted[i]
        BY <2>6, <2>7, <3>2
      <3>. QED BY <2>4, <2>5, <3>2, <3>3
    <2>9. reader.cursor >= Len(all)
      BY <2>1, <2>3, <2>6, <2>8
    <2>10. CASE reader.cursor = Len(log)
      BY <2>1, <2>3, <2>10, PrefixWhole
    <2>11. CASE reader.cursor # Len(log)
      <3>a. Len(all) \in Nat /\ Len(log) \in Nat
        BY <2>1, <2>6
      <3>b. log # all
        BY <2>3, <2>9, <2>11, <3>a
      <3>c. log = Append(all, R)
        BY <2>1, <3>b
      <3>d. /\ Append(all, R) = all \o <<R>> /\ <<R>> \in Seq(EventRecord)
            /\ Len(Append(all, R)) = Len(all) + 1
        <4>. HIDE DEF EventRecord
        <4>. QED BY <2>2, <2>6
      <3>1. log = Append(all, R) /\ Append(all, R) = all \o <<R>>
            /\ Len(Append(all, R)) = Len(all) + 1 /\ <<R>> \in Seq(EventRecord)
        BY <3>c, <3>d
      <3>2. reader.cursor = Len(all)
        BY <2>3, <2>6, <2>9, <2>11, <3>1
      <3>. QED BY <2>3, <2>6, <3>1, <3>2, PrefixStays, PrefixWhole
    <2>. QED BY <2>10, <2>11
  <1>. QED BY <1>1, StreamHolds, PTL

(* What the workflow stored about its end sticks (FinalSticks): no late    *)
(* answer of the start, no repeated attempt and no verdict of the          *)
(* reconciler changes the status or the events any more.                   *)
THEOREM StoredEndsStick == Spec => FinalSticks
  <1>1. ASSUME BaseInv, StreamInv, [Next]_vars
        PROVE  [Finalized => row'.status = row.status /\ IsPrefix(log, log')]_vars
    <2>. SUFFICES ASSUME Finalized
                  PROVE  row'.status = row.status /\ IsPrefix(log, log')
      OBVIOUS
    <2>1. /\ row # None /\ row.status \in Ends
          /\ act # None => act.kind = row.status
          /\ log \in Seq(EventRecord) /\ BatchStored
      BY <1>1 DEF StreamInv, EndStored, LogFollows
    <2>2. row \in Rows /\ row.status \in TERMINAL_RUN_STATUSES
      BY <1>1, <2>1 DEF BaseInv, StateOK, TypeOK, Ends, TERMINAL_RUN_STATUSES
    <2>3. ASSUME RunFinalize PROVE row'.status = row.status
      BY <1>1, <2>1, <2>2, <2>3, FinalizeStores DEF Rows
    <2>4. ASSUME ~RunFinalize PROVE row'.status = row.status
      BY <1>1, <2>1, <2>2, <2>4, RowMoves
    <2>5. IsPrefix(log, log')
      <3>1. PICK x \in Seq(EventRecord) : log' = log \o x
        BY <1>1, <2>1, LogGrows
      <3>2. Len(log) <= Len(log') /\ Len(log) \in Nat
        BY <2>1, <3>1
      <3>3. SubSeq(log', 1, Len(log)) = SubSeq(log, 1, Len(log))
        BY <2>1, <3>1, <3>2, PrefixStays
      <3>. QED BY <3>2, <3>3 DEF IsPrefix
    <2>. QED BY <2>3, <2>4, <2>5
  <1>. QED BY <1>1, StreamHolds, PTL DEF Spec, FinalSticks
=============================================================================
