--------------------------- MODULE SessionWorkflow ---------------------------
(***************************************************************************)
(* SessionWorkflow: one durable session, run by Temporal as a chain of     *)
(* executions ("segments") joined by continue-as-new.                      *)
(*                                                                         *)
(* Temporal interleaves the workflow's coroutine with its update handlers  *)
(* at awaits only, so an action is what runs between two awaits.  Each     *)
(* segment starts with empty memory: the handlers are already registered   *)
(* while run() awaits the verifyPures activity, so sends, acks and closes  *)
(* act on that empty memory until _rehydrate merges it with the state that *)
(* the previous segment carried in its SessionInput (inp).                 *)
(*                                                                         *)
(* The session body is the user's program; of it the model keeps what      *)
(* validate.py demands (one recv, before any emit).  Before its recv a body*)
(* may wait at human gates and fail; after it, in any order, emit, wait at *)
(* gates, finish, fail.  The carrier is the number of turns that completed.*)
(* One output channel stands for all: their buffers are independent.       *)
(***************************************************************************)
EXTENDS Naturals, Sequences, FiniteSets, FiniteSetsExt, Functions, SessionStore

CONSTANTS
  In, Human,       \* the channel of the body's recv and that of its gates
  Keys, None,      \* idempotency keys, and Python's None
  Values,          \* payloads, up to their fingerprints
  Capacity,        \* channel_capacity
  CommitAttempts,  \* maximum_attempts of the commitValue activity
  Gates,           \* whether the body has human gates
  Split,           \* whether the LOOP is a split one, with a final output
  Reader,          \* whether a client acks what it reads
  MaxSends,        \* bound: messages accepted in all
  MaxOut,          \* bound: outputs emitted in all
  EarlyAt,         \* bound: records appended when a step before the recv may fail
  MaxSegment       \* bound: the last segment; 0 turns continue-as-new off

Channels == {In, Human}

ASSUME SessionAssumption ==
  /\ In # Human
  /\ None \notin Keys /\ None \notin Values
  /\ Capacity \in Nat \ {0}
  /\ CommitAttempts \in Nat \ {0}
  /\ Gates \in BOOLEAN /\ Split \in BOOLEAN /\ Reader \in BOOLEAN
  /\ MaxSends \in Nat /\ MaxOut \in Nat /\ EarlyAt \subseteq Nat
  /\ MaxSegment \in Nat

VARIABLES
  pending, in_seq, consumed_seq, idempotency_index, idempotency_fp,
  out_buffer, out_seq, ack_cursor,
  event_log, event_seq, event_ack,
  closed, close_reason, closed_event_sent,
  capacity,
  pc, parked, turn_started, carrier, state_cursor,
  inp, segment,
  store, attempt, inflight, answer,
  accepted, consumed

inbox == <<pending, in_seq, consumed_seq, idempotency_index, idempotency_fp>>
output == <<out_buffer, out_seq, ack_cursor>>
events == <<event_log, event_seq, event_ack>>
closing == <<closed, close_reason, closed_event_sent>>
control == <<pc, parked, turn_started, carrier, state_cursor>>
chain == <<inp, segment, capacity>>
commits == <<store, attempt, inflight, answer>>
ghosts == <<accepted, consumed>>   \* history only: never read by a guard of the code

vars == <<inbox, output, events, closing, control, chain, commits, ghosts>>

Terminal == pc \in {"done", "failed"}
Blocked == pc \in {"emit", "final"}    \* waiting in _emit_sink
NoAnswer == 0
Unset == 0                          \* a capacity that was not read yet
Reasons == {"none", "user", "over_budget", "error"}

(***************************************************************************)
(* The state carried to the first execution, and by each to its successor. *)
(***************************************************************************)
Empty == [c \in Channels |-> <<>>]
Zero == [c \in Channels |-> 0]
NoIndex == [c \in Channels |-> [k \in Keys |-> 0]]
NoFp == [c \in Channels |-> [k \in Keys |-> None]]

FirstInput ==
  [inbox |-> Empty, in_seq |-> Zero, consumed_seq |-> Zero,
   idempotency_index |-> NoIndex, idempotency_fp |-> NoFp,
   out_buffer |-> <<>>, out_seq |-> 0, ack_cursor |-> 0,
   event_log |-> <<>>, event_seq |-> 0, event_ack |-> 0,
   closed |-> FALSE, close_reason |-> "none",
   carrier |-> 0, state_cursor |-> 0]

(* Mutant of CarriedInput: the inbox is left behind.                       *)
CarriedWithoutInbox ==
  [inbox |-> Empty, in_seq |-> in_seq, consumed_seq |-> consumed_seq,
   idempotency_index |-> idempotency_index, idempotency_fp |-> idempotency_fp,
   out_buffer |-> out_buffer, out_seq |-> out_seq, ack_cursor |-> ack_cursor,
   event_log |-> event_log, event_seq |-> event_seq, event_ack |-> event_ack,
   closed |-> closed, close_reason |-> close_reason,
   carrier |-> carrier, state_cursor |-> answer]

CarriedInput ==
  [inbox |-> pending, in_seq |-> in_seq, consumed_seq |-> consumed_seq,
   idempotency_index |-> idempotency_index, idempotency_fp |-> idempotency_fp,
   out_buffer |-> out_buffer, out_seq |-> out_seq, ack_cursor |-> ack_cursor,
   event_log |-> event_log, event_seq |-> event_seq, event_ack |-> event_ack,
   closed |-> closed, close_reason |-> close_reason,
   carrier |-> carrier, state_cursor |-> answer]

Init ==
  /\ pending = Empty /\ in_seq = Zero /\ consumed_seq = Zero
  /\ idempotency_index = NoIndex /\ idempotency_fp = NoFp
  /\ out_buffer = <<>> /\ out_seq = 0 /\ ack_cursor = 0
  /\ event_log = <<>> /\ event_seq = 0 /\ event_ack = 0
  /\ closed = FALSE /\ close_reason = "none" /\ closed_event_sent = FALSE
  /\ pc = "boot" /\ parked = In /\ turn_started = FALSE
  /\ carrier = 0 /\ state_cursor = 0
  /\ capacity = Unset
  /\ attempt = 0 /\ answer = NoAnswer
  /\ inp = FirstInput /\ segment = 0
  /\ store = <<>> /\ inflight = {}
  /\ accepted = Zero /\ consumed = Zero

(***************************************************************************)
(* Output acknowledgement and event records.                               *)
(***************************************************************************)
(* The code keeps what is numbered above the cursor.  Buffer and log are in*)
(* order (OutputsKept, EventsKept), so what it drops is a prefix.          *)
Evict(buffer, acked) ==
  SubSeq(buffer, 1 + Cardinality({i \in DOMAIN buffer : buffer[i] <= acked}),
         Len(buffer))
EvictEvents(log, acked) ==
  SubSeq(log, 1 + Cardinality({i \in DOMAIN log : log[i].eseq <= acked}),
         Len(log))

(* Mutant of AckedOutputs: acking records acks no output.                  *)
AckedOutputsByAck(log, acked, cursor) == cursor

(* _ack_outputs_through_event_ack: acking the record of an emit acks the   *)
(* output it reports.                                                      *)
AckedOutputs(log, acked, cursor) ==
  Max({cursor} \cup {e.out : e \in {r \in Range(log) :
                                      r.kind = "emit" /\ r.eseq <= acked}})

(* _append_event for each of a sequence of records without their eseq.    *)
AppendEvents(records) ==
  LET stamped == [i \in DOMAIN records |->
                    [eseq |-> event_seq + i,
                     kind |-> records[i].kind, out |-> records[i].out]]
  IN  /\ event_seq' = event_seq + Len(records)
      /\ event_log' = EvictEvents(event_log \o stamped, event_ack)
      /\ UNCHANGED event_ack

Record(k) == [kind |-> k, out |-> 0]
EmitRecord(s) == [kind |-> "emit", out |-> s]
\* Mutant of DoneIfStarted: without the check that a turn has started.
DoneAlways == <<Record("done")>>
DoneIfStarted == IF turn_started THEN <<Record("done")>> ELSE <<>>
ClosedOnce == IF closed_event_sent THEN <<>> ELSE <<Record("closed")>>

(***************************************************************************)
(* The update handlers.  A handler runs to its end without an await, with  *)
(* its validator just before it, while the execution is open.  What a      *)
(* client may ack is what it was shown, perhaps by an earlier segment.     *)
(***************************************************************************)
Used == IF Gates THEN Channels ELSE {In}
Sent == accepted[In] + accepted[Human]

(* _raise_if_send_rejected and send, for a send that queues a message.  A  *)
(* send on a closed session or a full channel is refused, one whose key is *)
(* indexed is answered from the index (or refused, for another payload):   *)
(* these leave the state as it is.  The capacity is None before _rehydrate *)
(* has read it, and nothing is refused for it until then.                  *)
Send(c, key, value) ==
  /\ ~Terminal /\ Sent < MaxSends
  /\ ~closed
  /\ key # None => idempotency_index[c][key] = 0
  /\ capacity # Unset => Len(pending[c]) < capacity
  /\ LET seq == in_seq[c] + 1
         item == [id |-> accepted[c] + 1, seq |-> seq, key |-> key, val |-> value]
     IN  /\ in_seq' = [in_seq EXCEPT ![c] = seq]
         /\ pending' = [pending EXCEPT ![c] = Append(@, item)]
         /\ IF key = None
            THEN UNCHANGED <<idempotency_index, idempotency_fp>>
            ELSE /\ idempotency_index' = [idempotency_index EXCEPT ![c][key] = seq]
                 /\ idempotency_fp' = [idempotency_fp EXCEPT ![c][key] = value]
  /\ accepted' = [accepted EXCEPT ![c] = @ + 1]
  /\ UNCHANGED <<consumed_seq, consumed, output, events, closing, control,
                 chain, commits>>

Close ==
  /\ ~Terminal
  /\ closed' = TRUE
  /\ close_reason' = "user"
  /\ UNCHANGED <<closed_event_sent, inbox, output, events, control, chain,
                 commits, ghosts>>

Emitted == IF capacity = Unset THEN inp.out_seq ELSE out_seq
Shown == IF capacity = Unset THEN inp.event_seq ELSE event_seq

Ack(seq) ==
  /\ ~Terminal
  /\ ack_cursor' = Max({ack_cursor, seq})
  /\ out_buffer' = Evict(out_buffer, ack_cursor')
  /\ UNCHANGED <<out_seq, inbox, events, closing, control, chain, commits, ghosts>>

AckEvents(eseq) ==
  /\ ~Terminal
  /\ event_ack' = Max({event_ack, eseq})
  /\ ack_cursor' = AckedOutputs(event_log, event_ack', ack_cursor)
  /\ out_buffer' = Evict(out_buffer, ack_cursor')
  /\ event_log' = EvictEvents(event_log, event_ack')
  /\ UNCHANGED <<event_seq, out_seq, inbox, closing, control, chain, commits,
                 ghosts>>

(***************************************************************************)
(* _rehydrate: the carried state, and after it what the handlers did while *)
(* run() was still awaiting verifyPures.  A message accepted in that window*)
(* was numbered from 1 again: it takes the next free number if the carried *)
(* messages may hold its own, and its client's ack is out of date.  Acks of*)
(* the window are overwritten.                                             *)
(***************************************************************************)
Stale(c) == {j \in DOMAIN pending[c] : pending[c][j].seq <= inp.in_seq[c]}
HighWater(c) == Max({inp.in_seq[c], in_seq[c]})

\* Mutant of Restamped: the window's messages are merged newest first.
RestampedReversed(c) ==
  [i \in DOMAIN pending[c] |-> pending[c][Len(pending[c]) + 1 - i]]

Restamped(c) ==
  [i \in DOMAIN pending[c] |->
     IF i \in Stale(c)
     THEN [pending[c][i] EXCEPT
             !.seq = HighWater(c) + Cardinality({j \in Stale(c) : j <= i})]
     ELSE pending[c][i]]

(* Mutant of MergedIndex: the carried entry wins over the window's.        *)
MergedIndexCarried(c) ==
  [k \in Keys |-> IF inp.idempotency_index[c][k] # 0
                  THEN inp.idempotency_index[c][k] ELSE idempotency_index[c][k]]

MergedIndex(c) ==
  [k \in Keys |->
     LET sent == {i \in DOMAIN pending[c] : pending[c][i].key = k}
     IN  CASE sent # {} -> Restamped(c)[Max(sent)].seq
           [] sent = {} /\ inp.idempotency_index[c][k] # 0 ->
                inp.idempotency_index[c][k]
           [] OTHER -> idempotency_index[c][k]]

MergedFp(c) ==
  [k \in Keys |-> IF idempotency_fp[c][k] # None
                  THEN idempotency_fp[c][k] ELSE inp.idempotency_fp[c][k]]

Rehydrate ==
  /\ pc = "boot"
  /\ pending' = [c \in Channels |-> inp.inbox[c] \o Restamped(c)]
  /\ in_seq' = [c \in Channels |-> HighWater(c) + Cardinality(Stale(c))]
  /\ consumed_seq' = [c \in Channels |-> Max({inp.consumed_seq[c], consumed_seq[c]})]
  /\ idempotency_index' = [c \in Channels |-> MergedIndex(c)]
  /\ idempotency_fp' = [c \in Channels |-> MergedFp(c)]
  /\ out_seq' = Max({inp.out_seq, out_seq})
  /\ ack_cursor' = AckedOutputs(inp.event_log, inp.event_ack, inp.ack_cursor)
  /\ out_buffer' = Evict(inp.out_buffer, ack_cursor')
  /\ event_ack' = inp.event_ack
  /\ event_log' = EvictEvents(inp.event_log, inp.event_ack)
  /\ event_seq' = Max({inp.event_seq} \cup {e.eseq : e \in Range(inp.event_log)})
  /\ closed' = (inp.closed \/ closed)
  /\ close_reason' = IF closed THEN close_reason ELSE inp.close_reason
  /\ carrier' = inp.carrier
  /\ state_cursor' = inp.state_cursor
  /\ capacity' = Capacity
  /\ pc' = "recv"
  /\ UNCHANGED <<closed_event_sent, parked, turn_started, inp, segment, commits,
                 ghosts>>

(***************************************************************************)
(* The waits of a turn: the body's recv and its human gates are both       *)
(* _recv_waiter.  A pending message wins over a closed session.  At "recv" *)
(* the body is before its recv or waits there; at "ask" it waits at a gate *)
(* before it, whose answer starts the turn as any message does.            *)
(***************************************************************************)
Take(c, next) ==
  /\ pending[c] # <<>>
  /\ pending' = [pending EXCEPT ![c] = Tail(@)]
  /\ consumed_seq' = [consumed_seq EXCEPT ![c] = Head(pending[c]).seq]
  /\ consumed' = [consumed EXCEPT ![c] = @ + 1]
  /\ turn_started' = TRUE
  /\ AppendEvents(<<Record("started")>>)
  /\ pc' = next
  /\ UNCHANGED <<in_seq, idempotency_index, idempotency_fp, output, closing,
                 parked, carrier, state_cursor, chain, commits, accepted>>

Recv == pc = "recv" /\ Take(In, "body")
GateAnswered ==
  \/ pc = "gate" /\ Take(Human, "body")
  \/ pc = "ask" /\ Take(Human, "recv")

Awaited == IF pc \in {"gate", "ask"} THEN Human ELSE In
Waiting == pc \in {"recv", "gate", "ask"} /\ pending[Awaited] = <<>>

(* SessionClosed leaves the run loop from wherever the body waited.  A     *)
(* timer that fires in the workflow task of a send and a close finds the   *)
(* session closed, and the message of that send stays where it is.         *)
Quiesce ==
  /\ closed
  /\ Waiting \/ (pc = "parked" /\ pending[parked] # <<>>)
  /\ AppendEvents(ClosedOnce)
  /\ closed_event_sent' = TRUE
  /\ pc' = "done"
  /\ UNCHANGED <<closed, close_reason, inbox, output, parked, turn_started,
                 carrier, state_cursor, chain, commits, ghosts>>

(* RecvTimeout leaves the body too: run() waits for its channel with no    *)
(* timeout, and then evaluates the body again from the start.              *)
Timeout ==
  /\ Waiting /\ ~closed
  /\ parked' = Awaited
  /\ pc' = "parked"
  /\ UNCHANGED <<turn_started, carrier, state_cursor, inbox, output, events,
                 closing, chain, commits, ghosts>>

(* Mutant of Resume: a close does not wake run().                          *)
ResumeOnMessage ==
  /\ pc = "parked"
  /\ pending[parked] # <<>>
  /\ pc' = "recv"
  /\ UNCHANGED <<parked, turn_started, carrier, state_cursor, inbox, output,
                 events, closing, chain, commits, ghosts>>

Resume ==
  /\ pc = "parked"
  /\ pending[parked] # <<>> \/ closed
  /\ pc' = "recv"
  /\ UNCHANGED <<parked, turn_started, carrier, state_cursor, inbox, output,
                 events, closing, chain, commits, ghosts>>

(***************************************************************************)
(* The body after its recv.                                                *)
(***************************************************************************)
Goto(from, to) ==
  /\ pc = from
  /\ pc' = to
  /\ UNCHANGED <<parked, turn_started, carrier, state_cursor, inbox, output,
                 events, closing, chain, commits, ghosts>>

AskHuman == Gates /\ Goto("body", "gate")
AskBeforeRecv == Gates /\ Goto("recv", "ask")
StartEmit == out_seq < MaxOut /\ Goto("body", "emit")
StartFinalEmit == Split /\ out_seq < MaxOut /\ Goto("body", "final")

(* Mutant of RoomToEmit: one output more than there is room for.           *)
RoomForOneMore == Len(out_buffer) <= capacity \/ closed
RoomToEmit == Len(out_buffer) < capacity \/ closed

(* _emit_sink after its wait; the records it appends come first.           *)
PutOutput ==
  /\ RoomToEmit
  /\ out_seq' = out_seq + 1
  /\ out_buffer' = Append(out_buffer, out_seq')
  /\ UNCHANGED ack_cursor

Emit ==
  /\ pc = "emit"
  /\ PutOutput
  /\ AppendEvents(<<EmitRecord(out_seq')>>)
  /\ pc' = "body"
  /\ UNCHANGED <<parked, turn_started, carrier, state_cursor, inbox, closing,
                 chain, commits, ghosts>>

(***************************************************************************)
(* The end of a turn: its records, and _post_turn_budget_and_can up to its *)
(* first await.  Any turn may exceed the budget, and any may find that the *)
(* history has reached its threshold.                                      *)
(***************************************************************************)
AfterTurn(records) ==
  /\ turn_started' = FALSE
  /\ \/ /\ closed' = TRUE /\ close_reason' = "over_budget"
        /\ AppendEvents(records \o ClosedOnce)
        /\ closed_event_sent' = TRUE
        /\ pc' = "done"
        /\ UNCHANGED <<attempt, answer>>
     \/ /\ segment < MaxSegment
        /\ AppendEvents(records)
        /\ pc' = "commit" /\ attempt' = 0 /\ answer' = NoAnswer
        /\ UNCHANGED closing
     \/ /\ AppendEvents(records)
        /\ pc' = "recv"
        /\ UNCHANGED <<closing, attempt, answer>>
  /\ UNCHANGED <<parked, state_cursor, inbox, chain, store, inflight, ghosts>>

(* A result that is no pair ends the turn of a split body without output.  *)
TurnDone ==
  /\ carrier' = carrier + 1
  /\ \/ /\ pc = "body"
        /\ AfterTurn(DoneIfStarted)
        /\ UNCHANGED output
     \/ /\ pc = "final"
        /\ PutOutput
        /\ AfterTurn(<<EmitRecord(out_seq')>> \o DoneIfStarted)

(* A SessionTurnError that is not fatal: the carrier stays what it was.    *)
FailTurn(from) ==
  /\ pc = from
  /\ AfterTurn(<<Record("error")>> \o DoneIfStarted)
  /\ UNCHANGED <<carrier, output>>

(* Any other JulepError, or a fatal SessionTurnError.                      *)
FailSession(from) ==
  /\ pc = from
  /\ AppendEvents(<<Record("error")>> \o ClosedOnce)
  /\ closed' = TRUE /\ close_reason' = "error" /\ closed_event_sent' = TRUE
  /\ pc' = "failed"
  /\ UNCHANGED <<parked, turn_started, carrier, state_cursor, inbox, output,
                 chain, commits, ghosts>>

TurnError == FailTurn("body")
FatalError == FailSession("body")

(* An activity failure that no except clause of run() takes.               *)
ActivityFails == \E from \in {"boot", "body"} : Goto(from, "failed")

(* A step before the recv fails: no turn has started, unless a gate was    *)
(* answered.                                                               *)
FailsBeforeRecv ==
  /\ event_seq \in EarlyAt
  /\ FailTurn("recv") \/ FailSession("recv") \/ Goto("recv", "failed")

(***************************************************************************)
(* _commit_carrier and _continue_as_new.  Temporal starts attempt after    *)
(* attempt of commitValue.  A worker runs an attempt once, perhaps after   *)
(* it was given up, and only the answer of the latest one is heard, if it  *)
(* is not lost on the way.  CursorConflict is one more failed attempt.     *)
(***************************************************************************)
(* Mutant of IssueCommit: attempts are not counted.                        *)
IssueCommitForever ==
  /\ pc = "commit" /\ answer = NoAnswer
  /\ attempt' = attempt + 1
  /\ inflight' = inflight \cup
       {[base |-> state_cursor, value |-> carrier, try |-> attempt + 1]}
  /\ UNCHANGED <<store, answer, inbox, output, events, closing, control, chain,
                 ghosts>>

IssueCommit ==
  /\ pc = "commit" /\ answer = NoAnswer /\ attempt < CommitAttempts
  /\ attempt' = attempt + 1
  /\ inflight' = inflight \cup
       {[base |-> state_cursor, value |-> carrier, try |-> attempt + 1]}
  /\ UNCHANGED <<store, answer, inbox, output, events, closing, control, chain,
                 ghosts>>

Heard(request) ==
  /\ pc = "commit" /\ answer = NoAnswer
  /\ request = [base |-> state_cursor, value |-> carrier, try |-> attempt]

RunCommit(request) ==
  /\ request \in inflight
  /\ inflight' = inflight \ {request}
  /\ store' = CommitLog(store, request.base, request.value)
  /\ \/ UNCHANGED answer
     \/ /\ Heard(request)
        /\ ~CommitConflicts(store, request.base, request.value)
        /\ answer' = CommitCursor(store, request.base, request.value)
  /\ UNCHANGED <<attempt, inbox, output, events, closing, control, chain, ghosts>>

CommitFails ==
  /\ answer = NoAnswer /\ attempt = CommitAttempts
  /\ Goto("commit", "failed")

ContinueAsNew ==
  /\ pc = "commit" /\ answer # NoAnswer
  /\ inp' = CarriedInput
  /\ segment' = segment + 1
  /\ pending' = Empty /\ in_seq' = Zero /\ consumed_seq' = Zero
  /\ idempotency_index' = NoIndex /\ idempotency_fp' = NoFp
  /\ out_buffer' = <<>> /\ out_seq' = 0 /\ ack_cursor' = 0
  /\ event_log' = <<>> /\ event_seq' = 0 /\ event_ack' = 0
  /\ closed' = FALSE /\ close_reason' = "none" /\ closed_event_sent' = FALSE
  /\ pc' = "boot" /\ parked' = In /\ turn_started' = FALSE
  /\ carrier' = 0 /\ state_cursor' = 0
  /\ capacity' = Unset
  /\ attempt' = 0 /\ answer' = NoAnswer
  /\ UNCHANGED <<store, inflight, ghosts>>

(***************************************************************************)
(* The specification.                                                      *)
(***************************************************************************)
WorkflowStep ==
  \/ Rehydrate \/ Recv \/ GateAnswered \/ Quiesce \/ Resume
  \/ AskHuman \/ StartEmit \/ StartFinalEmit \/ Emit
  \/ TurnDone \/ TurnError \/ FatalError
  \/ ContinueAsNew

ActivityStep ==
  \/ IssueCommit \/ CommitFails \/ ActivityFails
  \/ \E request \in inflight : RunCommit(request)

ClientStep ==
  \/ \E c \in Used, key \in Keys \cup {None}, value \in Values : Send(c, key, value)
  \/ Close
  \/ Reader /\ \E seq \in 1..Emitted : Ack(seq)
  \/ Reader /\ \E eseq \in 1..Shown : AckEvents(eseq)

(* What a body may do before its recv, and need not.                       *)
BeforeRecv == AskBeforeRecv \/ FailsBeforeRecv

Next == WorkflowStep \/ ActivityStep \/ BeforeRecv \/ Timeout \/ ClientStep

Spec == Init /\ [][Next]_vars

(***************************************************************************)
(* Properties.                                                             *)
(***************************************************************************)
Item == [id : Nat, seq : Nat, key : Keys \cup {None}, val : Values]
Kinds == {"started", "done", "emit", "error", "closed"}
EventRecord == [eseq : Nat, kind : Kinds, out : Nat]
PCs == {"boot", "recv", "ask", "gate", "parked", "body", "emit", "final", "commit",
        "done", "failed"}
Carried == [inbox : [Channels -> Seq(Item)], in_seq : [Channels -> Nat],
            consumed_seq : [Channels -> Nat],
            idempotency_index : [Channels -> [Keys -> Nat]],
            idempotency_fp : [Channels -> [Keys -> Values \cup {None}]],
            out_buffer : Seq(Nat), out_seq : Nat, ack_cursor : Nat,
            event_log : Seq(EventRecord), event_seq : Nat, event_ack : Nat,
            closed : BOOLEAN, close_reason : Reasons,
            carrier : Nat, state_cursor : Nat]

(* The types of the state, live and carried.                               *)
TypeOK ==
  /\ pending \in [Channels -> Seq(Item)]
  /\ in_seq \in [Channels -> Nat] /\ consumed_seq \in [Channels -> Nat]
  /\ idempotency_index \in [Channels -> [Keys -> Nat]]
  /\ idempotency_fp \in [Channels -> [Keys -> Values \cup {None}]]
  /\ out_buffer \in Seq(Nat) /\ out_seq \in Nat /\ ack_cursor \in Nat
  /\ event_log \in Seq(EventRecord) /\ event_seq \in Nat /\ event_ack \in Nat
  /\ closed \in BOOLEAN /\ close_reason \in Reasons
  /\ closed_event_sent \in BOOLEAN
  /\ capacity \in {Unset, Capacity}
  /\ pc \in PCs /\ parked \in Channels /\ turn_started \in BOOLEAN
  /\ carrier \in Nat /\ state_cursor \in Nat
  /\ inp \in Carried /\ segment \in Nat
  /\ store \in Seq([base : Nat, value : Nat])
  /\ attempt \in 0..CommitAttempts /\ answer \in Nat
  /\ inflight \subseteq [base : Nat, value : Nat, try : Nat]
  /\ accepted \in [Channels -> Nat] /\ consumed \in [Channels -> Nat]

Rehydrated == capacity # Unset

(* What was sent on a channel and not yet handed to the body: while a      *)
(* segment boots, the carried messages and behind them those of the window.*)
Inbox(c) == IF Rehydrated THEN pending[c] ELSE inp.inbox[c] \o pending[c]

(* Acknowledged messages are handed to the body exactly once and in the    *)
(* order of their acknowledgement, through any number of continue-as-new:  *)
(* the inbox holds precisely the messages after the last one consumed.     *)
InboxFIFO ==
  \A c \in Channels :
    /\ accepted[c] = consumed[c] + Len(Inbox(c))
    /\ \A i \in DOMAIN Inbox(c) : Inbox(c)[i].id = consumed[c] + i

(* No two messages that wait on a channel carry the same sequence number,  *)
(* although the handlers number from 1 again before every _rehydrate.      *)
SeqUnique ==
  Rehydrated =>
    \A c \in Channels : \A i, j \in DOMAIN pending[c] :
      /\ pending[c][i].seq = pending[c][j].seq => i = j
      /\ pending[c][i].seq <= in_seq[c]

(* The index and the payload fingerprint of a key are those of the latest  *)
(* message that waits with that key, also after _rehydrate merged the maps *)
(* of two segments and renumbered the messages of one of them.             *)
IndexNamesLatest ==
  \A c \in Channels : \A i \in DOMAIN pending[c] :
    LET item == pending[c][i]
    IN  /\ item.key # None
        /\ \A j \in DOMAIN pending[c] : j > i => pending[c][j].key # item.key
        => /\ idempotency_index[c][item.key] = item.seq
           /\ idempotency_fp[c][item.key] = item.val

(* Waiting messages can be told apart by number, and found by key.         *)
MessagesNamed == SeqUnique /\ IndexNamesLatest

(* Every record after the last one acked is in the log, in order: neither  *)
(* eviction nor continue-as-new loses one or numbers two alike.            *)
EventsKept ==
  Rehydrated =>
    /\ Len(event_log) = event_seq - event_ack
    /\ \A i \in DOMAIN event_log : event_log[i].eseq = event_ack + i

(* The buffer holds exactly the outputs emitted and not acked, and outgrows*)
(* the capacity only once the session is closed.                           *)
OutputsKept ==
  Rehydrated =>
    /\ Len(out_buffer) = out_seq - ack_cursor
    /\ \A i \in DOMAIN out_buffer : out_buffer[i] = ack_cursor + i
    /\ closed \/ Len(out_buffer) <= capacity

(* A consumer that comes late finds every record and output it has not     *)
(* acked.                                                                  *)
UnackedKept == EventsKept /\ OutputsKept

(* An output that takes room in the buffer still has its record in the     *)
(* event log.  A client that reads events only can therefore always ack it:*)
(* no emit waits for room that nobody can make.                            *)
BufferedOutputReported ==
  Rehydrated =>
    \A s \in Range(out_buffer) :
      \E e \in Range(event_log) : e.kind = "emit" /\ e.out = s

(* The retry of a commit never conflicts, whether or not the attempt whose *)
(* answer was lost had been applied, and late attempts of earlier commits  *)
(* do not disturb it.                                                      *)
CommitNeverConflicts ==
  \A r \in inflight :
    pc = "commit" /\ r.base = state_cursor /\ r.value = carrier
      => ~CommitConflicts(store, r.base, r.value)

(* The revisions form one chain, and the cursor a segment starts from names*)
(* the carrier it starts with.                                             *)
CursorNamesCarrier ==
  /\ \A i \in DOMAIN store : store[i].base = i - 1
  /\ segment > 0 =>
       /\ inp.state_cursor \in DOMAIN store
       /\ store[inp.state_cursor].value = inp.carrier

(* The store and the session never disagree about what is committed.       *)
StoreAgrees == CommitNeverConflicts /\ CursorNamesCarrier

(* Without gates, the records tell the turns apart: each is started, then  *)
(* its outputs, then done, with a recoverable error between the last two.  *)
(* An error of a step before the recv stands between turns: it closes none.*)
MayFollow ==
  {<<"started", "emit">>, <<"started", "done">>, <<"started", "error">>,
   <<"emit", "emit">>, <<"emit", "done">>, <<"emit", "error">>,
   <<"done", "started">>, <<"done", "error">>, <<"done", "closed">>,
   <<"error", "done">>, <<"error", "error">>, <<"error", "started">>,
   <<"error", "closed">>}
InTurn == {"started", "emit"}
EndsTurn == {"done", "closed"}

TurnOrder ==
  /\ \A i \in 1..Len(event_log) - 1 :
       <<event_log[i].kind, event_log[i + 1].kind>> \in MayFollow
  /\ \A i \in 2..Len(event_log) - 1 :
       event_log[i].kind = "error" =>
         IF event_log[i - 1].kind \in InTurn
         THEN event_log[i + 1].kind \in EndsTurn
         ELSE event_log[i + 1].kind # "done"

(* The inbound side implements Mailbox.                                    *)
InboxIds == [c \in Channels |-> [i \in DOMAIN Inbox(c) |-> Inbox(c)[i].id]]
Box == INSTANCE Mailbox WITH queue <- InboxIds
ImplementsMailbox == Box!Spec

(* The order of the code's documentation, for what the code does not keep. *)
(* Reusing an idempotency key returns the original ack: a send whose key is*)
(* on record, live or carried, queues nothing.                             *)
OnRecord(c, k) ==
  \/ idempotency_index[c][k] # 0
  \/ ~Rehydrated /\ inp.idempotency_index[c][k] # 0

ReusedKeyQueuesNothing ==
  [][\A c \in Channels :
       accepted'[c] > accepted[c] =>
         LET key == pending'[c][Len(pending'[c])].key
         IN  key # None => ~OnRecord(c, key)]_vars
=============================================================================
