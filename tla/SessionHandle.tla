---------------------------- MODULE SessionHandle ----------------------------
(***************************************************************************)
(* TemporalSessionHandle.events(): the client that reads a session.  It    *)
(* polls the events query, yields one record per round and acks it only    *)
(* when the consumer asks for the next.  A query or an update is one step; *)
(* the session runs between any two.  The consumer may crash, and then     *)
(* reads on through a handle that knows nothing of the first.              *)
(***************************************************************************)
EXTENDS SessionWorkflow

CONSTANTS
  MaxCrashes,          \* bound: crashes of the consumer
  MaxLost,             \* bound: acks that do not reach a running session
  MaxSendsIfFaulty     \* bound: sends of a behaviour with a crash or a lost ack

VARIABLES
  h_pc,                \* "ack", "query", "last" (the ack after Closed) or "ended"
  last_eseq,           \* the record yielded last
  last_acked_eseq,     \* the record acked last, as far as this handle knows
  crashes, lost,
  seen                 \* history: the highest record any consumer was given

handle == <<h_pc, last_eseq, last_acked_eseq, crashes, lost, seen>>

HandleInit ==
  /\ Init
  /\ h_pc = "ack" /\ last_eseq = 0 /\ last_acked_eseq = 0
  /\ crashes = 0 /\ lost = 0 /\ seen = 0

(* A round starts by acking what was yielded.  The update fails once the   *)
(* workflow has completed, and counts as acked all the same.               *)
HandleAck ==
  /\ h_pc \in {"ack", "last"}
  /\ h_pc' = IF h_pc = "ack" THEN "query" ELSE "ended"
  /\ last_acked_eseq' = last_eseq
  /\ IF last_eseq > last_acked_eseq /\ ~Terminal
     THEN AckEvents(last_eseq)
     ELSE UNCHANGED vars
  /\ UNCHANGED <<last_eseq, crashes, lost, seen>>

(* The call may fail while the session runs on: the handle swallows that as*)
(* well, and does not send this ack again.                                 *)
HandleAckLost ==
  /\ h_pc \in {"ack", "last"}
  /\ last_eseq > last_acked_eseq /\ ~Terminal
  /\ lost < MaxLost /\ accepted[In] <= MaxSendsIfFaulty
  /\ lost' = lost + 1
  /\ h_pc' = IF h_pc = "ack" THEN "query" ELSE "ended"
  /\ last_acked_eseq' = last_eseq
  /\ UNCHANGED <<last_eseq, crashes, seen, vars>>

(* Mutant of Unread: the record after the last one is passed over.         *)
UnreadBeyond == {e \in Range(event_log) : e.eseq > last_eseq + 1}

Unread == {e \in Range(event_log) : e.eseq > last_eseq}

HandleYield ==
  /\ h_pc = "query"
  /\ Unread # {}
  /\ LET item == CHOOSE e \in Unread : \A f \in Unread : e.eseq <= f.eseq
     IN  /\ last_eseq' = item.eseq
         /\ seen' = Max({seen, item.eseq})
         /\ h_pc' = IF item.kind = "closed" THEN "last" ELSE "ack"
  /\ UNCHANGED <<last_acked_eseq, crashes, lost, vars>>

HandleSleep ==
  /\ h_pc = "query"
  /\ Unread = {}
  /\ h_pc' = "ack"
  /\ UNCHANGED <<last_eseq, last_acked_eseq, crashes, lost, seen, vars>>

HandleCrash ==
  /\ crashes < MaxCrashes /\ accepted[In] <= MaxSendsIfFaulty
  /\ crashes' = crashes + 1
  /\ h_pc' = "ack" /\ last_eseq' = 0 /\ last_acked_eseq' = 0
  /\ UNCHANGED <<lost, seen, vars>>

HandleStep == HandleAck \/ HandleYield \/ HandleSleep

SessionStep ==
  /\ Next /\ UNCHANGED handle
  /\ crashes + lost > 0 => accepted'[In] <= MaxSendsIfFaulty

HandleNext ==
  \/ SessionStep
  \/ HandleStep
  \/ HandleAckLost
  \/ HandleCrash

allvars == <<vars, handle>>

HandleSpec == HandleInit /\ [][HandleNext]_allvars

(* Temporal runs an enabled workflow task and schedules every attempt of an*)
(* activity; the consumer asks for the next event as long as there is one. *)
(* Nothing is assumed of sends, of close, of timeouts, of crashes or of    *)
(* lost acks.                                                              *)
Fairness ==
  /\ WF_allvars(WorkflowStep /\ UNCHANGED handle)
  /\ WF_allvars(ActivityStep /\ UNCHANGED handle)
  /\ WF_allvars(HandleStep)

FairHandleSpec == HandleSpec /\ Fairness

(* No consumer is given a record past one that nobody was given, whatever  *)
(* was acked, evicted or carried, and wherever a consumer crashed.         *)
NoEventSkipped == [][seen' <= seen + 1]_allvars

(* A session that waits for room to emit gets on, because the consumer's   *)
(* acks free the buffer: also when an ack fell into the boot of a segment, *)
(* where _rehydrate overwrites it.                                         *)
EmitGetsRoom == Blocked ~> ~Blocked

(* So it does after any crash of the consumer, as long as no ack is lost,  *)
(* and an acknowledged message reaches the body, or the session ends.      *)
SessionMoves ==
  /\ Blocked ~> (~Blocked \/ lost > 0)
  /\ \A n \in 1..MaxSends :
       accepted[In] >= n ~> (consumed[In] >= n \/ Terminal \/ lost > 0)

(* A closed session stops, whatever it was doing, and the consumer of a    *)
(* session that ran to its end is told so.                                 *)
CloseArrives ==
  /\ closed ~> Terminal
  /\ pc = "done" ~> h_pc = "ended"
=============================================================================
