------------------------------ MODULE Coalescer ------------------------------
(***************************************************************************)
(* SyncCoalescer: concurrent reasoner calls of one event loop, gathered    *)
(* into flushes of at most MaxBatch.  Its lock is never held over an       *)
(* await, so what is done under it is one step.  A caller is known by its  *)
(* future: "waiting", "ok", "error" or "canceled".                         *)
(***************************************************************************)
EXTENDS Naturals, SequencesExt, FiniteSetsExt

CONSTANTS Waiters, MaxBatch

(* __init__ refuses a smaller one.                                         *)
ASSUME CoalescerAssumption == MaxBatch \in Nat \ {0}

VARIABLES
  future,              \* of each caller; "idle" before it calls
  pending,             \* _pending: the callers that wait for a flush
  flush,               \* the flush task: "none", "waits", "dispatch"
  flush_now,           \* its event is set
  batch, replies,      \* the callers it dispatched; what came back for them
  had_surplus          \* the batch left some behind

coalescerVars == <<future, pending, flush, flush_now, batch, replies, had_surplus>>

-----------------------------------------------------------------------------
(* A dispatch of the BATCH tier goes straight to the caller it wraps and   *)
(* is not modelled.                                                        *)
CallReasoner(c) ==
  /\ future[c] = "idle"
  /\ future' = [future EXCEPT ![c] = "waiting"]
  /\ pending' = Append(pending, c)
  /\ flush' = IF flush = "none" THEN "waits" ELSE flush
  /\ flush_now' = ((flush # "none" /\ flush_now) \/ Len(pending) + 1 >= MaxBatch)
  /\ UNCHANGED <<batch, replies, had_surplus>>

(* The caller's own task is canceled: nothing tells the coalescer, which   *)
(* still makes the call.                                                   *)
CancelCaller(c) ==
  /\ future[c] = "waiting"
  /\ future' = [future EXCEPT ![c] = "canceled"]
  /\ UNCHANGED <<pending, flush, flush_now, batch, replies, had_surplus>>

(* The window passes, or the event is set; _take_batch.                    *)
TakeBatch ==
  /\ flush = "waits"
  /\ LET n == Min({MaxBatch, Len(pending)})
         left == SubSeq(pending, n + 1, Len(pending))
     IN /\ batch' = SubSeq(pending, 1, n)
        /\ pending' = left
        /\ had_surplus' = (left # <<>>) /\ flush_now' = (left # <<>>)
  /\ flush' = "dispatch" /\ replies' = <<>>
  /\ UNCHANGED future

(* The calls of a batch come back in any order; their replies stay apart.  *)
UnderlyingReturns(c) ==
  /\ flush = "dispatch" /\ c \in Range(batch) \ DOMAIN replies
  /\ \E r \in {"ok", "error"} :
       replies' = [d \in DOMAIN replies \union {c} |-> IF d = c THEN r ELSE replies[d]]
  /\ UNCHANGED <<future, pending, flush, flush_now, batch, had_surplus>>

(* Mutant: what arrived during the dispatch is left to the next call.      *)
DeliverAndRest ==
  /\ flush = "dispatch" /\ DOMAIN replies = Range(batch)
  /\ future' = [c \in Waiters |->
       IF c \in Range(batch) /\ future[c] = "waiting" THEN replies[c] ELSE future[c]]
  /\ batch' = <<>> /\ replies' = <<>>
  /\ flush' = "none" /\ flush_now' = FALSE
  /\ UNCHANGED <<pending, had_surplus>>

(* _dispatch returns and the loop looks for what arrived meanwhile.        *)
Deliver ==
  /\ flush = "dispatch" /\ DOMAIN replies = Range(batch)
  /\ future' = [c \in Waiters |->
       IF c \in Range(batch) /\ future[c] = "waiting" THEN replies[c] ELSE future[c]]
  /\ batch' = <<>> /\ replies' = <<>>
  /\ IF pending = <<>>
     THEN flush' = "none" /\ flush_now' = FALSE
     ELSE /\ flush' = "waits"
          /\ flush_now' = (flush_now \/ had_surplus \/ Len(pending) >= MaxBatch)
  /\ UNCHANGED <<pending, had_surplus>>

(* The injected sleep raises: _fail_pending.  (Not in the same pass of the *)
(* event loop as the event is set.)                                        *)
SleepFails ==
  /\ flush = "waits" /\ ~flush_now /\ Len(pending) < MaxBatch
  /\ future' = [c \in Waiters |->
       IF c \in Range(pending) /\ future[c] = "waiting" THEN "error" ELSE future[c]]
  /\ pending' = <<>> /\ flush' = "none" /\ flush_now' = FALSE
  /\ UNCHANGED <<batch, replies, had_surplus>>

CoalescerInit ==
  /\ future = [c \in Waiters |-> "idle"] /\ pending = <<>>
  /\ flush = "none" /\ flush_now = FALSE
  /\ batch = <<>> /\ replies = <<>> /\ had_surplus = FALSE

CoalescerSteps ==
  TakeBatch \/ Deliver \/ \E c \in Waiters : UnderlyingReturns(c)

CoalescerNext ==
  \/ \E c \in Waiters : CallReasoner(c) \/ CancelCaller(c)
  \/ CoalescerSteps \/ SleepFails

CoalescerSpec == CoalescerInit /\ [][CoalescerNext]_coalescerVars

-----------------------------------------------------------------------------
(* Nobody waits for a flush that will not come: a caller whose future is   *)
(* open is in line or in the batch, a line has a flush task, and a line    *)
(* that is full wakes it at once; and every call returns, whoever was      *)
(* canceled, whatever failed and however many arrived during a dispatch.   *)
NobodyForgotten ==
  /\ \A c \in Waiters : future[c] = "waiting" => c \in Range(pending) \union Range(batch)
  /\ pending # <<>> => flush # "none"
  /\ Len(batch) <= MaxBatch
  /\ Len(pending) >= MaxBatch => flush_now

CallsReturn ==
  /\ [][NobodyForgotten']_coalescerVars
  /\ \A c \in Waiters : future[c] = "waiting" ~> future[c] # "waiting"
=============================================================================
