---------------------------- MODULE ControlPlane ----------------------------
(***************************************************************************)
(* One run as the control plane sees it: the requests that submit it under *)
(* one Idempotency-Key, its row and events in the execution store, the     *)
(* workflow that writes both through its egress activities, the reconciler *)
(* that repairs what a crash left open, and a client that streams the      *)
(* events.  Servers share nothing but the store, so a step is one call of  *)
(* the store or of Temporal.                                               *)
(***************************************************************************)
EXTENDS Naturals, SequencesExt, FiniteSets, FiniteSetsExt

CONSTANTS
  Requests,            \* the POST /runs calls of the client and its retries
  Releases,            \* releases with this pipeline
  None,                \* a body without a release; no row; no activity
  BatchSize,           \* projection_batch_size
  Budgets              \* bounds: how often, in one behaviour, each of these
                       \* happens: requests, deploys, events, segments,
                       \* cancels, connects, faults

ASSUME ControlPlaneAssumption ==
  /\ Releases # {} /\ None \notin Releases
  /\ BatchSize \in Nat \ {0}
  /\ Budgets \subseteq [{"requests", "deploys", "events", "segments", "cancels",
                        "connects", "faults"} -> Nat]

VARIABLES
  active,              \* the release deployed now
  request,             \* per request: pc, the release it asks for and the one it got
  row,                 \* the run's row: status, release, finished_at set; or None
  log,                 \* its projection events in the order of their seq
  rpc,                 \* the start call: "none", "sent", "done" or "lost"
  wf,                  \* the workflow: see WorkflowInit
  act,                 \* its egress activity in flight, or None
  rec,                 \* the reconciler: pc, whether it listed the run as
                       \* submitting, Temporal's verdict
  reader,              \* the streaming client and its connection
  budget,              \* what is left of the budget
  starts,              \* history: workflows started
  emitted,             \* history: what the projection of the workflow emitted
  given_up             \* history: start_failed was written

front == <<active, request>>
stored == <<row, log, given_up>>
temporal == <<rpc, starts, emitted, wf, act>>
watchers == <<rec, reader>>
vars == <<front, stored, temporal, watchers, budget>>

TERMINAL_RUN_STATUSES == {"completed", "failed", "canceled", "terminated"}
Statuses == TERMINAL_RUN_STATUSES
            \union {"submitting", "accepted", "running", "start_failed"}

Rows == [status : Statuses, release : Releases, finished : BOOLEAN]
ASSUME NoRowAssumption == None \notin Rows

(* Mutant: a reconciler's verdict overwrites whatever the row says.        *)
PredecessorsAny(status) == Statuses

_RUN_STATUS_PREDECESSORS(status) ==
  CASE status = "accepted" -> {"submitting", "accepted"}
    [] status = "start_failed" -> {"submitting", "start_failed"}
    [] status = "running" -> {"accepted", "running"}
    [] OTHER -> {"submitting", "accepted", "running", status}

(* set_run_status: the status moves only from a predecessor; the other     *)
(* columns are written either way.                                         *)
set_run_status(status, finished) ==
  /\ row' = [row EXCEPT
       !.status = IF @ \in _RUN_STATUS_PREDECESSORS(status) THEN status ELSE @,
       !.finished = @ \/ finished]
  /\ given_up' = (given_up \/ row'.status = "start_failed")

(* The events that are not in the log, in their order.                     *)
New(events) ==
  LET new == {i \in DOMAIN events : events[i] \notin Range(log)}
      nth(n) == CHOOSE i \in new : Cardinality(new \intersect (1..i)) = n
  IN  [n \in 1..Cardinality(new) |-> events[nth(n)]]

(* insert_events: rows already stored are skipped, and an event is proof   *)
(* that an accepted run is running.                                        *)
insert_events(events) ==
  /\ log' = log \o New(events)
  /\ row' = IF row # None /\ row.status = "accepted"
            THEN [row EXCEPT !.status = "running"] ELSE row

Event(seg, n) == [seg |-> seg, n |-> n, terminal |-> FALSE]
TerminalEvent(seg) == [seg |-> seg, n |-> 0, terminal |-> TRUE]
ReconciledEvent == [seg |-> 0, n |-> 1, terminal |-> TRUE]

Spend(what) ==
  /\ budget[what] > 0
  /\ budget' = [budget EXCEPT ![what] = @ - 1]

-----------------------------------------------------------------------------
(* The submission of a run.                                                *)

Answer(q, what) == request' = [request EXCEPT ![q].pc = what]

(* A retry is answered from the row if its release matches; otherwise the  *)
(* release is resolved, which is today's deployment if none was named.     *)
Submit(q) ==
  /\ request[q].pc = "idle" /\ Spend("requests")
  /\ \E asks \in Releases \union {None} :
       LET release == IF asks = None THEN active ELSE asks
       IN request' = [request EXCEPT ![q] =
            [pc |-> IF row = None THEN "create"
                    ELSE IF row.release = release THEN "answered"
                    ELSE "conflict",
             asks |-> asks, release |-> release]]
  /\ UNCHANGED <<active, stored, temporal, watchers>>

(* Mutant: the row of another request does not keep this one from starting.*)
CreateAnyway(q) ==
  /\ request[q].pc = "create"
  /\ row' = IF row = None
            THEN [status |-> "submitting", release |-> request[q].release,
                  finished |-> FALSE]
            ELSE row
  /\ Answer(q, "start")
  /\ UNCHANGED <<active, log, given_up, temporal, watchers, budget>>

(* create_run decides which of several requests starts the workflow.       *)
Create(q) ==
  /\ request[q].pc = "create"
  /\ IF row = None
     THEN /\ row' = [status |-> "submitting", release |-> request[q].release,
                     finished |-> FALSE]
          /\ Answer(q, "start")
     ELSE /\ Answer(q, IF row.release = request[q].release THEN "answered"
                       ELSE "conflict")
          /\ UNCHANGED row
  /\ UNCHANGED <<active, log, given_up, temporal, watchers, budget>>

(* The input cannot be stored, or the gateway refuses before it calls      *)
(* Temporal.  Otherwise the input is stored and the call sent.             *)
CannotStart(q) ==
  /\ request[q].pc = "start" /\ Spend("faults")
  /\ set_run_status("start_failed", TRUE)
  /\ Answer(q, "error")
  /\ UNCHANGED <<active, log, temporal, watchers>>

SendStart(q) ==
  /\ request[q].pc = "start"
  /\ rpc' = "sent"
  /\ Answer(q, "wait")
  /\ UNCHANGED <<active, stored, starts, emitted, wf, act, watchers, budget>>

(* TemporalStartAmbiguous: the run is left to the reconciler.              *)
Ambiguous(q) ==
  /\ request[q].pc = "wait" /\ Spend("faults")
  /\ Answer(q, "error")
  /\ UNCHANGED <<active, stored, temporal, watchers>>

Accept(q) ==
  /\ request[q].pc = "wait" /\ rpc = "done"
  /\ set_run_status("accepted", FALSE)
  /\ Answer(q, "check")
  /\ UNCHANGED <<active, log, temporal, watchers, budget>>

(* Egress may have won the race with the answer of the start.              *)
Check(q) ==
  /\ request[q].pc = "check"
  /\ IF log # <<>> THEN set_run_status("running", FALSE)
     ELSE UNCHANGED <<row, given_up>>
  /\ Answer(q, "answered")
  /\ UNCHANGED <<active, log, temporal, watchers, budget>>

ServerCrash(q) ==
  /\ request[q].pc \in {"create", "start", "wait", "check"} /\ Spend("faults")
  /\ Answer(q, "error")
  /\ UNCHANGED <<active, stored, temporal, watchers>>

Deploy(r) ==
  /\ r # active /\ Spend("deploys")
  /\ active' = r
  /\ UNCHANGED <<request, stored, temporal, watchers>>

-----------------------------------------------------------------------------
(* Temporal and the workflow.  wf.pc is where run() is: "none", "body",    *)
(* "drain", "final" or "over"; wf.outcome is the status it heads for, then *)
(* the one Temporal reports.                                               *)

WorkflowInit == [pc |-> "none", outcome |-> "running", seg |-> 0,
                 produced |-> 0, cursor |-> 0, clean |-> FALSE]

(* The start call may arrive after its caller gave it up.                  *)
StartLands ==
  /\ rpc = "sent"
  /\ rpc' = "done"
  /\ starts' = starts + 1
  /\ wf' = [wf EXCEPT !.pc = "body"]
  /\ UNCHANGED <<front, stored, emitted, act, watchers, budget>>

StartLost ==
  /\ rpc = "sent" /\ Spend("faults")
  /\ rpc' = "lost"
  /\ UNCHANGED <<front, stored, starts, emitted, wf, act, watchers>>

elsewhere == <<front, stored, rpc, starts, watchers>>
quiet == <<elsewhere, emitted>>

Produce ==
  /\ wf.pc = "body" /\ Spend("events")
  /\ wf' = [wf EXCEPT !.produced = @ + 1]
  /\ emitted' = Append(emitted, Event(wf.seg, wf.produced + 1))
  /\ UNCHANGED <<elsewhere, act>>

(* interpret() returned, raised, or asked to continue.                     *)
BodyEnds(outcome) ==
  /\ wf.pc = "body"
  /\ outcome = "continued" => budget.segments > 0
  /\ wf' = [wf EXCEPT !.pc = "drain", !.outcome = outcome]
  /\ UNCHANGED <<quiet, act, budget>>

(* verifyPures or a check after it fails: nothing is finalized.            *)
BootFails ==
  /\ wf.pc = "body" /\ wf.produced = 0
  /\ wf' = [wf EXCEPT !.pc = "over", !.outcome = "failed"]
  /\ UNCHANGED <<quiet, act, budget>>

(* _flush_projection_batch: one batch at a time.                           *)
Flush ==
  /\ wf.pc \in {"body", "drain"} /\ act = None /\ wf.cursor < wf.produced
  /\ act' = [kind |-> "persist", seg |-> wf.seg, first |-> wf.cursor + 1,
             last |-> Min({wf.produced, wf.cursor + BatchSize})]
  /\ UNCHANGED <<quiet, wf, budget>>

Drained == wf.pc = "drain" /\ act = None /\ wf.cursor = wf.produced

Finalize ==
  /\ Drained /\ wf.outcome # "continued"
  /\ wf' = [wf EXCEPT !.pc = "final"]
  /\ act' = [kind |-> wf.outcome, seg |-> wf.seg, first |-> 1, last |-> 0]
  /\ UNCHANGED <<quiet, budget>>

ContinueAsNew ==
  /\ Drained /\ wf.outcome = "continued" /\ Spend("segments")
  /\ wf' = [WorkflowInit EXCEPT !.pc = "body", !.seg = wf.seg + 1]
  /\ UNCHANGED <<quiet, act>>

(* An attempt of persistProjectionBatch.  Attempts are repeated until one  *)
(* answers, and one may run on after the workflow ended.                   *)
RunPersist ==
  /\ act # None /\ act.kind = "persist"
  /\ insert_events([i \in 1..(act.last - act.first + 1) |->
                      Event(act.seg, act.first + i - 1)])
  /\ \/ UNCHANGED <<wf, act>>
     \/ /\ wf.pc # "over"
        /\ wf' = [wf EXCEPT !.cursor = act.last]
        /\ act' = None
  /\ UNCHANGED <<front, given_up, rpc, starts, emitted, watchers, budget>>

(* An attempt of finalizeProjectionRun: status, result and terminal event  *)
(* in one transaction, whatever the row said before.                       *)
RunFinalize ==
  /\ act # None /\ act.kind # "persist"
  /\ row' = [row EXCEPT !.status = act.kind, !.finished = TRUE]
  /\ log' = log \o New(<<TerminalEvent(act.seg)>>)
  /\ \/ UNCHANGED <<wf, act>>
     \/ /\ wf.pc # "over"
        /\ wf' = [wf EXCEPT !.pc = "over", !.clean = TRUE]
        /\ act' = None
  /\ UNCHANGED <<front, given_up, rpc, starts, emitted, watchers, budget>>

(* The body is told once and finalizes as canceled; a cancellation that    *)
(* meets the boot, the drain or the finalization ends the run there.       *)
Cancel ==
  /\ Spend("cancels") /\ wf.pc \notin {"none", "over"}
  /\ \/ /\ wf.pc = "body"
        /\ wf' = [wf EXCEPT !.pc = "drain", !.outcome = "canceled"]
     \/ /\ wf.pc # "body" \/ wf.produced = 0
        /\ wf' = [wf EXCEPT !.pc = "over", !.outcome = "canceled"]
  /\ UNCHANGED <<quiet, act>>

Terminate ==
  /\ wf.pc \notin {"none", "over"} /\ Spend("cancels")
  /\ wf' = [wf EXCEPT !.pc = "over", !.outcome = "terminated"]
  /\ UNCHANGED <<quiet, act>>

-----------------------------------------------------------------------------
(* reconcile_runs_once.  Between its calls everything else goes on.        *)

RecIdle == [pc |-> "idle", submitting |-> FALSE, verdict |-> "running"]

(* Mutant: only submissions are looked after.                              *)
RecListSubmitting ==
  /\ rec.pc = "idle" /\ row # None /\ row.status = "submitting"
  /\ rec' = [rec EXCEPT !.pc = "describe", !.submitting = TRUE]
  /\ UNCHANGED <<front, stored, temporal, reader, budget>>

RecList ==
  /\ rec.pc = "idle"
  /\ row # None /\ row.status \in {"submitting", "accepted", "running"}
  /\ rec' = [rec EXCEPT !.pc = "describe", !.submitting = row.status = "submitting"]
  /\ UNCHANGED <<front, stored, temporal, reader, budget>>

Described ==
  CASE wf.pc = "none" -> "not_found"
    [] wf.pc = "over" -> wf.outcome
    [] OTHER -> "running"

(* Only a submitting run is judged by anything but its end.                *)
RecDescribe ==
  /\ rec.pc = "describe"
  /\ rec' = IF rec.submitting \/ Described \in TERMINAL_RUN_STATUSES
            THEN [rec EXCEPT !.pc = "apply", !.verdict = Described]
            ELSE RecIdle
  /\ UNCHANGED <<front, stored, temporal, reader, budget>>

RecApply ==
  /\ rec.pc = "apply"
  /\ set_run_status(CASE rec.verdict = "not_found" -> "start_failed"
                      [] rec.verdict = "running" -> "accepted"
                      [] OTHER -> rec.verdict,
                    rec.verdict # "running")
  /\ rec' = IF rec.verdict \in TERMINAL_RUN_STATUSES
            THEN [rec EXCEPT !.pc = "event"] ELSE RecIdle
  /\ UNCHANGED <<front, log, temporal, reader, budget>>

(* The event of a terminal status, if the row has that status by now.      *)
RecEvent ==
  /\ rec.pc = "event"
  /\ IF row.status = rec.verdict THEN insert_events(<<ReconciledEvent>>)
     ELSE UNCHANGED <<row, log>>
  /\ rec' = RecIdle
  /\ UNCHANGED <<front, given_up, temporal, reader, budget>>

RecCrash ==
  /\ rec.pc # "idle" /\ Spend("faults")
  /\ rec' = RecIdle
  /\ UNCHANGED <<front, stored, temporal, reader>>

-----------------------------------------------------------------------------
(* iter_run_events, and a client that reconnects with Last-Event-ID.       *)

Connect ==
  /\ reader.pc = "off" /\ row # None /\ Spend("connects")
  /\ reader' = [reader EXCEPT !.pc = "read",
       !.terminal_seen = \E i \in 1..reader.cursor : log[i].terminal]
  /\ UNCHANGED <<front, stored, temporal, rec>>

(* Mutant: the cursor is a position past the rows that were read.          *)
ReadRowsBeyond ==
  /\ reader.pc = "read"
  /\ reader' = [reader EXCEPT !.pc = "status",
       !.empty = Len(log) = reader.cursor,
       !.cursor = Len(log),
       !.got = @ \o SubSeq(log, reader.cursor + 1, Len(log) - 1),
       !.terminal_seen = @ \/ \E i \in (reader.cursor + 1)..Len(log) :
                                log[i].terminal]
  /\ UNCHANGED <<front, stored, temporal, rec, budget>>

ReadRows ==
  /\ reader.pc = "read"
  /\ reader' = [reader EXCEPT !.pc = "status",
       !.empty = Len(log) = reader.cursor,
       !.cursor = Len(log),
       !.got = @ \o SubSeq(log, reader.cursor + 1, Len(log)),
       !.terminal_seen = @ \/ \E i \in (reader.cursor + 1)..Len(log) :
                                log[i].terminal]
  /\ UNCHANGED <<front, stored, temporal, rec, budget>>

terminal_projection_is_persisted ==
  \/ row.status = "start_failed"
  \/ row.status \in TERMINAL_RUN_STATUSES /\ reader.terminal_seen

(* get_run comes after the rows: only a read that found none may end it.   *)
CheckStatus ==
  /\ reader.pc = "status"
  /\ reader' = [reader EXCEPT
       !.pc = IF reader.empty /\ terminal_projection_is_persisted
              THEN "ended" ELSE "read"]
  /\ UNCHANGED <<front, stored, temporal, rec, budget>>

Disconnect ==
  /\ reader.pc \in {"read", "status"}
  /\ reader' = [reader EXCEPT !.pc = "off"]
  /\ UNCHANGED <<front, stored, temporal, rec, budget>>

-----------------------------------------------------------------------------
Init ==
  /\ active = (CHOOSE r \in Releases : TRUE)  \* any: they are alike
  /\ budget \in Budgets
  /\ request = [q \in Requests |->
                  [pc |-> "idle", asks |-> None, release |-> None]]
  /\ row = None /\ log = <<>> /\ given_up = FALSE
  /\ rpc = "none" /\ starts = 0 /\ emitted = <<>> /\ wf = WorkflowInit /\ act = None
  /\ rec = RecIdle
  /\ reader = [pc |-> "off", cursor |-> 0, terminal_seen |-> FALSE,
               empty |-> FALSE, got |-> <<>>]

Request(q) ==
  \/ Submit(q) \/ Create(q) \/ CannotStart(q) \/ SendStart(q)
  \/ Ambiguous(q) \/ Accept(q) \/ Check(q) \/ ServerCrash(q)

Workflow ==
  \/ Produce \/ \E o \in {"completed", "failed", "continued"} : BodyEnds(o)
  \/ BootFails \/ Flush \/ Finalize \/ ContinueAsNew
  \/ RunPersist \/ RunFinalize
  \/ Cancel \/ Terminate

Reconcile == RecList \/ RecDescribe \/ RecApply \/ RecEvent

Stream == ReadRows \/ CheckStatus

Next ==
  \/ \E q \in Requests : Request(q)
  \/ \E r \in Releases : Deploy(r)
  \/ StartLands \/ StartLost \/ Workflow
  \/ Reconcile \/ RecCrash
  \/ Connect \/ Stream \/ Disconnect

Spec == Init /\ [][Next]_vars

(* A server runs the reconciler at every interval and serves a connected   *)
(* reader.  Nothing is assumed of requests, of Temporal, or of reconnects. *)
FairSpec == Spec /\ WF_vars(Reconcile) /\ WF_vars(Stream)

-----------------------------------------------------------------------------
TypeOK ==
  /\ active \in Releases
  /\ row \in Rows \union {None}
  /\ act # None => act.last - act.first < BatchSize
  /\ wf.cursor <= wf.produced

(* However many requests carry the key, and whichever server dies at which *)
(* step, one workflow starts at most; it has a row, of one of the releases *)
(* that were asked for; and no request that lost the race goes on.         *)
StartsOnce ==
  /\ TypeOK
  /\ starts <= 1
  /\ starts = 1 => row # None
  /\ Cardinality({q \in Requests : request[q].pc \in
                    {"start", "wait", "check"}}) <= 1

Finalized == \E e \in Range(log) : e.terminal /\ e # ReconciledEvent

(* What the workflow itself stored about its end is never changed again,   *)
(* by no late answer, retry or verdict of the reconciler.                  *)
FinalSticks ==
  [][Finalized => row'.status = row.status /\ IsPrefix(log, log')]_vars

(* A stream that ended has told all: every event of the workflow once, in  *)
(* the order it happened, over lost connections and segments, up to the    *)
(* terminal one - if the workflow got to finalize, and its submission was  *)
(* not given up.  The reconciler has nothing to add but behind that.       *)
StreamComplete ==
  reader.pc = "ended" /\ wf.clean /\ ~given_up =>
    LET all == Append(emitted, TerminalEvent(wf.seg))
    IN  reader.got \in {all, Append(all, ReconciledEvent)}

(* A run settles and its readers are told: a submission ends, the end of a *)
(* workflow reaches its row, also if the server that knew died, and a      *)
(* connected reader comes to the end of a run whose terminal event is      *)
(* stored.                                                                 *)
RunsSettle ==
  /\ (row # None /\ row.status = "submitting")
       ~> row # None /\ row.status # "submitting"
  /\ wf.pc = "over"
       ~> row # None /\ row.status \in TERMINAL_RUN_STATUSES \union {"start_failed"}
  /\ (reader.pc \in {"read", "status"} /\ \E e \in Range(log) : e.terminal)
       ~> reader.pc \in {"ended", "off"}
=============================================================================
