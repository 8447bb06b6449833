----------------------------- MODULE CmaSession ----------------------------
(***************************************************************************)
(* A session on Claude Managed Agents (cma_session.py): a driver opens one *)
(* hosted session for each message and serves the tools that the vendor's  *)
(* loop asks for, within the budget of the turn.  The vendor pauses a      *)
(* session until every tool use it asked for is answered.                  *)
(***************************************************************************)
EXTENDS Integers, Sequences, FiniteSets, SequencesExt

CONSTANTS
  MaxRounds, CallLimit, TurnBudget,  \* AgentConfig, and maxCalls of the tool
  ThinkCost, ToolCost,
  MaxInputs                          \* bound: messages

(* A cost is not negative.                                                 *)
ASSUME CmaAssumption ==
  {MaxRounds, CallLimit, TurnBudget, ThinkCost, ToolCost} \subseteq Nat

VARIABLES
  dev,          \* the mode is DEV
  handle,       \* closing, closed, sent: messages; inbound: the queue
  serving,      \* the driver: pc, rounds, spent, counts of the turn
  vendor,       \* the hosted session: pc, events not yet read, open tool uses
  told,         \* history: the events put
  skipped       \* history: a tool use was left without an answer

cmaVars == <<dev, handle, serving, vendor, told, skipped>>

NewTurn == [rounds |-> 0, spent |-> 0, counts |-> 0]
NoSession == [pc |-> "none", events |-> <<>>, open |-> 0]

CmaInit ==
  /\ dev \in BOOLEAN
  /\ handle = [closing |-> FALSE, closed |-> FALSE, sent |-> 0, inbound |-> <<>>]
  /\ serving = [pc |-> "get", turn |-> NewTurn]
  /\ vendor = NoSession
  /\ told = <<>> /\ skipped = FALSE

------------------------------------------------------------------------------
(* The client                                                              *)

SendInput ==
  /\ ~handle.closed /\ ~handle.closing /\ handle.sent < MaxInputs
  /\ handle' = [handle EXCEPT !.sent = @ + 1, !.inbound = Append(@, "input")]
  /\ UNCHANGED <<dev, serving, vendor, told, skipped>>

(* What every way out of the driver does.                                  *)
DriverEnds(events) ==
  /\ serving' = [serving EXCEPT !.pc = "over"]
  /\ handle' = [handle EXCEPT !.closing = TRUE, !.closed = TRUE]
  /\ told' = told \o events \o IF "closed" \in ToSet(told) THEN <<>> ELSE <<"closed">>

(* close() cancels the driver at its await, whose finally clauses cancel   *)
(* the hosted session and tell the reader.                                 *)
CloseHandle ==
  /\ ~handle.closed
  /\ DriverEnds(<<>>)
  /\ vendor' = NoSession
  /\ UNCHANGED <<dev, skipped>>

------------------------------------------------------------------------------
(* The driver                                                              *)

(* The hosted session is created in a step of its own, which may fail.     *)
TakeInput ==
  /\ serving.pc = "get" /\ handle.inbound # <<>>
  /\ handle' = [handle EXCEPT !.inbound = Tail(@)]
  /\ serving' = [pc |-> "create", turn |-> NewTurn]
  /\ told' = Append(told, "started")
  /\ UNCHANGED <<dev, vendor, skipped>>

CreateSession ==
  /\ serving.pc = "create"
  /\ \/ /\ serving' = [serving EXCEPT !.pc = "events"]
        /\ vendor' = [pc |-> "runs", events |-> <<>>, open |-> 0]
        /\ UNCHANGED <<dev, handle, told, skipped>>
     \/ DriverEnds(<<"error">>) /\ UNCHANGED <<dev, vendor, skipped>>

Reads(kind) == serving.pc = "events" /\ vendor.events # <<>> /\ Head(vendor.events) = kind
Rest == [vendor EXCEPT !.events = Tail(@)]
Answered == [Rest EXCEPT !.open = @ - 1]
Turn == serving.turn

(* The turn ends, and with it the session: cancel() of the hosted session. *)
Breaks == DriverEnds(<<"error">>) /\ vendor' = NoSession /\ UNCHANGED <<dev, skipped>>

(* The limits that end a turn before an action of the vendor counts.       *)
Exhausted == Turn.rounds >= MaxRounds \/ Turn.spent + ThinkCost > TurnBudget
OverBudget == Turn.spent + ThinkCost + ToolCost > TurnBudget

Denied(use) == use = "ungranted" \/ Turn.counts >= CallLimit

PolicyEnds ==
  /\ \E use \in {"granted", "ungranted"} :
       Reads(use) /\ (Exhausted \/ OverBudget \/ (Denied(use) /\ ~dev))
  /\ Breaks

(* In DEV mode a denied tool use is noted as a gap and gets no answer.     *)
SkipTool ==
  /\ \E use \in {"granted", "ungranted"} : Reads(use) /\ Denied(use)
  /\ dev /\ ~Exhausted /\ ~OverBudget
  /\ serving' = [serving EXCEPT !.turn.spent = @ + ThinkCost]
  /\ vendor' = Rest
  /\ skipped' = TRUE
  /\ UNCHANGED <<dev, handle, told>>

StartTool ==
  /\ Reads("granted") /\ ~Denied("granted") /\ ~Exhausted /\ ~OverBudget
  /\ serving' = [pc |-> "tool",
       turn |-> [Turn EXCEPT !.spent = @ + ThinkCost, !.counts = @ + 1]]
  /\ UNCHANGED <<dev, handle, vendor, told, skipped>>

(* Mutant: a tool that raised is passed over.                              *)
ToolRaisesSilently ==
  /\ serving.pc = "tool"
  /\ serving' = [serving EXCEPT !.pc = "events"]
  /\ vendor' = Rest
  /\ UNCHANGED <<dev, handle, told, skipped>>

(* A tool that raised is answered with an error, and costs no round.       *)
ToolRaises ==
  /\ serving.pc = "tool"
  /\ serving' = [serving EXCEPT !.pc = "events"]
  /\ vendor' = Answered
  /\ UNCHANGED <<dev, handle, told, skipped>>

ToolReturns ==
  /\ serving.pc = "tool"
  /\ serving' = [pc |-> "events",
       turn |-> [Turn EXCEPT !.spent = @ + ToolCost, !.rounds = @ + 1]]
  /\ vendor' = Answered
  /\ UNCHANGED <<dev, handle, told, skipped>>

(* The answer cannot be delivered.                                         *)
AnswerFails == serving.pc = "tool" /\ Breaks

TurnEnds ==
  /\ Reads("terminal")
  /\ \/ Exhausted /\ Breaks
     \/ /\ ~Exhausted
        /\ serving' = [pc |-> "get", turn |-> NewTurn]
        /\ vendor' = NoSession
        /\ told' = told \o <<"emit", "done">>
        /\ UNCHANGED <<dev, handle, skipped>>

(* An error, or the end of the stream without a terminal event.            *)
TurnBreaks == Reads("error") /\ Breaks

Serves ==
  \/ TakeInput \/ CreateSession \/ PolicyEnds \/ SkipTool \/ StartTool
  \/ ToolReturns \/ ToolRaises \/ AnswerFails \/ TurnEnds \/ TurnBreaks

------------------------------------------------------------------------------
(* The vendor: it asks for tools, and runs on once all have been answered. *)
VendorRuns ==
  /\ vendor.pc = "runs" /\ vendor.events = <<>> /\ vendor.open = 0
  /\ \/ \E uses \in {<<"granted">>, <<"ungranted">>, <<"granted", "granted">>} :
          vendor' = [vendor EXCEPT !.events = uses, !.open = Len(uses)]
     \/ \E end \in {"terminal", "error"} :
          vendor' = [vendor EXCEPT !.events = <<end>>, !.pc = "ended"]
  /\ UNCHANGED <<dev, handle, serving, told, skipped>>

CmaNext == SendInput \/ CloseHandle \/ Serves \/ VendorRuns

CmaSpec == CmaInit /\ [][CmaNext]_cmaVars

------------------------------------------------------------------------------
Done == Cardinality({i \in DOMAIN told : told[i] = "done"})

(* A turn stays within each of its limits, also in the tool that it runs;  *)
(* the vendor waits for as many answers as there are tool uses left to     *)
(* read, unless one was skipped; and nothing follows the end of a session. *)
TurnsKeptInBounds ==
  /\ Turn.spent <= TurnBudget /\ Turn.rounds <= MaxRounds /\ Turn.counts <= CallLimit
  /\ skipped \/ vendor.open = IF vendor.pc = "runs" THEN Len(vendor.events) ELSE 0
  /\ "closed" \notin ToSet(Front(told))

(* A message that was accepted is answered by a turn, or the reader is     *)
(* told that the session closed.  Left out are sessions with a tool use    *)
(* that was skipped: the vendor waits for its answer, and the turn never   *)
(* ends.                                                                   *)
CmaTurnsEnd ==
  /\ \A n \in 1..MaxInputs :
       handle.sent >= n ~> Done >= n \/ "closed" \in ToSet(told) \/ skipped
  /\ [][TurnsKeptInBounds']_cmaVars
=============================================================================
