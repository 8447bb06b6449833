----------------------------- MODULE LocalSession -----------------------------
(***************************************************************************)
(* LocalSessionHandle and _LiveLocalEnv: a session that lives in one event *)
(* loop.  A driver task takes messages from the queue and runs a turn on   *)
(* each; clients send, close and read the events.  Its queues are          *)
(* unbounded, so a put never yields and what runs between two awaits is    *)
(* one step.  A message is named by its number.                            *)
(***************************************************************************)
EXTENDS Naturals, SequencesExt, FiniteSetsExt

CONSTANTS
  Keys, None,              \* idempotency keys; no key
  Capacity,                \* channel_capacity
  MaxErrors,               \* max_consecutive_turn_errors
  MaxTurns,                \* max_turns
  MaxSends,                \* bound: messages
  MaxCloses,               \* bound: calls of close()
  MaxEmits                 \* bound: emits of the body

VARIABLES
  queue,                   \* of the channel: messages, and WAKE
  live,                    \* sent, out, keys: _live_seq and _idem; closed:
                           \* _live_closed; opened: there is a queue
  driver,                  \* pc, the turns so far, the errors in a row
  events,                  \* put and not yet taken
  emitted,                 \* _live_emitted: emits not yet evicted
  reader,                  \* events(): the event it yielded last
  ended,                   \* how the driver ended: "no", "close", "error", "cancel"
  closes,                  \* calls of close() that wait, and that returned
  handed, put              \* history: messages handed over; events ever put

localVars == <<queue, live, driver, events, emitted, reader, ended, closes, handed, put>>

WAKE == 0
E(kind, n) == [kind |-> kind, n |-> n]
Nothing == E("none", 0)

(* Events go into the queue together.                                      *)
Put(es) == events' = events \o es /\ put' = put \o es

-----------------------------------------------------------------------------
(* send() of a key that is not yet known.  A wake-up counts as pending.    *)
Send(key) ==
  /\ live.sent < MaxSends
  /\ ended = "no" /\ key \notin live.keys /\ Len(queue) < Capacity
  /\ queue' = Append(queue, live.sent + 1)
  /\ live' = [live EXCEPT !.sent = @ + 1, !.opened = TRUE,
                          !.keys = @ \union ({key} \ {None})]
  /\ UNCHANGED <<driver, events, emitted, reader, ended, closes, handed, put>>

(* close() puts a wake-up into the queue, if there is one, and waits.      *)
Close ==
  /\ closes.waiting + closes.returned < MaxCloses
  /\ live' = [live EXCEPT !.closed = TRUE]
  /\ queue' = IF live.opened THEN Append(queue, WAKE) ELSE queue
  /\ closes' = [closes EXCEPT !.waiting = @ + 1]
  /\ UNCHANGED <<driver, events, emitted, reader, ended, handed, put>>

CloseReturns ==
  /\ closes.waiting > 0 /\ ended # "no"
  /\ closes' = [waiting |-> closes.waiting - 1, returned |-> closes.returned + 1]
  /\ UNCHANGED <<queue, live, driver, events, emitted, reader, ended, handed, put>>

-----------------------------------------------------------------------------
(* The driver's last step: it tells the reason, then that it closed.       *)
End(how, before) ==
  /\ ended' = how
  /\ driver' = [driver EXCEPT !.pc = "done"]
  /\ live' = [live EXCEPT !.closed = TRUE]
  /\ Put(before \o (IF how = "error" THEN <<E("fatal", 0)>> ELSE <<>>)
                \o <<E("closed", 0)>>)

(* Mutant: what is queued behind a wake-up is not looked at.               *)
LeftBehind(rest) == live.closed

(* recv() finds the session closed and nothing left.                       *)
NothingLeft(rest) == live.closed /\ rest = <<>>

(* recv(): a message starts a turn; a wake-up, or an empty queue, is the   *)
(* end of a session that is closed.                                        *)
Recv ==
  /\ driver.pc = "recv"
  /\ \/ /\ NothingLeft(queue)
        /\ End("close", <<>>) /\ UNCHANGED <<queue, handed>>
     \/ /\ queue = <<>> /\ ~live.opened /\ ~live.closed
        /\ live' = [live EXCEPT !.opened = TRUE]
        /\ UNCHANGED <<queue, driver, events, ended, handed, put>>
     \/ /\ queue # <<>> /\ queue' = Tail(queue)
        /\ IF Head(queue) = WAKE
           THEN /\ UNCHANGED handed
                /\ IF NothingLeft(Tail(queue))
                   THEN End("close", <<>>)
                   ELSE UNCHANGED <<live, driver, events, ended, put>>
           ELSE /\ handed' = Append(handed, Head(queue))
                /\ driver' = [driver EXCEPT !.pc = "turn"]
                /\ Put(<<E("started", 0)>>) /\ UNCHANGED <<live, ended>>
  /\ UNCHANGED <<emitted, reader, closes>>

BodyEmits ==
  /\ driver.pc = "turn" /\ live.out < MaxEmits
  /\ live' = [live EXCEPT !.out = @ + 1]
  /\ emitted' = emitted \union {live.out + 1}
  /\ Put(<<E("emit", live.out + 1)>>)
  /\ UNCHANGED <<queue, driver, reader, ended, closes, handed>>

(* A turn is over; behind the last one that max_turns allows is an error.  *)
TurnOver(errors, es) ==
  IF driver.turns + 1 = MaxTurns
  THEN End("error", es)
  ELSE /\ driver' = [pc |-> "recv", turns |-> driver.turns + 1, errors |-> errors]
       /\ Put(es) /\ UNCHANGED <<live, ended>>

TurnSucceeds ==
  /\ driver.pc = "turn"
  /\ TurnOver(0, <<E("done", 0)>>)
  /\ UNCHANGED <<queue, emitted, reader, closes, handed>>

(* The errors in a row are up to MaxErrors - 1; one may be fatal at once.  *)
TurnFails ==
  /\ driver.pc = "turn"
  /\ \/ End("error", <<>>)
     \/ /\ driver.errors + 1 < MaxErrors
        /\ TurnOver(driver.errors + 1, <<E("error", 0), E("done", 0)>>)
  /\ UNCHANGED <<queue, emitted, reader, closes, handed>>

(* A step of the body before its recv() fails, with no turn begun: a round *)
(* of the driver that tells an error alone.                                *)
FailsEarly ==
  /\ driver.pc = "recv"
  /\ \/ End("error", <<>>)
     \/ /\ driver.errors + 1 < MaxErrors
        /\ TurnOver(driver.errors + 1, <<E("error", 0)>>)
  /\ UNCHANGED <<queue, emitted, reader, closes, handed>>

(* A caller of close() that is canceled takes the driver with it.          *)
CloseCanceled ==
  /\ closes.waiting > 0 /\ ended = "no"
  /\ End("cancel", <<>>)
  /\ UNCHANGED <<queue, emitted, reader, closes, handed>>

-----------------------------------------------------------------------------
(* The reader asks for the next event: the emit it was given is evicted.   *)
NextEvent ==
  /\ reader.kind # "closed"
  /\ events # <<>> /\ events' = Tail(events)
  /\ reader' = Head(events)
  /\ emitted' = emitted \ (IF reader.kind = "emit" THEN {reader.n} ELSE {})
  /\ UNCHANGED <<queue, live, driver, ended, closes, handed, put>>

LocalInit ==
  /\ queue = <<>> /\ events = <<>> /\ emitted = {} /\ reader = Nothing
  /\ live = [sent |-> 0, out |-> 0, closed |-> FALSE, opened |-> FALSE,
             keys |-> {}]
  /\ driver = [pc |-> "recv", turns |-> 0, errors |-> 0]
  /\ ended = "no" /\ closes = [waiting |-> 0, returned |-> 0]
  /\ handed = <<>> /\ put = <<>>

Drives == Recv \/ TurnSucceeds \/ TurnFails

LocalNext ==
  \/ \E key \in Keys \union {None} : Send(key)
  \/ Close \/ CloseReturns \/ CloseCanceled
  \/ Drives \/ FailsEarly \/ BodyEmits \/ NextEvent

LocalSpec == LocalInit /\ [][LocalNext]_localVars

-----------------------------------------------------------------------------
(* What was handed over is what was accepted, in order, and closed by its  *)
(* client a session has worked off all of it, sends that raced the close   *)
(* included.                                                               *)
HandedInOrder ==
  /\ handed = [i \in 1..Len(handed) |-> i]
  /\ ended = "close" => Len(handed) = live.sent

(* The last event is Closed, the fatal error right before it if there was  *)
(* one, and no turn is left open but by an error or a cancelation.         *)
EndIsLast ==
  LET n == Len(put)
      Open(i) == put[i].kind = "started"
                 /\ \A j \in i + 1 .. n : put[j].kind # "done"
  IN \A i \in 1..n :
       /\ put[i].kind = "closed" <=> i = n /\ ended # "no"
       /\ put[i].kind = "fatal" <=> i = n - 1 /\ ended = "error"
       /\ Open(i) => driver.pc = "turn" \/ ended \in {"error", "cancel"}

(* An emit is kept until its reader asks for what comes next.              *)
EmitsKept ==
  emitted = {e.n : e \in {e \in Range(events) \union {reader} : e.kind = "emit"}}

(* A session ends as it says.                                              *)
EndTold == HandedInOrder /\ EndIsLast /\ EmitsKept

(* And it does end: a close returns once the turn it met is over, with the *)
(* driver ended, and a reader that reads on comes to Closed.               *)
LocalSessionEnds ==
  /\ [][EndTold']_localVars
  /\ closes.waiting > 0 ~> closes.waiting = 0 /\ ended # "no"
  /\ ended # "no" ~> reader.kind = "closed"
=============================================================================
