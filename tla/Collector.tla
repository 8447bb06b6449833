------------------------------ MODULE Collector ------------------------------
(***************************************************************************)
(* The two workflows that gather single submissions into batches:          *)
(* DebounceCollector, which runs a flow over each batch, and               *)
(* BatchCollector, which hands each batch of reasoner calls to a detached  *)
(* BatchPoll.  They share their window and their carriage over             *)
(* continue-as-new.  A time is kept as its age, up to MaxAge; one that is  *)
(* older is due for every window.                                          *)
(***************************************************************************)
EXTENDS Naturals, SequencesExt, FiniteSetsExt

CONSTANTS
  Windows,             \* [quiet, items, wait]: windows, NoBound where unset
  NoBound, Never,      \* no bound; a time that is not set
  MaxSignals,          \* bound: submissions, repeated ones included
  MaxAge               \* bound: what ages are told apart

(* BatchWindow.__post_init__ (dispatch.py:118).                            *)
ASSUME CollectorAssumption ==
  /\ NoBound \notin Nat /\ Never \notin Nat
  /\ MaxSignals \in Nat /\ MaxAge \in Nat
  /\ Windows \subseteq [quiet : 0..MaxAge, items : (Nat \ {0}) \union {NoBound},
                        wait : (0..MaxAge) \union {NoBound}]

VARIABLES
  kind, window,        \* the workflow, and its configuration
  segment,             \* its memory: pc, items, first_at, last_at, opened, seen
  carried,             \* its input: pending, first_at, last_at
  polls,               \* the BatchPoll children
  submitted, repeats,  \* history: items 1..submitted were, this many again
  accepted, out,       \* history: items the handler took; items that left
  ages, since,         \* history: the ages of the items taken, and of the batch
  slipped              \* history: a surplus took a clock younger than itself

held == <<ages, since, slipped>>
settings == <<kind, window>>
asked == <<submitted, repeats, accepted>>
collectorVars == <<settings, segment, carried, polls, asked, out, held>>

Older(t) == IF t \in {Never, MaxAge} THEN t ELSE t + 1
Else(t, otherwise) == IF t = Never THEN otherwise ELSE t

Fresh == [pc |-> "boot", items |-> <<>>, first_at |-> Never, last_at |-> Never,
          opened |-> Never, seen |-> {}]
NoPending == [pending |-> <<>>, first_at |-> Never, last_at |-> Never]

(* What the collector holds, carried or in memory.                         *)
Held == IF segment.pc = "boot" THEN carried.pending \o segment.items
        ELSE segment.items

-----------------------------------------------------------------------------
(* The submit signal, which starts the workflow if none is open.  It may   *)
(* be handled before run() takes what was carried.                         *)
Signalled(s, i) ==
  [s EXCEPT !.first_at = IF s.items = <<>> THEN 0 ELSE @,
            !.items = Append(@, i), !.last_at = 0,
            !.seen = IF kind = "batch" THEN @ \union {i} ELSE @]

Signal(i) ==
  LET open == IF segment.pc = "closed" THEN Fresh ELSE segment IN
  IF i \in open.seen
  THEN UNCHANGED <<segment, carried, accepted, held>>
  ELSE /\ segment' = Signalled(open, i)
       /\ carried' = IF segment.pc = "closed" THEN NoPending ELSE carried
       /\ accepted' = Append(accepted, i)
       /\ since' = IF Held = <<>> THEN 0 ELSE since
       /\ slipped' = (slipped /\ Held # <<>>)
       /\ ages' = Append(ages, 0)

SubmitItem ==
  /\ submitted + repeats < MaxSignals
  /\ submitted' = submitted + 1
  /\ Signal(submitted + 1)
  /\ UNCHANGED <<settings, polls, repeats, out>>

(* An attempt of submitReasonerBatch that is retried, or that runs late.   *)
RepeatSubmit ==
  /\ kind = "batch" /\ submitted + repeats < MaxSignals
  /\ repeats' = repeats + 1
  /\ \E i \in 1..submitted : Signal(i)
  /\ UNCHANGED <<settings, polls, submitted, out>>

-----------------------------------------------------------------------------
(* Mutant: what was carried goes behind what came while booting.           *)
TakeCarriedLast ==
  LET items == segment.items \o carried.pending
      opened == Else(carried.first_at, Else(segment.first_at, 0))
  IN /\ segment.pc = "boot"
     /\ segment' = [segment EXCEPT !.pc = "collect", !.items = items,
          !.opened = opened, !.seen = @ \union Range(carried.pending),
          !.last_at = IF items = <<>> THEN @
                      ELSE Else(@, Else(carried.last_at, opened))]
     /\ UNCHANGED <<settings, carried, polls, asked, out, held>>

(* run() up to its loop.                                                   *)
TakeCarried ==
  LET items == carried.pending \o segment.items
      opened == Else(carried.first_at, Else(segment.first_at, 0))
  IN /\ segment.pc = "boot"
     /\ segment' = [segment EXCEPT !.pc = "collect", !.items = items,
          !.opened = opened,
          !.seen = IF kind = "batch" THEN @ \union Range(carried.pending) ELSE @,
          !.last_at = IF items = <<>> THEN @
                      ELSE Else(@, Else(carried.last_at, opened))]
     /\ UNCHANGED <<settings, carried, polls, asked, out, held>>

(* BatchWindow.evaluate: a trigger is due.                                 *)
evaluate ==
  /\ segment.items # <<>>
  /\ \/ window.items # NoBound /\ Len(segment.items) >= window.items
     \/ segment.last_at >= window.quiet
     \/ window.wait # NoBound /\ segment.opened >= window.wait

(* A surplus keeps the clock of the segment's own first item, although     *)
(* carried ones are before it if it came while the segment booted.         *)
FireBatch ==
  LET cap == IF window.items = NoBound \/ window.items > Len(segment.items)
             THEN Len(segment.items) ELSE window.items
      batch == SubSeq(segment.items, 1, cap)
      rest == SubSeq(segment.items, cap + 1, Len(segment.items))
  IN /\ segment.pc = "collect" /\ evaluate
     /\ segment' = [segment EXCEPT !.pc = "fired", !.items = rest,
          !.first_at = IF rest = <<>> THEN Never ELSE @,
          !.last_at = IF rest = <<>> THEN Never ELSE @]
     /\ out' = out \o batch
     /\ polls' = IF kind = "batch"
                 THEN Append(polls, [calls |-> batch, pc |-> "submit", tell |-> <<>>])
                 ELSE polls
     /\ slipped' = ((slipped \/ segment.first_at # Never)
                     /\ cap < Len(carried.pending))
     /\ UNCHANGED <<settings, carried, asked, ages, since>>

(* Mutant: the clocks stay behind.                                         *)
CarriedWithoutClock ==
  [pending |-> segment.items, first_at |-> Never, last_at |-> Never]

CarriedOver ==
  [pending |-> segment.items,
   first_at |-> IF segment.items = <<>> THEN Never
                ELSE Else(segment.first_at, segment.opened),
   last_at |-> segment.last_at]

(* The batch's flow returned, or the poller was started.                   *)
BatchHandedOver ==
  /\ segment.pc = "fired"
  /\ IF kind = "debounce" /\ segment.items = <<>>
     THEN segment' = [Fresh EXCEPT !.pc = "closed"] /\ UNCHANGED carried
     ELSE segment' = Fresh /\ carried' = CarriedOver
  /\ UNCHANGED <<settings, polls, asked, out, held>>

(* A flow that failed fails its collector, with what came in meanwhile.    *)
BatchFlowFails ==
  /\ segment.pc = "fired" /\ kind = "debounce"
  /\ segment' = [Fresh EXCEPT !.pc = "closed"]
  /\ out' = out \o segment.items
  /\ UNCHANGED <<settings, carried, polls, asked, held>>

-----------------------------------------------------------------------------
(* BatchPoll.  tell are the calls whose workflow is still to be signalled. *)
PollTo(p, next) ==
  /\ polls' = [polls EXCEPT ![p] = next]
  /\ UNCHANGED <<settings, segment, carried, asked, out, held>>

SubmitBatch(p) ==
  /\ polls[p].pc = "submit"
  /\ PollTo(p, [polls[p] EXCEPT !.pc = "poll"])

(* A failed batch tells every caller, a completed one is fetched.          *)
PollBatch(p) ==
  /\ polls[p].pc = "poll"
  /\ \/ PollTo(p, [polls[p] EXCEPT !.pc = "fetch"])
     \/ PollTo(p, [polls[p] EXCEPT !.pc = "route",
                     !.tell = polls[p].calls])

(* The provider may leave calls out.                                       *)
FetchBatchResults(p) ==
  /\ polls[p].pc = "fetch"
  /\ \E given \in SUBSET Range(polls[p].calls) :
       PollTo(p, [polls[p] EXCEPT !.pc = "route",
         !.tell = SelectSeq(polls[p].calls, LAMBDA i : i \in given)])

(* A signal that its receiver is no longer there for is let go.            *)
RouteResult(p) ==
  /\ polls[p].pc = "route"
  /\ PollTo(p, IF polls[p].tell = <<>> THEN [polls[p] EXCEPT !.pc = "end"]
               ELSE [polls[p] EXCEPT !.tell = Tail(@)])

-----------------------------------------------------------------------------
TimePasses ==
  /\ segment' = [segment EXCEPT !.first_at = Older(@), !.last_at = Older(@),
                                !.opened = Older(@)]
  /\ carried' = [carried EXCEPT !.first_at = Older(@), !.last_at = Older(@)]
  /\ ages' = [i \in DOMAIN ages |-> Older(ages[i])] /\ since' = Older(since)
  /\ UNCHANGED <<settings, polls, asked, out, slipped>>

CollectorInit ==
  /\ kind \in {"debounce", "batch"} /\ window \in Windows
  /\ segment = [Fresh EXCEPT !.pc = "closed"] /\ carried = NoPending
  /\ polls = <<>> /\ submitted = 0 /\ repeats = 0
  /\ accepted = <<>> /\ out = <<>> /\ ages = <<>> /\ since = Never
  /\ slipped = FALSE

CollectorSteps == TakeCarried \/ FireBatch \/ BatchHandedOver \/ BatchFlowFails

PollSteps(p) ==
  SubmitBatch(p) \/ PollBatch(p) \/ FetchBatchResults(p) \/ RouteResult(p)

CollectorNext ==
  \/ SubmitItem \/ RepeatSubmit \/ CollectorSteps
  \/ \E p \in DOMAIN polls : PollSteps(p)
  \/ TimePasses

CollectorSpec == CollectorInit /\ [][CollectorNext]_collectorVars

-----------------------------------------------------------------------------
(* A batch is neither empty nor above its cap, and leaves for a reason:    *)
(* full, quiet since its last arrival, or open for the maximal wait.  (A   *)
(* BatchCollector whose segment was idle counts the wait from the start of *)
(* that segment instead, reasoner_batch.py:231, and is not held to it.)    *)
NeverEarly ==
  segment.pc = "collect" /\ segment'.pc = "fired" =>
    /\ out' # out
    /\ window.items # NoBound => Len(out') - Len(out) <= window.items
    /\ \/ window.items # NoBound /\ Len(Held) >= window.items
       \/ Last(ages) >= window.quiet
       \/ window.wait # NoBound /\ (kind = "batch" \/ since >= window.wait)

(* And once there is a reason a collector that collects sees it, also for  *)
(* items that another segment took: they keep their clocks (the comment in *)
(* debounce.py:112), but for a surplus whose clock slipped (FireBatch).    *)
NeverLate ==
  segment.pc = "collect" /\ Held # <<>> =>
    \/ evaluate
    \/ /\ window.items = NoBound \/ Len(Held) < window.items
       /\ Last(ages) < window.quiet
       /\ window.wait = NoBound \/ slipped \/ ages[Len(out) + 1] < window.wait

WindowKept == [][NeverEarly /\ NeverLate']_collectorVars

(* No submission is lost, repeated or overtaken between the signal and a   *)
(* batch: what left the collector and what it still holds are what it      *)
(* took, in order, over capped batches, continue-as-new and restarts; and  *)
(* a call it did not take, as a repetition, is among them.                 *)
ItemsKept ==
  /\ out \o Held = accepted
  /\ 1..submitted \subseteq Range(accepted)

(* And once no more is submitted nothing stays behind: every submission    *)
(* left in a batch, or with the collector that failed, and every batch of  *)
(* calls came to the end where its callers have been told.                 *)
SubmissionsSettle ==
  /\ [][ItemsKept']_collectorVars
  /\ <>[](Held = <<>> /\ \A p \in DOMAIN polls : polls[p].pc = "end")
=============================================================================
