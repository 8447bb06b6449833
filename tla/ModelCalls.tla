------------------------------ MODULE ModelCalls ------------------------------
(***************************************************************************)
(* make_resilient_llm_caller: concurrent calls of one worker, each walking *)
(* its chain of models, and the circuit breaker of their providers.  What  *)
(* runs between two awaits is one step.  What complete_reasoner does       *)
(* inside an attempt is the module ReasonerCall.                           *)
(***************************************************************************)
EXTENDS Naturals, SequencesExt, FiniteSetsExt

CONSTANTS
  Callers, Models,
  Watched,             \* the caller whose attempts are told: they are all alike
  Chain,               \* the model asked for, then its fallbacks
  ProviderOf,          \* of each model
  Attempts,            \* attempts_for: of "transient" and of "timeout"
  Threshold, Cooldown, \* of the breaker
  Unopened

ASSUME ModelCallsAssumption ==
  Chain \in Seq(Models) /\ Chain # <<>> /\ Watched \in Callers

VARIABLES
  call,                \* of each caller: pc, at, attempt
  log,                 \* history: the attempts of the watched caller's call
  breaker,             \* of each provider: failures, and opened_at as its age
  up                   \* environment: the first model's provider replies

callVars == <<call, log, breaker, up>>

Providers == {ProviderOf[m] : m \in Models}
Replies == {"ok", "no_object"}
Failures == {"transient", "timeout"}
(* "raised" is a refusal, or an error of class CONFIG.                     *)
Outcomes == Replies \union Failures \union {"raised", "behavior"}

(* ResiliencePolicy.candidates: without duplicates, in order.              *)
candidates ==
  LET new == {i \in DOMAIN Chain : \A j \in 1..(i - 1) : Chain[j] # Chain[i]}
      nth(n) == CHOOSE i \in new : Cardinality(new \intersect (1..i)) = n
  IN  [n \in 1..Cardinality(new) |-> Chain[nth(n)]]
ProviderAt(k) == ProviderOf[candidates[k]]

-----------------------------------------------------------------------------
(* CircuitBreaker.  allow consumes the probe of an open circuit.           *)
Elapsed(b) == b.opened # Unopened /\ b.opened >= Cooldown
Allowed(b) == b.opened = Unopened \/ Elapsed(b)
Allow(b) == IF Elapsed(b) THEN [b EXCEPT !.opened = 0] ELSE b

(* Mutant: the count is reset and the circuit left open.                   *)
ResetOnly(b) == [b EXCEPT !.failures = 0]

record_success(b) == [failures |-> 0, opened |-> Unopened]

(* The count is kept up to the threshold.                                  *)
record_failure(b) ==
  LET count == Min({b.failures + 1, Threshold})
  IN [failures |-> count, opened |-> IF count >= Threshold THEN 0 ELSE b.opened]

-----------------------------------------------------------------------------
Record(k, outcome) == [at |-> k, outcome |-> outcome]
Log(c, told) == log' = IF c = Watched THEN told ELSE log
Finish(c, told) ==
  call' = [call EXCEPT ![c] = [pc |-> "done", at |-> 1, attempt |-> 0]] /\ Log(c, told)

(* The walk goes on at candidate k: it skips open circuits, and begins at  *)
(* the first that allows it, or is exhausted.                              *)
Walk(c, k, circuits, so_far) ==
  LET n == Len(candidates)
      open == {j \in k..n : Allowed(circuits[ProviderAt(j)])}
      next == IF open = {} THEN n + 1 ELSE Min(open)
      told == so_far \o [i \in 1..(next - k) |-> Record(k + i - 1, "skipped")]
  IN IF open = {}
     THEN /\ Finish(c, Append(told, Record(n, "exhausted")))
          /\ breaker' = circuits
     ELSE /\ call' = [call EXCEPT ![c] =
               [pc |-> "calling", at |-> next, attempt |-> 0]]
          /\ Log(c, told)
          /\ breaker' = [circuits EXCEPT ![ProviderAt(next)] = Allow(@)]

StartCall(c) ==
  /\ call[c].pc \in {"idle", "done"}
  /\ Walk(c, 1, breaker, <<>>)
  /\ UNCHANGED up

(* What an attempt that came to an end is told of.                         *)
Told(c, outcome) == Append(log, Record(call[c].at, outcome))

(* Mutant: a configuration error moves on to the next model.               *)
PassOver(c) == Walk(c, call[c].at + 1, breaker, Told(c, "raised"))

(* A refusal or a configuration error is raised at once.                   *)
Raise(c) == Finish(c, Told(c, "raised")) /\ UNCHANGED breaker

Succeed(c, outcome) ==
  LET p == ProviderAt(call[c].at)
      circuits == [breaker EXCEPT ![p] = record_success(@)]
  IN IF outcome = "ok"
     THEN Finish(c, Told(c, outcome)) /\ breaker' = circuits
     ELSE Walk(c, call[c].at + 1, circuits, Told(c, outcome))

(* A failure is retried within its budget, unless it opened the circuit.   *)
Fail(c, outcome) ==
  LET p == ProviderAt(call[c].at)
      circuits == [breaker EXCEPT ![p] = record_failure(@)]
      attempt == call[c].attempt + 1
  IN IF attempt < Attempts[outcome] /\ Allowed(circuits[p])
     THEN /\ call' = [call EXCEPT ![c] = [@ EXCEPT !.pc = "backoff",
                                                     !.attempt = attempt]]
          /\ Log(c, Told(c, outcome))
          /\ breaker' = [circuits EXCEPT ![p] = Allow(@)]
     ELSE Walk(c, call[c].at + 1, circuits, Told(c, outcome))

AttemptEnds(c) ==
  /\ call[c].pc = "calling"
  /\ \E outcome \in IF up /\ ProviderAt(call[c].at) = ProviderAt(1)
                     THEN Replies ELSE Outcomes :
       CASE outcome \in Replies  -> Succeed(c, outcome)
         [] outcome \in Failures -> Fail(c, outcome)
         [] outcome = "raised"   -> Raise(c)
         [] outcome = "behavior" ->
              Walk(c, call[c].at + 1, breaker, Told(c, outcome))
  /\ UNCHANGED up

(* The circuit was looked at before the backoff, and is not again.         *)
BackoffEnds(c) ==
  /\ call[c].pc = "backoff"
  /\ call' = [call EXCEPT ![c].pc = "calling"]
  /\ UNCHANGED <<log, breaker, up>>

CooldownPasses ==
  /\ breaker' = [p \in Providers |-> [breaker[p] EXCEPT
       !.opened = IF @ = Unopened THEN Unopened ELSE Min({@ + 1, Cooldown})]]
  /\ UNCHANGED <<call, log, up>>

ProviderTurns ==
  /\ up' = ~up
  /\ UNCHANGED <<call, log, breaker>>

ModelCallsInit ==
  /\ call = [c \in Callers |-> [pc |-> "idle", at |-> 1, attempt |-> 0]]
  /\ log = <<>>
  /\ breaker = [p \in Providers |-> [failures |-> 0, opened |-> Unopened]]
  /\ up = TRUE

Calling(c) == StartCall(c) \/ AttemptEnds(c) \/ BackoffEnds(c)

ModelCallsNext ==
  \/ \E c \in Callers : Calling(c)
  \/ CooldownPasses \/ ProviderTurns

ModelCallsSpec == ModelCallsInit /\ [][ModelCallsNext]_callVars

-----------------------------------------------------------------------------
(* A call does what its policy says, whatever the others do to the         *)
(* breaker meanwhile: models are tried in the order of the chain, none is  *)
(* left out, and one is tried again only after a failure that its class    *)
(* has a budget for; a reply, a refusal and a configuration error are each *)
(* the last attempt there is, so that no fallback masks them; and it is    *)
(* exhausted only behind the last model.                                   *)
WalkFaithful ==
  LET tries(i) == Cardinality({j \in 1..i : log[j].at = log[i].at})
  IN \A i \in DOMAIN log :
       /\ i = 1 => log[i].at = 1
       /\ i < Len(log) =>
            /\ log[i].outcome \notin {"ok", "raised", "exhausted"}
            /\ log[i + 1].at \in {log[i].at, log[i].at + 1}
            /\ log[i + 1].at = log[i].at /\ log[i + 1].outcome # "exhausted" =>
                 /\ log[i].outcome \in Failures
                 /\ tries(i) < Attempts[log[i].outcome]
       /\ log[i].outcome = "exhausted" => log[i].at = Len(candidates)

(* Every call comes back, and a provider that gives replies again is found *)
(* out: the circuit of the first model's provider closes for good, however *)
(* it was left and whichever call took the probe.  (A refusal, a           *)
(* configuration error and bad model behaviour settle no probe: a provider *)
(* that answers only so keeps an open circuit, llm.py:1218-1248.)          *)
ProviderRecovers ==
  /\ \A c \in Callers : []<>(call[c].pc \in {"idle", "done"})
  /\ LET p == ProviderAt(1) IN <>[]up => <>[](breaker[p].opened = Unopened)
=============================================================================
