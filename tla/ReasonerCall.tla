----------------------------- MODULE ReasonerCall -----------------------------
(***************************************************************************)
(* complete_reasoner: the requests one model call makes of its provider:   *)
(* the native response format and its fallback, the disclosure of skills,  *)
(* and the re-asks of a reply that does not fit its schema.  A reply is    *)
(* what the code tells apart: the skills it asks for, whether it calls     *)
(* other tools, whether it fits the schema.                                *)
(***************************************************************************)
EXTENDS Naturals, SequencesExt, FiniteSetsExt

CONSTANTS
  Skills, NoSkill,     \* the names a skill has, and one that no skill has
  MaxAsks,             \* bound: the skills one reply asks for
  ErrorBudget,         \* skill_error_budget
  OutputRetries        \* output_retries

ASSUME ReasonerAssumption ==
  /\ IsFiniteSet(Skills) /\ MaxAsks \in Nat
  /\ ErrorBudget \in Nat \ {0} /\ OutputRetries \in Nat

VARIABLES
  ask,                 \* the call's arguments: schema, json_object, tools,
                       \* skills; and whether the provider takes the format
  activity,            \* its memory: pc, loaded, budget, open, native_ok, retries
  requests,            \* history: the requests, and what came back
  reply                \* the reply it returns

reasonerVars == <<ask, activity, requests, reply>>

NoReply == [asks |-> <<>>, tools |-> FALSE, fits |-> FALSE]
ReplyOf(asks, tools, fits) == [asks |-> asks, tools |-> tools, fits |-> fits]
Asks == SeqOf(Skills \union {NoSkill}, MaxAsks)

_offering_tools == ask.tools \/ activity.open

-----------------------------------------------------------------------------
(* dispatch_once: the response format only without tools, and until it     *)
(* failed once.                                                            *)
Native ==
  /\ ~_offering_tools /\ (ask.schema \/ ask.json_object)
  /\ activity.native_ok /\ ask.takes_format

Request(outcome) ==
  requests' = Append(requests, [native |-> Native, tools |-> _offering_tools,
                                outcome |-> outcome])

(* A native request that fails, but not for its credentials, is sent again *)
(* without the format; any other failure is the caller's.                  *)
RequestFails ==
  /\ Request("failed") /\ UNCHANGED <<ask, reply>>
  /\ activity' = IF Native THEN [activity EXCEPT !.native_ok = FALSE]
                 ELSE [activity EXCEPT !.pc = "raised"]

AuthFails ==
  /\ Request("auth") /\ UNCHANGED <<ask, reply>>
  /\ activity' = [activity EXCEPT !.pc = "raised"]

(* The skill calls of a reply, one after the other: each skill that is not *)
(* loaded is loaded where it is first asked for, and every other call, for *)
(* no skill or for a loaded one, uses up the budget.                       *)
Disclosed(asks) ==
  LET new == (Range(asks) \intersect ask.skills) \ activity.loaded
      wasted == Len(asks) - Cardinality(new)
      budget == IF wasted >= activity.budget THEN 0 ELSE activity.budget - wasted
      loaded == activity.loaded \union new
  IN  [activity EXCEPT !.loaded = loaded, !.budget = budget,
                       !.open = loaded # ask.skills /\ budget > 0]

(* Mutant: what is asked of the closed tool goes on to the agent.          *)
KeepSkillCalls(r) == r

(* What is left of the reply without its skill calls.                      *)
_drop_skill_calls(r) == IF ask.skills = {} THEN r ELSE [r EXCEPT !.asks = <<>>]

(* The reply the disclosure came to, which is returned, or asked again        *)
(* with its error.                                                         *)
Settle(memory, r) ==
  LET left == _drop_skill_calls(r)
      bad == ask.schema /\ ~left.fits /\ ~left.tools /\ left.asks = <<>>
  IN IF bad /\ memory.retries < OutputRetries
     THEN /\ activity' = [memory EXCEPT !.pc = "reask", !.retries = @ + 1]
          /\ UNCHANGED reply
     ELSE activity' = [memory EXCEPT !.pc = "done"] /\ reply' = left

(* While the skill tool is open a reply that asks for skills is answered,  *)
(* its other calls are let go, and the model is asked again.                 *)
RequestReplies ==
  \E asks \in Asks, tools, fits \in BOOLEAN :
    LET r == ReplyOf(asks, tools, fits) IN
    /\ Request("reply") /\ UNCHANGED ask
    /\ IF activity.open /\ asks # <<>>
       THEN activity' = Disclosed(asks) /\ UNCHANGED reply
       ELSE Settle([activity EXCEPT !.open = FALSE], r)

ReasonerInit ==
  /\ ask \in [schema : BOOLEAN, json_object : BOOLEAN, tools : BOOLEAN,
              skills : SUBSET Skills, takes_format : BOOLEAN]
  /\ ~(ask.schema /\ ask.json_object)
  /\ activity = [pc |-> "first", loaded |-> {}, budget |-> ErrorBudget,
                 open |-> ask.skills # {}, native_ok |-> TRUE, retries |-> 0]
  /\ requests = <<>> /\ reply = NoReply

ReasonerNext ==
  /\ activity.pc \in {"first", "reask"}
  /\ RequestFails \/ AuthFails \/ RequestReplies

ReasonerSpec == ReasonerInit /\ [][ReasonerNext]_reasonerVars

-----------------------------------------------------------------------------
(* One call stays one call, whatever the model answers: it makes no more   *)
(* requests than its skills, the error budget, the re-asks and one         *)
(* fallback account for; the response format never meets tools and is not  *)
(* tried again once it failed; a credentials error is the last request     *)
(* there is; no skill call reaches the agent loop; and a reply that does   *)
(* not fit its schema is returned only when the re-asks are used up.       *)
OneCall ==
  /\ Len(requests) <= 1 + OutputRetries + 1
       + (IF ask.skills = {} THEN 0 ELSE Cardinality(ask.skills) + ErrorBudget - 1)
  /\ \A i \in DOMAIN requests :
       /\ requests[i].native => ~requests[i].tools
       /\ requests[i].native /\ requests[i].outcome = "failed" =>
            \A j \in i + 1 .. Len(requests) : ~requests[j].native
       /\ requests[i].outcome = "auth" => i = Len(requests) /\ activity.pc = "raised"
  /\ activity.pc = "done" =>
       /\ ask.skills # {} => reply.asks = <<>>
       /\ ask.schema /\ ~reply.fits =>
            reply.tools \/ reply.asks # <<>> \/ activity.retries = OutputRetries
=============================================================================
