----------------------------- MODULE TurnRules -----------------------------
(***************************************************************************)
(* The rules that validate.py has for the body of a session's LOOP, and    *)
(* what they are there for: every turn takes one message, and sends        *)
(* nothing before it.  A body is a tree [op, kids]; leaves that are neither *)
(* recv nor emit are "step".                                               *)
(***************************************************************************)
EXTENDS Integers, Sequences, SequencesExt, FiniteSets, FiniteSetsExt

CONSTANTS
  Bodies,   \* the bodies that are validated
  Bound,    \* rounds of an iter_up_to
  Items     \* bound: items an each runs over

VARIABLE body

TurnInit == body \in Bodies

Of(t) == {t.kids[i] : i \in DOMAIN t.kids}

RECURSIVE walk(_)
walk(t) == {t} \union UNION {walk(k) : k \in Of(t)}

(* Mutant: what stands on the right comes after a recv.                    *)
Seq2Left(a, b) ==
  [min |-> a.min + b.min, max |-> a.max + b.max, early |-> a.early]

Seq2(a, b) ==
  [min |-> a.min + b.min, max |-> a.max + b.max, early |-> a.early \/ (a.min = 0 /\ b.early)]

(* How many messages a body takes at least and at most, and whether it may *)
(* emit before the first.                                                  *)
RECURSIVE classify(_)
classify(t) ==
  LET of == {classify(k) : k \in Of(t)}
      mins == {c.min : c \in of}
      maxs == {c.max : c \in of}
  IN CASE t.op = "recv" -> [min |-> 1, max |-> 1, early |-> FALSE]
       [] t.op = "emit" -> [min |-> 0, max |-> 0, early |-> TRUE]
       [] t.op = "step" -> [min |-> 0, max |-> 0, early |-> FALSE]
       [] t.op = "seq"  -> Seq2(classify(t.kids[1]), classify(t.kids[2]))
       [] t.op = "alt"  -> [min |-> Min(mins), max |-> Max(maxs), early |-> \E c \in of : c.early]
       [] t.op = "iter" -> [min |-> 0, max |-> Bound * Max(maxs), early |-> \E c \in of : c.early]
       [] t.op \in {"par", "each"} ->
            [min |-> 0, max |-> Max(maxs), early |-> \E k \in walk(t) : k.op = "emit"]
       [] t.op = "plan" -> classify(t.kids[1])

(* No channel under a par or an each.                                      *)
RECURSIVE fenced(_, _)
fenced(t, concurrent) ==
  /\ concurrent => t.op \notin {"recv", "emit"}
  /\ \A k \in Of(t) : fenced(k, concurrent \/ t.op \in {"par", "each"})

Valid(t) ==
  LET turn == classify(t) IN
  fenced(t, FALSE) /\ turn.min # 0 /\ ~turn.early /\ turn.max <= 1

------------------------------------------------------------------------------
(* What a body can do: the ways through it, as sequences of its channel    *)
(* operations.                                                             *)
RECURSIVE Shuffles(_, _)
Shuffles(a, b) ==
  IF a = <<>> \/ b = <<>> THEN {a \o b}
  ELSE {<<Head(a)>> \o w : w \in Shuffles(Tail(a), b)} \union
       {<<Head(b)>> \o w : w \in Shuffles(a, Tail(b))}

Together(A, B) == UNION {Shuffles(a, b) : a \in A, b \in B}
InTurn(A, B)   == {a \o b : a \in A, b \in B}

(* n copies of a body one after the other, and all of them at once.        *)
Repeated(n, A) == FoldLeft(InTurn, {<<>>}, [i \in 1..n |-> A])
Spread(n, A)   == FoldLeft(Together, {<<>>}, [i \in 1..n |-> A])

RECURSIVE Ways(_)
Ways(t) ==
  CASE t.op \in {"recv", "emit"} -> {<<t.op>>}
    [] t.op = "step" -> {<<>>}
    [] t.op = "seq"  -> InTurn(Ways(t.kids[1]), Ways(t.kids[2]))
    [] t.op = "par"  -> Together(Ways(t.kids[1]), Ways(t.kids[2]))
    [] t.op = "alt"  -> UNION {Ways(k) : k \in Of(t)}
    [] t.op = "iter" -> UNION {Repeated(n, Ways(t.kids[1])) : n \in 1..Bound}
    [] t.op = "each" -> UNION {Spread(n, Ways(t.kids[1])) : n \in 0..Items}
    [] t.op = "plan" -> Ways(t.kids[1])

OneMessageFirst(way) ==
  way # <<>> /\ Head(way) = "recv" /\ \A i \in 2..Len(way) : way[i] = "emit"

(* A valid body takes exactly one message in every turn, before it emits,  *)
(* whichever way the turn goes: what SessionWorkflow takes for granted of  *)
(* its bodies.  And nothing is refused that is a plain sequence of cases   *)
(* with that property.                                                     *)
TurnsTakeOneMessage ==
  LET fine == \A way \in Ways(body) : OneMessageFirst(way) IN
  /\ Valid(body) => fine
  /\ fine /\ (\A k \in walk(body) : k.op \notin {"iter", "par", "each"}) => Valid(body)
=============================================================================
