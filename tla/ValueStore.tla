----------------------------- MODULE ValueStore -----------------------------
(***************************************************************************)
(* The values that rows and events of runs refer to, content-addressed and *)
(* so shared between runs, and the retention sweep of an operator.  The    *)
(* sweep is that of Postgres, a transaction of four statements under READ  *)
(* COMMITTED; the one in memory takes them under a lock, in one step.      *)
(* Which events there are, and the order of statuses, are the module       *)
(* ControlPlane's.                                                         *)
(***************************************************************************)
EXTENDS FiniteSets

CONSTANTS
  Recorded,                    \* runs
  InputOf, StepOf, ResultOf    \* their values: as input, in an event, as result;
                               \* not every run has an event or a result

VARIABLES
  values,         \* what projection_values holds
  references,     \* [run, field, value]: fields of rows, and events
  rows,           \* of each run: "none", "open", "ended", or "expired"
  claimed,        \* runs whose input is put
  egress,         \* runs of which a batch is put but not inserted
  closing,        \* runs in finalize_run: [found] says that the value was there
  retention       \* the sweep: pc, candidates; deleted references, doomed
                  \* values; [late], history: references to doomed values

valueVars == <<values, references, rows, claimed, egress, closing, retention>>

Ref(r, field, v) == [run |-> r, field |-> field, value |-> v]
Input(r) == Ref(r, "input", InputOf[r])
Step(r) == Ref(r, "step", StepOf[r])
Final(r) == {Ref(r, field, ResultOf[r]) : field \in {"result", "end"}}

NotClosing == [open |-> FALSE, found |-> FALSE]
NoSweep ==
  [pc |-> "idle", candidates |-> {}, deleted |-> {}, doomed |-> {}, late |-> {}]

(* An insert waits for the transaction that inserted the same value; one   *)
(* of a key that the sweep deleted, or of a row it cleared, for the sweep. *)
Inserting(v) ==
  \/ v \in retention.doomed
  \/ \E r \in DOMAIN ResultOf : closing[r].open /\ ~closing[r].found /\ ResultOf[r] = v
Locked(x) == x \in retention.deleted

put_value(v) == ~Inserting(v) /\ values' = values \union {v}

(* No key ties a reference to its value: it is inserted beside a sweep     *)
(* that has deleted the value and not yet committed.                       *)
Refer(refs) ==
  /\ references' = references \union refs
  /\ retention' = [retention EXCEPT
                     !.late = @ \union {x \in refs : x.value \in retention.doomed}]

-----------------------------------------------------------------------------
(* The server: the row names the input before it is put, and the workflow  *)
(* is started behind both.                                                 *)
create_run(r) ==
  /\ rows[r] = "none"
  /\ rows' = [rows EXCEPT ![r] = "open"]
  /\ Refer({Input(r)})
  /\ UNCHANGED <<values, claimed, egress, closing>>

(* Mutant: the value is put before the row that refers to it.              *)
PutInputFirst(r) ==
  /\ r \notin claimed
  /\ put_value(InputOf[r]) /\ claimed' = claimed \union {r}
  /\ UNCHANGED <<references, rows, egress, closing, retention>>

PutInput(r) ==
  /\ rows[r] # "none" /\ r \notin claimed
  /\ put_value(InputOf[r]) /\ claimed' = claimed \union {r}
  /\ UNCHANGED <<references, rows, egress, closing, retention>>

(* A start that failed, or the reconciler's verdict: no result.            *)
EndWithoutResult(r) ==
  /\ rows[r] = "open" /\ rows' = [rows EXCEPT ![r] = "ended"]
  /\ UNCHANGED <<values, references, claimed, egress, closing, retention>>

(* The age beyond which a sweep takes a run; it is read as a sweep starts. *)
Expire(r) ==
  /\ rows[r] = "ended" /\ retention.pc = "idle"
  /\ rows' = [rows EXCEPT ![r] = "expired"]
  /\ UNCHANGED <<values, references, claimed, egress, closing, retention>>

-----------------------------------------------------------------------------
(* An attempt puts the values of its batch, and inserts the events behind  *)
(* them; another one may put again, or come when the run has ended.        *)
PersistPut(r) ==
  /\ r \in claimed
  /\ put_value(StepOf[r]) /\ egress' = egress \union {r}
  /\ UNCHANGED <<references, rows, claimed, closing, retention>>

PersistInsert(r) ==
  /\ r \in egress /\ ~Locked(Step(r))
  /\ Refer({Step(r)}) /\ egress' = egress \ {r}
  /\ UNCHANGED <<values, rows, claimed, closing>>

PersistFails(r) ==
  /\ r \in egress /\ egress' = egress \ {r}
  /\ UNCHANGED <<values, references, rows, claimed, closing, retention>>

(* finalize_run is one transaction: it skips a value that is there, and    *)
(* shows the one it inserts when it commits.                               *)
FinalizeValue(r) ==
  /\ r \in claimed /\ ~closing[r].open /\ ~Inserting(ResultOf[r])
  /\ closing' = [closing EXCEPT ![r] = [open |-> TRUE, found |-> ResultOf[r] \in values]]
  /\ UNCHANGED <<values, references, rows, claimed, egress, retention>>

finalize_run(r) ==
  /\ closing[r].open /\ ~\E x \in Final(r) : Locked(x)
  /\ closing' = [closing EXCEPT ![r] = NotClosing]
  /\ values' = IF closing[r].found THEN values ELSE values \union {ResultOf[r]}
  /\ Refer(Final(r))
  /\ rows' = [rows EXCEPT ![r] = "ended"]
  /\ UNCHANGED <<claimed, egress>>

-----------------------------------------------------------------------------
(* sweep(), statement by statement.  Others see it when it commits.        *)
Expired(fields) == {x \in references : rows[x.run] = "expired" /\ x.field \in fields}

SelectCandidates ==
  /\ retention.pc = "idle"
  /\ retention' = [retention EXCEPT !.pc = "events",
       !.candidates = {x.value : x \in Expired({"input", "result", "step", "end"})}]
  /\ UNCHANGED <<values, references, rows, claimed, egress, closing>>

DeleteEvents ==
  /\ retention.pc = "events"
  /\ retention' = [retention EXCEPT !.pc = "rows", !.deleted = Expired({"step", "end"})]
  /\ UNCHANGED <<values, references, rows, claimed, egress, closing>>

ClearRows ==
  /\ retention.pc = "rows"
  /\ retention' = [retention EXCEPT !.pc = "values",
                     !.deleted = @ \union Expired({"input", "result"})]
  /\ UNCHANGED <<values, references, rows, claimed, egress, closing>>

DeleteValues ==
  /\ retention.pc = "values"
  /\ retention' = [retention EXCEPT !.pc = "commit",
       !.doomed = values \intersect
                    (retention.candidates \ {x.value : x \in references \ retention.deleted})]
  /\ UNCHANGED <<values, references, rows, claimed, egress, closing>>

Commit ==
  /\ retention.pc = "commit"
  /\ references' = references \ retention.deleted
  /\ values' = values \ retention.doomed
  /\ retention' = NoSweep
  /\ UNCHANGED <<rows, claimed, egress, closing>>

ValueInit ==
  /\ values = {} /\ references = {} /\ rows = [r \in Recorded |-> "none"]
  /\ claimed = {} /\ egress = {} /\ closing = [r \in DOMAIN ResultOf |-> NotClosing]
  /\ retention = NoSweep

Sweeps == SelectCandidates \/ DeleteEvents \/ ClearRows \/ DeleteValues \/ Commit

ValueNext ==
  \/ \E r \in Recorded :
       create_run(r) \/ PutInput(r) \/ EndWithoutResult(r) \/ Expire(r)
  \/ \E r \in DOMAIN StepOf : PersistPut(r) \/ PersistInsert(r) \/ PersistFails(r)
  \/ \E r \in DOMAIN ResultOf : FinalizeValue(r) \/ finalize_run(r)
  \/ Sweeps

ValueSpec == ValueInit /\ [][ValueNext]_valueVars

-----------------------------------------------------------------------------
(* A run keeps its input: once the input is put, every sweep spares it as  *)
(* long as the row names it, whichever other runs of the same value expire *)
(* in the middle of the submission.  (Values of events and results are put *)
(* in front of what refers to them, and may be swept between the two.)     *)
InputsKept ==
  \A r \in claimed : Input(r) \in references => InputOf[r] \in values

(* What a reference found, it finds until it is swept itself, whatever     *)
(* other runs share the value, and however their egress, their             *)
(* finalization and the statements of a sweep meet: except for a reference *)
(* that comes between the last statement of a sweep and its commit.        *)
ReferencesHold ==
  [][\A x \in references \intersect references' :
        x.value \in values /\ x \notin retention.late => x.value \in values']_valueVars
=============================================================================
