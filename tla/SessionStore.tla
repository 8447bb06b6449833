----------------------------- MODULE SessionStore -----------------------------
(***************************************************************************)
(* The revision log a SessionStore keeps for one session: commit_value and *)
(* load_value of InMemorySessionStore.  A log is the sequence of its       *)
(* revisions; a revision's cursor is its position, and cursor 0 stands for *)
(* the empty value.  The store compares values by the fingerprint of their *)
(* canonical JSON, so a value here is its own fingerprint.                 *)
(***************************************************************************)
EXTENDS Naturals, Sequences

Head0(revs) == Len(revs)

(* A revision already written for this base and value: the retry of a      *)
(* commit whose answer was lost.                                           *)
Replays(revs, base, value) ==
  {i \in DOMAIN revs : revs[i].base = base /\ revs[i].value = value}

(* Mutant of CommitConflicts: a retry is not recognised.                   *)
ConflictsUnlessHead(revs, base, value) == base # Head0(revs)

CommitConflicts(revs, base, value) ==
  Replays(revs, base, value) = {} /\ base # Head0(revs)

CommitLog(revs, base, value) ==
  IF Replays(revs, base, value) # {} \/ base # Head0(revs)
  THEN revs
  ELSE Append(revs, [base |-> base, value |-> value])

(* Mutant of CommitCursor: the head read before the append.                *)
CursorBeforeAppend(revs, base, value) == Head0(revs)

(* The cursor a commit that does not conflict answers with: the first      *)
(* replayed revision, or the one just appended.                            *)
CommitCursor(revs, base, value) ==
  LET replays == Replays(revs, base, value)
  IN  IF replays # {}
      THEN CHOOSE i \in replays : \A j \in replays : i <= j
      ELSE Head0(revs) + 1
=============================================================================
