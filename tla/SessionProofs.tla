---------------------------- MODULE SessionProofs ----------------------------
(***************************************************************************)
(* Proofs about SessionWorkflow, for every value of its constants: its type*)
(* invariant; that its inbox is first-in first-out and loses nothing over  *)
(* continue-as-new, and that it therefore implements Mailbox; that the     *)
(* store and the session agree about what is committed; and that the       *)
(* messages that wait keep names that tell them apart.                     *)
(***************************************************************************)
EXTENDS SessionWorkflow, DataLemmas

(***************************************************************************)
(* The operators the actions are built from.                               *)
(***************************************************************************)
(* Eviction leaves a buffer a buffer, and a log a log.                     *)
LEMMA EvictType ==
  ASSUME NEW s \in Seq(Nat), NEW acked \in Nat
  PROVE  Evict(s, acked) \in Seq(Nat)
  <1>. DEFINE P == {i \in DOMAIN s : s[i] <= acked}
  <1>1. Cardinality(P) \in Nat
    BY CountIn
  <1>. QED BY <1>1, DropType DEF Evict

LEMMA EvictEventsType ==
  ASSUME NEW s \in Seq(EventRecord), NEW acked \in Nat
  PROVE  EvictEvents(s, acked) \in Seq(EventRecord)
  <1>. DEFINE P == {i \in DOMAIN s : s[i].eseq <= acked}
  <1>1. P \subseteq DOMAIN s
    OBVIOUS
  <1>2. Cardinality(P) \in Nat
    <2>. HIDE DEF P
    <2>. QED BY <1>1, CountIn
  <1>3. SubSeq(s, 1 + Cardinality(P), Len(s)) \in Seq(EventRecord)
    <2>. HIDE DEF P
    <2>. QED BY <1>2, DropType
  <1>. QED BY <1>3 DEF EvictEvents

(* The highest number among some numbers of a log and one more.            *)
LEMMA MaxOfLog ==
  ASSUME NEW f \in Seq(Nat), NEW n \in Nat, NEW S, n \in S,
         S \subseteq {n} \cup {f[i] : i \in DOMAIN f}
  PROVE  Max(S) \in Nat /\ Max(S) >= n
  <1>1. PICK u \in Nat : \A i \in DOMAIN f : f[i] <= u
    BY SeqBounded
  <1>2. \A i \in DOMAIN f : f[i] \in Nat
    OBVIOUS
  <1>3. S \subseteq Nat
    BY <1>2
  <1>4. u + n \in Nat /\ \A y \in S : y <= u + n
    BY <1>1, <1>2
  <1>. QED BY <1>3, <1>4, MaxInSet

LEMMA AckedOutputsType ==
  ASSUME NEW log \in Seq(EventRecord), NEW acked \in Nat, NEW cursor \in Nat
  PROVE  AckedOutputs(log, acked, cursor) \in Nat
  <1>. DEFINE f == [i \in DOMAIN log |-> log[i].out]
              S == {cursor} \cup {e.out : e \in {r \in Range(log) :
                                      r.kind = "emit" /\ r.eseq <= acked}}
  <1>. HIDE DEF f, S
  <1>0. DOMAIN log = 1..Len(log) /\ Len(log) \in Nat
        /\ \A i \in DOMAIN log : log[i] \in EventRecord
    OBVIOUS
  <1>1. \A i \in DOMAIN log : log[i].out \in Nat
    BY <1>0 DEF EventRecord
  <1>2. f \in Seq(Nat)
    BY <1>0, <1>1 DEF f
  <1>3. cursor \in S /\ S \subseteq {cursor} \cup {f[i] : i \in DOMAIN f}
    BY DEF Range, f, S
  <1>4. Max(S) \in Nat
    BY <1>2, <1>3, MaxOfLog
  <1>. QED BY <1>4 DEF S, AckedOutputs

LEMMA HighestRecordType ==
  ASSUME NEW log \in Seq(EventRecord), NEW n \in Nat
  PROVE  Max({n} \cup {e.eseq : e \in Range(log)}) \in Nat
  <1>. DEFINE f == [i \in DOMAIN log |-> log[i].eseq]
              S == {n} \cup {e.eseq : e \in Range(log)}
  <1>. HIDE DEF f, S
  <1>0. DOMAIN log = 1..Len(log) /\ Len(log) \in Nat
        /\ \A i \in DOMAIN log : log[i] \in EventRecord
    OBVIOUS
  <1>1. \A i \in DOMAIN log : log[i].eseq \in Nat
    BY <1>0 DEF EventRecord
  <1>2. f \in Seq(Nat)
    BY <1>0, <1>1 DEF f
  <1>3. n \in S /\ S \subseteq {n} \cup {f[i] : i \in DOMAIN f}
    BY DEF Range, f, S
  <1>4. Max(S) \in Nat
    BY <1>2, <1>3, MaxOfLog
  <1>. QED BY <1>4 DEF S

(* Records to append, before they are numbered.                            *)
Unnumbered == [kind : Kinds, out : Nat]

LEMMA AppendEventsType ==
  ASSUME event_log \in Seq(EventRecord), event_seq \in Nat, event_ack \in Nat,
         NEW records \in Seq(Unnumbered), AppendEvents(records)
  PROVE  /\ event_log' \in Seq(EventRecord)
         /\ event_seq' \in Nat
         /\ event_ack' \in Nat
  <1>. DEFINE stamped == [i \in DOMAIN records |->
                            [eseq |-> event_seq + i,
                             kind |-> records[i].kind, out |-> records[i].out]]
  <1>1. /\ DOMAIN records = 1..Len(records) /\ Len(records) \in Nat
        /\ \A i \in DOMAIN records : records[i] \in Unnumbered
    OBVIOUS
  <1>2. \A i \in DOMAIN records :
          [eseq |-> event_seq + i, kind |-> records[i].kind,
           out |-> records[i].out] \in EventRecord
    BY <1>1 DEF Unnumbered, EventRecord
  <1>3. stamped \in Seq(EventRecord)
    <2>1. stamped \in [1..Len(records) -> EventRecord]
      BY <1>1, <1>2
    <2>. HIDE DEF stamped
    <2>. QED BY <1>1, <2>1
  <1>4. event_log \o stamped \in Seq(EventRecord)
    <2>. HIDE DEF stamped
    <2>. QED BY <1>3
  <1>5. EvictEvents(event_log \o stamped, event_ack) \in Seq(EventRecord)
    <2>. HIDE DEF stamped
    <2>. QED BY <1>4, EvictEventsType
  <1>. QED BY <1>1, <1>5 DEF AppendEvents

LEMMA RecordTypes ==
  ASSUME NEW k \in Kinds, NEW s \in Nat, turn_started \in BOOLEAN,
         closed_event_sent \in BOOLEAN
  PROVE  /\ <<Record(k)>> \in Seq(Unnumbered)
         /\ <<EmitRecord(s)>> \in Seq(Unnumbered)
         /\ DoneIfStarted \in Seq(Unnumbered)
         /\ ClosedOnce \in Seq(Unnumbered)
  <1>1. Record(k) \in Unnumbered /\ Record("done") \in Unnumbered
        /\ Record("closed") \in Unnumbered /\ EmitRecord(s) \in Unnumbered
    BY DEF Record, EmitRecord, Unnumbered, Kinds
  <1>. QED BY <1>1 DEF DoneIfStarted, ClosedOnce

LEMMA ExceptType ==
  ASSUME NEW C, NEW K, NEW V, NEW f \in [C -> [K -> V]],
         NEW c \in C, NEW k \in K, NEW v \in V
  PROVE  [f EXCEPT ![c][k] = v] \in [C -> [K -> V]]
  OBVIOUS

LEMMA RestampedType ==
  ASSUME TypeOK, NEW c \in Channels
  PROVE  /\ Restamped(c) \in Seq(Item)
         /\ Len(Restamped(c)) = Len(pending[c])
         /\ \A i \in DOMAIN pending[c] : Restamped(c)[i].id = pending[c][i].id
         /\ HighWater(c) \in Nat
         /\ Cardinality(Stale(c)) \in Nat
  <1>1. /\ pending[c] \in Seq(Item) /\ Len(pending[c]) \in Nat
        /\ DOMAIN pending[c] = 1..Len(pending[c])
        /\ \A i \in DOMAIN pending[c] : pending[c][i] \in Item
    BY DEF TypeOK
  <1>2. inp.in_seq[c] \in Nat /\ in_seq[c] \in Nat
    BY DEF TypeOK, Carried
  <1>3. HighWater(c) \in Nat
    BY <1>2, MaxOfTwo DEF HighWater
  <1>4. Stale(c) \subseteq DOMAIN pending[c]
    BY DEF Stale
  <1>5. Cardinality(Stale(c)) \in Nat
    BY <1>1, <1>4, CountIn
  <1>6. \A i \in DOMAIN pending[c] :
          Cardinality({j \in Stale(c) : j <= i}) \in Nat
    <2>. TAKE i \in DOMAIN pending[c]
    <2>. DEFINE P == {j \in Stale(c) : j <= i}
    <2>1. P \subseteq DOMAIN pending[c]
      BY <1>4
    <2>. HIDE DEF P
    <2>2. Cardinality(P) \in Nat
      BY <1>1, <2>1, CountIn
    <2>. QED BY <2>2 DEF P
  <1>. DEFINE New(i) ==
         IF i \in Stale(c)
         THEN [pending[c][i] EXCEPT
                 !.seq = HighWater(c) + Cardinality({j \in Stale(c) : j <= i})]
         ELSE pending[c][i]
  <1>7. \A i \in DOMAIN pending[c] :
          New(i) \in Item /\ New(i).id = pending[c][i].id
    <2>. TAKE i \in DOMAIN pending[c]
    <2>. DEFINE n == HighWater(c) + Cardinality({j \in Stale(c) : j <= i})
    <2>1. n \in Nat
      BY <1>3, <1>6
    <2>. HIDE DEF n
    <2>2. pending[c][i] \in Item
      BY <1>1
    <2>3. [pending[c][i] EXCEPT !.seq = n] \in Item
          /\ [pending[c][i] EXCEPT !.seq = n].id = pending[c][i].id
      BY <2>1, <2>2 DEF Item
    <2>. QED BY <2>2, <2>3 DEF n
  <1>8. Restamped(c) = [i \in 1..Len(pending[c]) |-> New(i)]
    BY <1>1 DEF Restamped
  <1>. HIDE DEF New
  <1>9. Restamped(c) \in Seq(Item) /\ Len(Restamped(c)) = Len(pending[c])
    BY <1>1, <1>7, <1>8
  <1>. QED BY <1>1, <1>3, <1>5, <1>7, <1>8, <1>9

LEMMA MergedTypes ==
  ASSUME TypeOK, NEW c \in Channels
  PROVE  /\ MergedIndex(c) \in [Keys -> Nat]
         /\ MergedFp(c) \in [Keys -> Values \cup {None}]
  <1>1. ASSUME NEW k \in Keys,
               NEW sent, sent = {i \in DOMAIN pending[c] : pending[c][i].key = k},
               sent # {}
        PROVE  Restamped(c)[Max(sent)].seq \in Nat
    <2>1. DOMAIN pending[c] = 1..Len(pending[c]) /\ Len(pending[c]) \in Nat
      BY DEF TypeOK
    <2>2. sent \subseteq Nat /\ \A y \in sent : y <= Len(pending[c])
      BY <1>1, <2>1
    <2>3. Max(sent) \in sent
      BY <1>1, <2>1, <2>2, MaxInSet
    <2>4. Max(sent) \in 1..Len(pending[c])
      BY <1>1, <2>1, <2>3
    <2>5. Restamped(c) \in Seq(Item) /\ Len(Restamped(c)) = Len(pending[c])
      BY RestampedType
    <2>6. Restamped(c)[Max(sent)] \in Item
      BY <2>4, <2>5
    <2>. QED BY <2>6 DEF Item
  <1>2. \A k \in Keys : /\ inp.idempotency_index[c][k] \in Nat
                        /\ idempotency_index[c][k] \in Nat
                        /\ idempotency_fp[c][k] \in Values \cup {None}
                        /\ inp.idempotency_fp[c][k] \in Values \cup {None}
    <2>1. /\ idempotency_index \in [Channels -> [Keys -> Nat]]
          /\ idempotency_fp \in [Channels -> [Keys -> Values \cup {None}]]
          /\ inp \in Carried
      BY DEF TypeOK
    <2>2. /\ inp.idempotency_index \in [Channels -> [Keys -> Nat]]
          /\ inp.idempotency_fp \in [Channels -> [Keys -> Values \cup {None}]]
      BY <2>1 DEF Carried
    <2>. QED BY <2>1, <2>2
  <1>3. MergedIndex(c) \in [Keys -> Nat]
    BY <1>1, <1>2 DEF MergedIndex
  <1>4. MergedFp(c) \in [Keys -> Values \cup {None}]
    BY <1>2 DEF MergedFp
  <1>. QED BY <1>3, <1>4

(***************************************************************************)
(* Type correctness.  One lemma for each action that changes more than the *)
(* control state.                                                          *)
(***************************************************************************)
USE SessionAssumption

LEMMA InitType == Init => TypeOK
  <1>. SUFFICES ASSUME Init PROVE TypeOK
    OBVIOUS
  <1>1. /\ Empty \in [Channels -> Seq(Item)] /\ Zero \in [Channels -> Nat]
        /\ NoIndex \in [Channels -> [Keys -> Nat]]
        /\ NoFp \in [Channels -> [Keys -> Values \cup {None}]]
    BY DEF Empty, Zero, NoIndex, NoFp
  <1>2. <<>> \in Seq(Nat) /\ <<>> \in Seq(EventRecord)
        /\ <<>> \in Seq([base : Nat, value : Nat])
    OBVIOUS
  <1>3. FirstInput \in Carried
    BY <1>1, <1>2 DEF FirstInput, Carried, Reasons
  <1>4. 0 \in 0..CommitAttempts
    OBVIOUS
  <1>. QED BY <1>1, <1>2, <1>3, <1>4
           DEF Init, TypeOK, Channels, Reasons, PCs, Unset, NoAnswer

LEMMA SendType ==
  ASSUME TypeOK, NEW c \in Channels, NEW key \in Keys \cup {None},
         NEW value \in Values, Send(c, key, value)
  PROVE  TypeOK'
  <1>a. /\ in_seq \in [Channels -> Nat] /\ accepted \in [Channels -> Nat]
        /\ idempotency_index \in [Channels -> [Keys -> Nat]]
        /\ idempotency_fp \in [Channels -> [Keys -> Values \cup {None}]]
        /\ pending \in [Channels -> Seq(Item)]
    BY DEF TypeOK
  <1>b. in_seq[c] + 1 \in Nat /\ accepted[c] + 1 \in Nat
    BY <1>a
  <1>. DEFINE item == [id |-> accepted[c] + 1, seq |-> in_seq[c] + 1, key |-> key,
                       val |-> value]
  <1>1. item \in Item
    BY <1>b DEF Item
  <1>2. pending' \in [Channels -> Seq(Item)]
    <2>1. pending' = [pending EXCEPT ![c] = Append(pending[c], item)]
      BY DEF Send
    <2>. HIDE DEF item
    <2>2. Append(pending[c], item) \in Seq(Item)
      BY <1>a, <1>1
    <2>. QED BY <1>a, <2>1, <2>2
  <1>3. in_seq' \in [Channels -> Nat] /\ accepted' \in [Channels -> Nat]
    <2>1. in_seq' = [in_seq EXCEPT ![c] = in_seq[c] + 1]
          /\ accepted' = [accepted EXCEPT ![c] = accepted[c] + 1]
      BY DEF Send
    <2>. QED BY <1>a, <1>b, <2>1
  <1>4. idempotency_index' \in [Channels -> [Keys -> Nat]]
        /\ idempotency_fp' \in [Channels -> [Keys -> Values \cup {None}]]
    <2>1. CASE key = None
      BY <1>a, <2>1 DEF Send
    <2>2. CASE key \in Keys
      <3>1. /\ idempotency_index' =
                 [idempotency_index EXCEPT ![c][key] = in_seq[c] + 1]
            /\ idempotency_fp' = [idempotency_fp EXCEPT ![c][key] = value]
        BY <2>2 DEF Send
      <3>. QED BY <1>a, <1>b, <2>2, <3>1, ExceptType
    <2>. QED BY <2>1, <2>2
  <1>. QED BY <1>2, <1>3, <1>4 DEF TypeOK, Send, output, events,
              closing, control, chain, commits

LEMMA AckTypes ==
  ASSUME TypeOK, NEW n \in Nat, Ack(n) \/ AckEvents(n)
  PROVE  TypeOK'
  <1>1. Max({ack_cursor, n}) \in Nat /\ Max({event_ack, n}) \in Nat
    BY MaxOfTwo DEF TypeOK
  <1>2. AckedOutputs(event_log, Max({event_ack, n}), ack_cursor) \in Nat
    BY <1>1, AckedOutputsType DEF TypeOK
  <1>3. \A m \in Nat : Evict(out_buffer, m) \in Seq(Nat)
    BY EvictType DEF TypeOK
  <1>4. \A m \in Nat : EvictEvents(event_log, m) \in Seq(EventRecord)
    BY EvictEventsType DEF TypeOK
  <1>5. CASE Ack(n)
    BY <1>1, <1>3, <1>5 DEF TypeOK, Ack, inbox, events, closing, control, chain,
       commits, ghosts
  <1>6. CASE AckEvents(n)
    BY <1>1, <1>2, <1>3, <1>4, <1>6 DEF TypeOK, AckEvents, inbox, closing,
       control, chain, commits, ghosts
  <1>. QED BY <1>5, <1>6

LEMMA RehydrateType ==
  ASSUME TypeOK, Rehydrate
  PROVE  TypeOK'
  <1>a. \A c \in Channels :
          /\ inp.inbox[c] \in Seq(Item)
          /\ inp.consumed_seq[c] \in Nat /\ consumed_seq[c] \in Nat
    BY DEF TypeOK, Carried
  <1>b. /\ inp.out_buffer \in Seq(Nat) /\ inp.out_seq \in Nat
        /\ inp.ack_cursor \in Nat /\ inp.event_log \in Seq(EventRecord)
        /\ inp.event_seq \in Nat /\ inp.event_ack \in Nat
        /\ inp.closed \in BOOLEAN /\ inp.close_reason \in Reasons
        /\ inp.carrier \in Nat /\ inp.state_cursor \in Nat
        /\ out_seq \in Nat /\ close_reason \in Reasons
    BY DEF TypeOK, Carried
  <1>1. pending' \in [Channels -> Seq(Item)]
    <2>1. \A c \in Channels : inp.inbox[c] \o Restamped(c) \in Seq(Item)
      BY <1>a, RestampedType
    <2>. QED BY <2>1 DEF Rehydrate
  <1>2. in_seq' \in [Channels -> Nat]
    <2>1. \A c \in Channels : HighWater(c) + Cardinality(Stale(c)) \in Nat
      BY RestampedType
    <2>. QED BY <2>1 DEF Rehydrate
  <1>3. consumed_seq' \in [Channels -> Nat]
    <2>1. \A c \in Channels : Max({inp.consumed_seq[c], consumed_seq[c]}) \in Nat
      BY <1>a, MaxOfTwo
    <2>. QED BY <2>1 DEF Rehydrate
  <1>4. idempotency_index' \in [Channels -> [Keys -> Nat]]
        /\ idempotency_fp' \in [Channels -> [Keys -> Values \cup {None}]]
    BY MergedTypes DEF Rehydrate
  <1>5. out_seq' \in Nat
    BY <1>b, MaxOfTwo DEF Rehydrate
  <1>6. ack_cursor' \in Nat
    BY <1>b, AckedOutputsType DEF Rehydrate
  <1>7. out_buffer' \in Seq(Nat)
    BY <1>b, <1>6, EvictType DEF Rehydrate
  <1>8. event_log' \in Seq(EventRecord)
    BY <1>b, EvictEventsType DEF Rehydrate
  <1>9. event_seq' \in Nat
    BY <1>b, HighestRecordType DEF Rehydrate
  <1>10. event_ack' \in Nat /\ closed' \in BOOLEAN /\ close_reason' \in Reasons
         /\ carrier' \in Nat /\ state_cursor' \in Nat
         /\ capacity' \in {Unset, Capacity} /\ pc' \in PCs
    BY <1>b DEF Rehydrate, PCs
  <1>. QED BY <1>1, <1>2, <1>3, <1>4, <1>5, <1>6, <1>7, <1>8, <1>9, <1>10
           DEF TypeOK, Rehydrate, commits, ghosts

LEMMA TakeType ==
  ASSUME TypeOK, NEW c \in Channels, NEW next \in PCs, Take(c, next)
  PROVE  TypeOK'
  <1>1. <<Record("started")>> \in Seq(Unnumbered)
    BY RecordTypes DEF TypeOK, Kinds
  <1>2. event_log' \in Seq(EventRecord) /\ event_seq' \in Nat /\ event_ack' \in Nat
    BY <1>1, AppendEventsType DEF TypeOK, Take
  <1>3. pending[c] \in Seq(Item) /\ pending[c] # <<>>
    BY DEF TypeOK, Take
  <1>4. Head(pending[c]) \in Item /\ Tail(pending[c]) \in Seq(Item)
    BY <1>3
  <1>5. pending' \in [Channels -> Seq(Item)] /\ consumed_seq' \in [Channels -> Nat]
        /\ consumed' \in [Channels -> Nat]
    <2>1. /\ pending \in [Channels -> Seq(Item)]
          /\ consumed_seq \in [Channels -> Nat] /\ consumed \in [Channels -> Nat]
      BY DEF TypeOK
    <2>2. Head(pending[c]).seq \in Nat /\ consumed[c] + 1 \in Nat
      BY <1>4, <2>1 DEF Item
    <2>3. /\ pending' = [pending EXCEPT ![c] = Tail(pending[c])]
          /\ consumed_seq' = [consumed_seq EXCEPT ![c] = Head(pending[c]).seq]
          /\ consumed' = [consumed EXCEPT ![c] = consumed[c] + 1]
      BY DEF Take
    <2>. QED BY <1>4, <2>1, <2>2, <2>3
  <1>. QED BY <1>2, <1>5 DEF TypeOK, Take, output, closing, chain, commits

LEMMA GotoType ==
  ASSUME TypeOK, NEW from, NEW to \in PCs, Goto(from, to)
  PROVE  TypeOK'
  BY DEF TypeOK, Goto, inbox, output, events, closing, chain, commits, ghosts

(* What ends a wait without a message, and what starts one again.          *)
LEMMA WaitTypes ==
  ASSUME TypeOK, Quiesce \/ Timeout \/ Resume \/ Close
  PROVE  TypeOK'
  <1>1. ClosedOnce \in Seq(Unnumbered)
    BY RecordTypes DEF TypeOK, Kinds
  <1>2. CASE Quiesce
    <2>1. event_log' \in Seq(EventRecord) /\ event_seq' \in Nat
          /\ event_ack' \in Nat
      BY <1>1, <1>2, AppendEventsType DEF TypeOK, Quiesce
    <2>. QED BY <1>2, <2>1 DEF TypeOK, Quiesce, inbox, output, chain, commits,
             ghosts, PCs
  <1>3. CASE Timeout
    BY <1>3 DEF TypeOK, Timeout, Awaited, Channels, inbox, output, events,
       closing, chain, commits, ghosts, PCs
  <1>4. CASE Resume
    BY <1>4 DEF TypeOK, Resume, inbox, output, events, closing, chain, commits,
       ghosts, PCs
  <1>5. CASE Close
    BY <1>5 DEF TypeOK, Close, inbox, output, events, control, chain, commits,
       ghosts, Reasons
  <1>. QED BY <1>2, <1>3, <1>4, <1>5

LEMMA PutOutputType ==
  ASSUME TypeOK, PutOutput
  PROVE  out_seq' \in Nat /\ out_buffer' \in Seq(Nat) /\ ack_cursor' \in Nat
  BY DEF TypeOK, PutOutput

LEMMA EmitType ==
  ASSUME TypeOK, Emit
  PROVE  TypeOK'
  <1>1. out_seq' \in Nat /\ out_buffer' \in Seq(Nat) /\ ack_cursor' \in Nat
    BY PutOutputType DEF Emit
  <1>2. <<EmitRecord(out_seq')>> \in Seq(Unnumbered)
    BY <1>1, RecordTypes DEF TypeOK, Kinds
  <1>3. event_log' \in Seq(EventRecord) /\ event_seq' \in Nat /\ event_ack' \in Nat
    BY <1>2, AppendEventsType DEF TypeOK, Emit
  <1>. QED BY <1>1, <1>3 DEF TypeOK, Emit, inbox, closing, chain, commits,
           ghosts, PCs

(* The end of a turn, for the variables that AfterTurn decides.            *)
LEMMA AfterTurnType ==
  ASSUME TypeOK, NEW records \in Seq(Unnumbered), AfterTurn(records),
         carrier' \in Nat, out_seq' \in Nat, out_buffer' \in Seq(Nat),
         ack_cursor' \in Nat
  PROVE  TypeOK'
  <1>1. records \o ClosedOnce \in Seq(Unnumbered)
    <2>1. ClosedOnce \in Seq(Unnumbered)
      BY RecordTypes DEF TypeOK, Kinds
    <2>. QED BY <2>1
  <1>2. event_log' \in Seq(EventRecord) /\ event_seq' \in Nat /\ event_ack' \in Nat
    BY <1>1, AppendEventsType DEF TypeOK, AfterTurn
  <1>3. /\ closed' \in BOOLEAN /\ close_reason' \in Reasons
        /\ closed_event_sent' \in BOOLEAN /\ turn_started' \in BOOLEAN
        /\ pc' \in PCs /\ attempt' \in 0..CommitAttempts /\ answer' \in Nat
    <2>1. 0 \in 0..CommitAttempts
      OBVIOUS
    <2>2. turn_started' = FALSE
      BY DEF AfterTurn
    <2>3. CASE pc' = "done" /\ closed' = TRUE /\ close_reason' = "over_budget"
               /\ closed_event_sent' = TRUE /\ UNCHANGED <<attempt, answer>>
      BY <2>2, <2>3 DEF TypeOK, Reasons, PCs
    <2>4. CASE pc' = "commit" /\ attempt' = 0 /\ answer' = NoAnswer
               /\ UNCHANGED closing
      BY <2>1, <2>2, <2>4 DEF TypeOK, closing, PCs, NoAnswer
    <2>5. CASE pc' = "recv" /\ UNCHANGED <<closing, attempt, answer>>
      BY <2>2, <2>5 DEF TypeOK, closing, PCs
    <2>. QED BY <2>3, <2>4, <2>5 DEF AfterTurn
  <1>. QED BY <1>2, <1>3 DEF TypeOK, AfterTurn, inbox, chain, ghosts

LEMMA TurnTypes ==
  ASSUME TypeOK, TurnDone \/ \E from \in PCs : FailTurn(from)
  PROVE  TypeOK'
  <1>1. DoneIfStarted \in Seq(Unnumbered)
    BY RecordTypes DEF TypeOK, Kinds
  <1>2. CASE TurnDone
    <2>1. carrier' \in Nat
      BY <1>2 DEF TypeOK, TurnDone
    <2>2. CASE AfterTurn(DoneIfStarted) /\ UNCHANGED output
      BY <1>1, <2>1, <2>2, AfterTurnType DEF TypeOK, output
    <2>3. CASE PutOutput /\ AfterTurn(<<EmitRecord(out_seq')>> \o DoneIfStarted)
      <3>1. out_seq' \in Nat /\ out_buffer' \in Seq(Nat) /\ ack_cursor' \in Nat
        BY <2>3, PutOutputType
      <3>2. <<EmitRecord(out_seq')>> \in Seq(Unnumbered)
        BY <3>1, RecordTypes DEF TypeOK, Kinds
      <3>3. <<EmitRecord(out_seq')>> \o DoneIfStarted \in Seq(Unnumbered)
        BY <1>1, <3>2
      <3>. QED BY <2>1, <2>3, <3>1, <3>3, AfterTurnType
    <2>. QED BY <1>2, <2>2, <2>3 DEF TurnDone
  <1>3. CASE \E from \in PCs : FailTurn(from)
    <2>1. <<Record("error")>> \in Seq(Unnumbered)
      BY RecordTypes DEF TypeOK, Kinds
    <2>2. <<Record("error")>> \o DoneIfStarted \in Seq(Unnumbered)
      BY <1>1, <2>1
    <2>. QED BY <1>3, <2>2, AfterTurnType DEF TypeOK, FailTurn, output
  <1>. QED BY <1>2, <1>3

LEMMA FatalErrorType ==
  ASSUME TypeOK, NEW from, FailSession(from)
  PROVE  TypeOK'
  <1>1. <<Record("error")>> \in Seq(Unnumbered) /\ ClosedOnce \in Seq(Unnumbered)
    BY RecordTypes DEF TypeOK, Kinds
  <1>2. <<Record("error")>> \o ClosedOnce \in Seq(Unnumbered)
    BY <1>1
  <1>3. event_log' \in Seq(EventRecord) /\ event_seq' \in Nat /\ event_ack' \in Nat
    BY <1>2, AppendEventsType DEF TypeOK, FailSession
  <1>. QED BY <1>3 DEF TypeOK, FailSession, inbox, output, chain, commits, ghosts,
           PCs, Reasons

LEMMA CommitTypes ==
  ASSUME TypeOK, IssueCommit \/ \E request \in inflight : RunCommit(request)
  PROVE  TypeOK'
  <1>1. CASE IssueCommit
    <2>1. attempt + 1 \in Nat /\ attempt + 1 <= CommitAttempts
      BY <1>1 DEF TypeOK, IssueCommit
    <2>2. attempt' \in 0..CommitAttempts
      BY <1>1, <2>1 DEF IssueCommit
    <2>3. [base |-> state_cursor, value |-> carrier, try |-> attempt + 1]
            \in [base : Nat, value : Nat, try : Nat]
      BY <2>1 DEF TypeOK
    <2>4. inflight' \subseteq [base : Nat, value : Nat, try : Nat]
      BY <1>1, <2>3 DEF TypeOK, IssueCommit
    <2>. QED BY <1>1, <2>2, <2>4 DEF TypeOK, IssueCommit, inbox, output, events,
             closing, control, chain, ghosts
  <1>2. ASSUME NEW request \in inflight, RunCommit(request)
        PROVE  TypeOK'
    <2>1. request.base \in Nat /\ request.value \in Nat
      BY DEF TypeOK
    <2>2. store \in Seq([base : Nat, value : Nat]) /\ Len(store) \in Nat
          /\ DOMAIN store = 1..Len(store)
      BY DEF TypeOK
    <2>3. CommitLog(store, request.base, request.value)
            \in Seq([base : Nat, value : Nat])
      <3>1. [base |-> request.base, value |-> request.value]
              \in [base : Nat, value : Nat]
        BY <2>1
      <3>2. Append(store, [base |-> request.base, value |-> request.value])
              \in Seq([base : Nat, value : Nat])
        BY <2>2, <3>1
      <3>. QED BY <2>2, <3>2 DEF CommitLog
    <2>4. CommitCursor(store, request.base, request.value) \in Nat
      <3>. DEFINE R == Replays(store, request.base, request.value)
      <3>1. R \subseteq Nat
        BY <2>2 DEF Replays
      <3>2. CASE R = {}
        BY <2>2, <3>2 DEF CommitCursor, Head0
      <3>3. CASE R # {}
        <4>. HIDE DEF R
        <4>1. \E i \in R : \A j \in R : i <= j
          BY <3>1, <3>3, LeastNumber
        <4>2. (CHOOSE i \in R : \A j \in R : i <= j) \in R
          BY <4>1
        <4>. QED BY <3>1, <3>3, <4>2 DEF CommitCursor, R
      <3>. QED BY <3>2, <3>3
    <2>5. answer' \in Nat
      BY <1>2, <2>4 DEF RunCommit, TypeOK
    <2>6. store' \in Seq([base : Nat, value : Nat])
          /\ inflight' \subseteq [base : Nat, value : Nat, try : Nat]
      BY <1>2, <2>3 DEF RunCommit, TypeOK
    <2>. QED BY <1>2, <2>5, <2>6 DEF TypeOK, RunCommit, inbox, output, events,
             closing, control, chain, ghosts
  <1>. QED BY <1>1, <1>2

LEMMA ContinueAsNewType ==
  ASSUME TypeOK, ContinueAsNew
  PROVE  TypeOK'
  <1>1. /\ Empty \in [Channels -> Seq(Item)] /\ Zero \in [Channels -> Nat]
        /\ NoIndex \in [Channels -> [Keys -> Nat]]
        /\ NoFp \in [Channels -> [Keys -> Values \cup {None}]]
    BY DEF Empty, Zero, NoIndex, NoFp
  <1>2. CarriedInput \in Carried
    BY DEF TypeOK, CarriedInput, Carried
  <1>3. <<>> \in Seq(Nat) /\ <<>> \in Seq(EventRecord) /\ 0 \in 0..CommitAttempts
    OBVIOUS
  <1>4. /\ store' \in Seq([base : Nat, value : Nat])
        /\ inflight' \subseteq [base : Nat, value : Nat, try : Nat]
        /\ accepted' \in [Channels -> Nat] /\ consumed' \in [Channels -> Nat]
        /\ inp' \in Carried /\ segment' \in Nat
    BY <1>2 DEF TypeOK, ContinueAsNew, ghosts
  <1>5. /\ pending' \in [Channels -> Seq(Item)] /\ in_seq' \in [Channels -> Nat]
        /\ consumed_seq' \in [Channels -> Nat]
        /\ idempotency_index' \in [Channels -> [Keys -> Nat]]
        /\ idempotency_fp' \in [Channels -> [Keys -> Values \cup {None}]]
    BY <1>1 DEF ContinueAsNew
  <1>6. /\ out_buffer' \in Seq(Nat) /\ out_seq' \in Nat /\ ack_cursor' \in Nat
        /\ event_log' \in Seq(EventRecord) /\ event_seq' \in Nat
        /\ event_ack' \in Nat /\ closed' \in BOOLEAN /\ close_reason' \in Reasons
        /\ closed_event_sent' \in BOOLEAN
    BY <1>3 DEF ContinueAsNew, Reasons
  <1>7. /\ capacity' \in {Unset, Capacity} /\ pc' \in PCs /\ parked' \in Channels
        /\ turn_started' \in BOOLEAN /\ carrier' \in Nat /\ state_cursor' \in Nat
        /\ attempt' \in 0..CommitAttempts /\ answer' \in Nat
    BY <1>3 DEF ContinueAsNew, PCs, Channels, NoAnswer
  <1>. QED BY <1>4, <1>5, <1>6, <1>7 DEF TypeOK

LEMMA NextType == TypeOK /\ [Next]_vars => TypeOK'
  <1>. SUFFICES ASSUME TypeOK, [Next]_vars PROVE TypeOK'
    OBVIOUS
  <1>1. CASE UNCHANGED vars
    BY <1>1 DEF TypeOK, vars, inbox, output, events, closing, control, chain,
       commits, ghosts
  <1>2. CASE WorkflowStep
    <2>1. CASE Rehydrate
      BY <2>1, RehydrateType
    <2>2. CASE Recv \/ GateAnswered
      BY <2>2, TakeType DEF Recv, GateAnswered, Channels, PCs
    <2>3. CASE Quiesce \/ Resume
      BY <2>3, WaitTypes
    <2>4. CASE AskHuman \/ StartEmit \/ StartFinalEmit
      BY <2>4, GotoType DEF AskHuman, StartEmit, StartFinalEmit, PCs
    <2>5. CASE Emit
      BY <2>5, EmitType
    <2>6. CASE TurnDone \/ TurnError
      BY <2>6, TurnTypes DEF TurnError, PCs
    <2>7. CASE FatalError
      BY <2>7, FatalErrorType DEF FatalError
    <2>8. CASE ContinueAsNew
      BY <2>8, ContinueAsNewType
    <2>. QED BY <1>2, <2>1, <2>2, <2>3, <2>4, <2>5, <2>6, <2>7, <2>8
             DEF WorkflowStep
  <1>3. CASE ActivityStep
    <2>1. CASE IssueCommit \/ \E request \in inflight : RunCommit(request)
      BY <2>1, CommitTypes
    <2>2. CASE CommitFails \/ ActivityFails
      BY <2>2, GotoType DEF CommitFails, ActivityFails, PCs
    <2>. QED BY <1>3, <2>1, <2>2 DEF ActivityStep
  <1>4. CASE Timeout
    BY <1>4, WaitTypes
  <1>5. CASE ClientStep
    <2>1. ASSUME NEW c \in Used, NEW key \in Keys \cup {None},
                 NEW value \in Values, Send(c, key, value)
          PROVE  TypeOK'
      <3>1. c \in Channels
        BY DEF Used, Channels
      <3>. QED BY <2>1, <3>1, SendType
    <2>2. CASE Close
      BY <2>2, WaitTypes
    <2>3. ASSUME NEW n \in Nat, Ack(n) \/ AckEvents(n)
          PROVE  TypeOK'
      BY <2>3, AckTypes
    <2>4. Emitted \in Nat /\ Shown \in Nat
      BY DEF TypeOK, Carried, Emitted, Shown
    <2>5. 1..Emitted \subseteq Nat /\ 1..Shown \subseteq Nat
      BY <2>4
    <2>. QED BY <1>5, <2>1, <2>2, <2>3, <2>5 DEF ClientStep
  <1>6. CASE BeforeRecv
    <2>1. AskBeforeRecv \/ FailTurn("recv") \/ FailSession("recv")
            \/ Goto("recv", "failed")
      BY <1>6 DEF BeforeRecv, FailsBeforeRecv
    <2>2. {"recv", "ask", "failed"} \subseteq PCs
      BY DEF PCs
    <2>. QED BY <2>1, <2>2, GotoType, TurnTypes, FatalErrorType DEF AskBeforeRecv
  <1>. QED BY <1>1, <1>2, <1>3, <1>4, <1>5, <1>6 DEF Next

(* The state of every execution, and what it carries to the next, keeps its*)
(* types through all of the handlers and of run().                         *)
THEOREM TypeCorrect == Spec => []TypeOK
  BY InitType, NextType, PTL DEF Spec

(***************************************************************************)
(* The inbox.  What makes it inductive is that only a booting execution has*)
(* not read its capacity yet: a body that takes a message, or a turn that  *)
(* ends in continue-as-new, sees the merged queues.                        *)
(***************************************************************************)
Booting ==
  /\ pc = "boot" => ~Rehydrated
  /\ pc \notin {"boot", "failed"} => Rehydrated

IInv == TypeOK /\ Booting /\ InboxFIFO

LEMMA InboxType ==
  ASSUME TypeOK, NEW c \in Channels
  PROVE  /\ Inbox(c) \in Seq(Item) /\ pending[c] \in Seq(Item)
         /\ inp.inbox[c] \in Seq(Item)
         /\ accepted[c] \in Nat /\ consumed[c] \in Nat
  <1>1. pending[c] \in Seq(Item) /\ inp \in Carried
        /\ accepted[c] \in Nat /\ consumed[c] \in Nat
    BY DEF TypeOK
  <1>2. inp.inbox[c] \in Seq(Item)
    BY <1>1 DEF Carried
  <1>. QED BY <1>1, <1>2 DEF Inbox

LEMMA InitInv == Init => IInv
  <1>. SUFFICES ASSUME Init PROVE Booting /\ InboxFIFO
    BY InitType DEF IInv
  <1>1. Booting
    BY DEF Init, Booting, Rehydrated, Unset
  <1>2. \A c \in Channels : Inbox(c) = <<>> /\ accepted[c] = 0 /\ consumed[c] = 0
    BY DEF Init, Inbox, Rehydrated, Unset, Zero, Empty, FirstInput
  <1>. QED BY <1>1, <1>2 DEF InboxFIFO

(* A send appends its message to the inbox, behind the carried ones if the *)
(* execution is still booting.                                             *)
LEMMA SendInbox ==
  ASSUME IInv, NEW c \in Channels, NEW key \in Keys \cup {None},
         NEW value \in Values, Send(c, key, value)
  PROVE  /\ \E item \in Item : Inbox(c)' = Append(Inbox(c), item)
                               /\ item.id = accepted[c] + 1
         /\ accepted' = [accepted EXCEPT ![c] = @ + 1] /\ consumed' = consumed
         /\ \A d \in Channels \ {c} : Inbox(d)' = Inbox(d)
  <1>. DEFINE item == [id |-> accepted[c] + 1, seq |-> in_seq[c] + 1,
                       key |-> key, val |-> value]
  <1>1. item \in Item /\ item.id = accepted[c] + 1
    <2>1. in_seq \in [Channels -> Nat] /\ accepted \in [Channels -> Nat]
      BY DEF IInv, TypeOK
    <2>2. in_seq[c] + 1 \in Nat /\ accepted[c] + 1 \in Nat
      BY <2>1
    <2>. QED BY <2>2 DEF Item
  <1>2. pending' = [pending EXCEPT ![c] = Append(pending[c], item)]
        /\ UNCHANGED <<inp, capacity, consumed>>
        /\ accepted' = [accepted EXCEPT ![c] = @ + 1]
    BY DEF Send, chain
  <1>. HIDE DEF item
  <1>3. pending \in [Channels -> Seq(Item)] /\ inp.inbox[c] \in Seq(Item)
        /\ pending[c] \in Seq(Item)
    BY InboxType DEF IInv, TypeOK
  <1>4. pending'[c] = Append(pending[c], item)
        /\ \A d \in Channels \ {c} : pending'[d] = pending[d]
    BY <1>2, <1>3
  <1>5. inp.inbox[c] \o Append(pending[c], item)
          = Append(inp.inbox[c] \o pending[c], item)
    <2>. DEFINE a == inp.inbox[c]
                b == pending[c]
    <2>1. a \in Seq(Item) /\ b \in Seq(Item) /\ item \in Item
      BY <1>1, <1>3
    <2>. HIDE DEF a, b
    <2>2. a \o Append(b, item) = Append(a \o b, item)
      BY <2>1, AppendBehind
    <2>. QED BY <2>2 DEF a, b
  <1>6. Inbox(c)' = Append(Inbox(c), item)
    BY <1>2, <1>4, <1>5 DEF Inbox, Rehydrated
  <1>7. \A d \in Channels \ {c} : Inbox(d)' = Inbox(d)
    BY <1>2, <1>4 DEF Inbox, Rehydrated
  <1>. QED BY <1>1, <1>2, <1>6, <1>7

LEMMA TakeInbox ==
  ASSUME IInv, NEW c \in Channels, NEW next, Take(c, next),
         pc \in {"recv", "gate", "ask"}, next \notin {"boot", "failed"}
  PROVE  /\ Inbox(c) # <<>> /\ Inbox(c)' = Tail(Inbox(c))
         /\ consumed' = [consumed EXCEPT ![c] = @ + 1] /\ accepted' = accepted
         /\ \A d \in Channels \ {c} : Inbox(d)' = Inbox(d)
  <1>1. Rehydrated /\ Rehydrated'
    BY DEF IInv, Booting, Take, chain, Rehydrated
  <1>2. pending \in [Channels -> Seq(Item)]
    BY DEF IInv, TypeOK
  <1>3. pending'[c] = Tail(pending[c]) /\ pending[c] # <<>>
        /\ \A d \in Channels \ {c} : pending'[d] = pending[d]
    BY <1>2 DEF Take
  <1>. QED BY <1>1, <1>3 DEF Inbox, Take

(* _rehydrate renumbers, but neither drops nor reorders.                   *)
LEMMA RehydrateInbox ==
  ASSUME IInv, Rehydrate, NEW c \in Channels
  PROVE  /\ Len(Inbox(c)') = Len(Inbox(c))
         /\ \A i \in 1..Len(Inbox(c)) : Inbox(c)'[i].id = Inbox(c)[i].id
         /\ Inbox(c)' \in Seq(Item)
  <1>1. ~Rehydrated /\ Rehydrated'
    BY DEF IInv, Booting, Rehydrate, Rehydrated, Unset
  <1>2. Inbox(c) = inp.inbox[c] \o pending[c]
        /\ Inbox(c)' = inp.inbox[c] \o Restamped(c)
    BY <1>1 DEF Inbox, Rehydrate
  <1>3. /\ pending[c] \in Seq(Item) /\ inp.inbox[c] \in Seq(Item)
        /\ Restamped(c) \in Seq(Item) /\ Len(Restamped(c)) = Len(pending[c])
        /\ \A i \in DOMAIN pending[c] : Restamped(c)[i].id = pending[c][i].id
    BY InboxType, RestampedType DEF IInv
  <1>. DEFINE old == inp.inbox[c] \o pending[c]
              new == inp.inbox[c] \o Restamped(c)
  <1>4. /\ old \in Seq(Item) /\ new \in Seq(Item) /\ Len(new) = Len(old)
        /\ DOMAIN pending[c] = 1..Len(pending[c])
    <2>1. DOMAIN pending[c] = 1..Len(pending[c])
      BY <1>3
    <2>. DEFINE a == inp.inbox[c]
                b == pending[c]
                d == Restamped(c)
    <2>2. a \in Seq(Item) /\ b \in Seq(Item) /\ d \in Seq(Item)
          /\ Len(b) = Len(d)
      BY <1>3
    <2>3. old = a \o b /\ new = a \o d
      OBVIOUS
    <2>. HIDE DEF a, b, d, old, new
    <2>4. /\ a \o b \in Seq(Item) /\ Len(a \o b) = Len(a) + Len(b)
          /\ a \o d \in Seq(Item) /\ Len(a \o d) = Len(a) + Len(d)
      BY <2>2, ConcatProperties
    <2>. QED BY <2>1, <2>2, <2>3, <2>4
  <1>5. ASSUME NEW i \in 1..Len(old)
        PROVE  new[i].id = old[i].id
    <2>1. \/ i \in 1..Len(inp.inbox[c]) /\ old[i] = inp.inbox[c][i]
          \/ /\ i - Len(inp.inbox[c]) \in 1..Len(pending[c])
             /\ i > Len(inp.inbox[c])
             /\ old[i] = pending[c][i - Len(inp.inbox[c])]
      <3>. DEFINE a == inp.inbox[c]
                  b == pending[c]
      <3>1. a \in Seq(Item) /\ b \in Seq(Item) /\ i \in 1..Len(a \o b)
            /\ old = a \o b
        BY <1>3
      <3>2. \/ i \in 1..Len(a) /\ (a \o b)[i] = a[i]
            \/ i - Len(a) \in 1..Len(b) /\ i > Len(a) /\ (a \o b)[i] = b[i - Len(a)]
        <4>. HIDE DEF a, b
        <4>. QED BY <3>1, ConcatElement
      <3>. QED BY <3>1, <3>2
    <2>2. \/ i \in 1..Len(inp.inbox[c]) /\ new[i] = inp.inbox[c][i]
          \/ /\ i - Len(inp.inbox[c]) \in 1..Len(pending[c])
             /\ i > Len(inp.inbox[c])
             /\ new[i] = Restamped(c)[i - Len(inp.inbox[c])]
      <3>1. i \in 1..Len(new)
        BY <1>4
      <3>. QED BY <1>3, <3>1, ConcatElement
    <2>3. Len(inp.inbox[c]) \in Nat
      BY <1>3
    <2>. HIDE DEF old, new
    <2>4. CASE i <= Len(inp.inbox[c])
      BY <2>1, <2>2, <2>3, <2>4
    <2>5. CASE i > Len(inp.inbox[c])
      <3>. DEFINE j == i - Len(inp.inbox[c])
      <3>1. old[i] = pending[c][j] /\ new[i] = Restamped(c)[j]
            /\ j \in DOMAIN pending[c]
        BY <1>4, <2>1, <2>2, <2>3, <2>5
      <3>. HIDE DEF j
      <3>. QED BY <1>3, <3>1
    <2>. QED BY <2>3, <2>4, <2>5
  <1>. QED BY <1>2, <1>4, <1>5

LEMMA ContinueAsNewInbox ==
  ASSUME IInv, ContinueAsNew, NEW c \in Channels
  PROVE  Inbox(c)' = Inbox(c)
  <1>1. Rehydrated /\ ~Rehydrated'
    BY DEF IInv, Booting, ContinueAsNew, Rehydrated, Unset
  <1>2. inp'.inbox[c] = pending[c] /\ pending'[c] = <<>>
    BY DEF ContinueAsNew, CarriedInput, Empty
  <1>3. pending[c] \o <<>> = pending[c]
    BY InboxType DEF IInv
  <1>. QED BY <1>1, <1>2, <1>3 DEF Inbox

(***************************************************************************)
(* Every step, seen from the inbox.  The invariant and the refinement both *)
(* follow from this.                                                       *)
(***************************************************************************)
Sends(c) ==
  /\ \E item \in Item : Inbox(c)' = Append(Inbox(c), item)
                        /\ item.id = accepted[c] + 1
  /\ accepted' = [accepted EXCEPT ![c] = @ + 1] /\ consumed' = consumed
  /\ \A d \in Channels \ {c} : Inbox(d)' = Inbox(d)

Takes(c) ==
  /\ Inbox(c) # <<>> /\ Inbox(c)' = Tail(Inbox(c))
  /\ consumed' = [consumed EXCEPT ![c] = @ + 1] /\ accepted' = accepted
  /\ \A d \in Channels \ {c} : Inbox(d)' = Inbox(d)

Keeps ==
  /\ accepted' = accepted /\ consumed' = consumed
  /\ \A c \in Channels :
       /\ Inbox(c)' \in Seq(Item) /\ Len(Inbox(c)') = Len(Inbox(c))
       /\ \A i \in 1..Len(Inbox(c)) : Inbox(c)'[i].id = Inbox(c)[i].id

LEMMA UntouchedInbox ==
  ASSUME IInv, UNCHANGED <<pending, accepted, consumed, inp, capacity>>
  PROVE  Keeps
  <1>1. \A c \in Channels : Inbox(c)' = Inbox(c) /\ Inbox(c) \in Seq(Item)
    BY InboxType DEF IInv, Inbox, Rehydrated
  <1>. QED BY <1>1 DEF Keeps

LEMMA InboxStep ==
  ASSUME IInv, [Next]_vars
  PROVE  Keeps \/ \E c \in Channels : Sends(c) \/ Takes(c)
  <1>1. CASE UNCHANGED vars
    BY <1>1, UntouchedInbox DEF vars, inbox, chain, ghosts
  <1>2. CASE WorkflowStep
    <2>1. CASE Rehydrate
      <3>1. accepted' = accepted /\ consumed' = consumed
        BY <2>1 DEF Rehydrate, ghosts
      <3>. QED BY <2>1, <3>1, RehydrateInbox DEF Keeps
    <2>2. CASE Recv \/ GateAnswered
      BY <2>2, TakeInbox DEF Recv, GateAnswered, Takes, Channels
    <2>3. CASE Quiesce \/ Resume
      BY <2>3, UntouchedInbox DEF Quiesce, Resume, inbox, chain, ghosts
    <2>4. CASE AskHuman \/ StartEmit \/ StartFinalEmit
      BY <2>4, UntouchedInbox DEF AskHuman, StartEmit, StartFinalEmit, Goto,
         inbox, chain, ghosts
    <2>5. CASE Emit \/ TurnDone \/ TurnError \/ FatalError
      BY <2>5, UntouchedInbox DEF Emit, TurnDone, TurnError, FatalError, FailTurn,
         FailSession, AfterTurn, inbox, chain, ghosts
    <2>6. CASE ContinueAsNew
      <3>1. accepted' = accepted /\ consumed' = consumed
        BY <2>6 DEF ContinueAsNew, ghosts
      <3>2. \A c \in Channels : Inbox(c)' = Inbox(c) /\ Inbox(c) \in Seq(Item)
        BY <2>6, ContinueAsNewInbox, InboxType DEF IInv
      <3>. QED BY <3>1, <3>2 DEF Keeps
    <2>. QED BY <1>2, <2>1, <2>2, <2>3, <2>4, <2>5, <2>6 DEF WorkflowStep
  <1>3. CASE ActivityStep
    BY <1>3, UntouchedInbox DEF ActivityStep, IssueCommit, CommitFails,
       ActivityFails, RunCommit, Goto, inbox, chain, ghosts
  <1>4. CASE Timeout
    BY <1>4, UntouchedInbox DEF Timeout, inbox, chain, ghosts
  <1>5. CASE ClientStep
    <2>1. ASSUME NEW c \in Used, NEW key \in Keys \cup {None},
                 NEW value \in Values, Send(c, key, value)
          PROVE  \E d \in Channels : Sends(d)
      <3>1. c \in Channels
        BY DEF Used, Channels
      <3>2. Sends(c)
        BY <2>1, <3>1, SendInbox DEF Sends
      <3>. QED BY <3>1, <3>2
    <2>2. CASE Close
      BY <2>2, UntouchedInbox DEF Close, inbox, chain, ghosts
    <2>3. ASSUME NEW n, Ack(n) \/ AckEvents(n)
          PROVE  Keeps
      BY <2>3, UntouchedInbox DEF Ack, AckEvents, inbox, chain, ghosts
    <2>. QED BY <1>5, <2>1, <2>2, <2>3 DEF ClientStep
  <1>6. CASE BeforeRecv
    BY <1>6, UntouchedInbox DEF BeforeRecv, AskBeforeRecv, FailsBeforeRecv,
       FailTurn, FailSession, AfterTurn, Goto, inbox, chain, ghosts
  <1>. QED BY <1>1, <1>2, <1>3, <1>4, <1>5, <1>6 DEF Next

LEMMA NextBooting ==
  ASSUME IInv, [Next]_vars
  PROVE  Booting'
  <1>. USE DEF IInv, Booting, Rehydrated, Unset
  <1>1. CASE UNCHANGED vars
    BY <1>1 DEF vars, control, chain
  <1>2. CASE WorkflowStep
    <2>1. CASE Rehydrate \/ ContinueAsNew
      BY <2>1 DEF Rehydrate, ContinueAsNew
    <2>2. CASE Recv \/ GateAnswered \/ Quiesce \/ Resume
      BY <2>2 DEF Recv, GateAnswered, Take, Quiesce, Waiting, Resume, chain
    <2>3. CASE AskHuman \/ StartEmit \/ StartFinalEmit \/ Emit
      BY <2>3 DEF AskHuman, StartEmit, StartFinalEmit, Goto, Emit, chain
    <2>4. CASE TurnDone \/ TurnError \/ FatalError
      BY <2>4 DEF TurnDone, TurnError, FatalError, FailTurn, FailSession,
         AfterTurn, chain
    <2>. QED BY <1>2, <2>1, <2>2, <2>3, <2>4 DEF WorkflowStep
  <1>3. CASE ActivityStep
    <2>1. CASE IssueCommit \/ \E request \in inflight : RunCommit(request)
      BY <2>1 DEF IssueCommit, RunCommit, control, chain
    <2>2. CASE CommitFails \/ ActivityFails
      BY <2>2 DEF CommitFails, ActivityFails, Goto, chain
    <2>. QED BY <1>3, <2>1, <2>2 DEF ActivityStep
  <1>4. CASE Timeout
    BY <1>4 DEF Timeout, Waiting, chain
  <1>5. CASE ClientStep
    <2>1. UNCHANGED <<pc, capacity>>
      BY <1>5 DEF ClientStep, Send, Close, Ack, AckEvents, control, chain
    <2>. QED BY <2>1
  <1>6. CASE BeforeRecv
    BY <1>6 DEF BeforeRecv, AskBeforeRecv, FailsBeforeRecv, FailTurn, FailSession,
       AfterTurn, Goto, chain
  <1>. QED BY <1>1, <1>2, <1>3, <1>4, <1>5, <1>6 DEF Next

LEMMA NextFIFO ==
  ASSUME IInv, [Next]_vars
  PROVE  InboxFIFO'
  <1>. SUFFICES ASSUME NEW c \in Channels
                PROVE  /\ accepted'[c] = consumed'[c] + Len(Inbox(c)')
                       /\ \A i \in DOMAIN Inbox(c)' :
                            Inbox(c)'[i].id = consumed'[c] + i
    BY DEF InboxFIFO
  <1>1. /\ accepted[c] = consumed[c] + Len(Inbox(c))
        /\ \A i \in DOMAIN Inbox(c) : Inbox(c)[i].id = consumed[c] + i
    BY DEF IInv, InboxFIFO
  <1>2. Inbox(c) \in Seq(Item) /\ consumed[c] \in Nat /\ accepted[c] \in Nat
    BY InboxType DEF IInv
  <1>3. Len(Inbox(c)) \in Nat /\ DOMAIN Inbox(c) = 1..Len(Inbox(c))
    BY <1>2
  <1>4. accepted \in [Channels -> Nat] /\ consumed \in [Channels -> Nat]
    BY DEF IInv, TypeOK
  <1>5. CASE Keeps
    <2>1. /\ accepted' = accepted /\ consumed' = consumed
          /\ Inbox(c)' \in Seq(Item) /\ Len(Inbox(c)') = Len(Inbox(c))
          /\ \A i \in 1..Len(Inbox(c)) : Inbox(c)'[i].id = Inbox(c)[i].id
      BY <1>5 DEF Keeps
    <2>2. DOMAIN Inbox(c)' = 1..Len(Inbox(c))
      BY <2>1
    <2>. QED BY <1>1, <1>3, <2>1, <2>2
  <1>6. ASSUME NEW d \in Channels, Sends(d), c # d
        PROVE  Inbox(c)' = Inbox(c) /\ accepted'[c] = accepted[c]
               /\ consumed'[c] = consumed[c]
    BY <1>4, <1>6 DEF Sends
  <1>7. ASSUME NEW d \in Channels, Takes(d), c # d
        PROVE  Inbox(c)' = Inbox(c) /\ accepted'[c] = accepted[c]
               /\ consumed'[c] = consumed[c]
    BY <1>4, <1>7 DEF Takes
  <1>8. CASE Sends(c)
    <2>1. PICK item \in Item : Inbox(c)' = Append(Inbox(c), item)
                               /\ item.id = accepted[c] + 1
      BY <1>8 DEF Sends
    <2>2. accepted'[c] = accepted[c] + 1 /\ consumed'[c] = consumed[c]
      BY <1>4, <1>8 DEF Sends
    <2>3. /\ DOMAIN Inbox(c)' = 1..(Len(Inbox(c)) + 1)
          /\ Len(Inbox(c)') = Len(Inbox(c)) + 1
          /\ \A i \in 1..Len(Inbox(c)) : Inbox(c)'[i] = Inbox(c)[i]
          /\ Inbox(c)'[Len(Inbox(c)) + 1] = item
      BY <1>2, <2>1, AppendProperties
    <2>4. ASSUME NEW i \in 1..(Len(Inbox(c)) + 1)
          PROVE  Inbox(c)'[i].id = consumed[c] + i
      <3>1. CASE i \in 1..Len(Inbox(c))
        BY <1>1, <1>3, <2>3, <3>1
      <3>2. CASE i = Len(Inbox(c)) + 1
        <4>1. Inbox(c)'[i].id = accepted[c] + 1
          BY <2>1, <2>3, <3>2
        <4>. QED BY <1>1, <1>2, <1>3, <3>2, <4>1
      <3>. QED BY <1>3, <3>1, <3>2
    <2>. QED BY <1>1, <1>2, <1>3, <2>2, <2>3, <2>4
  <1>9. CASE Takes(c)
    <2>1. consumed'[c] = consumed[c] + 1 /\ accepted'[c] = accepted[c]
          /\ Inbox(c) # <<>> /\ Inbox(c)' = Tail(Inbox(c))
      BY <1>4, <1>9 DEF Takes
    <2>2. /\ Len(Inbox(c)') = Len(Inbox(c)) - 1
          /\ DOMAIN Inbox(c)' = 1..(Len(Inbox(c)) - 1)
          /\ \A i \in 1..(Len(Inbox(c)) - 1) : Inbox(c)'[i] = Inbox(c)[i + 1]
      BY <1>2, <2>1, HeadTailProperties
    <2>3. \A i \in 1..(Len(Inbox(c)) - 1) : i + 1 \in DOMAIN Inbox(c)
      BY <1>3
    <2>4. accepted'[c] = consumed'[c] + Len(Inbox(c)')
      BY <1>1, <1>2, <1>3, <2>1, <2>2
    <2>5. ASSUME NEW i \in 1..(Len(Inbox(c)) - 1)
          PROVE  Inbox(c)'[i].id = consumed'[c] + i
      <3>1. Inbox(c)'[i].id = consumed[c] + (i + 1)
        BY <1>1, <2>2, <2>3
      <3>2. i \in Nat
        BY <1>3
      <3>3. consumed[c] + (i + 1) = (consumed[c] + 1) + i
        BY <1>2, <3>2
      <3>. QED BY <2>1, <3>1, <3>3
    <2>. QED BY <2>2, <2>4, <2>5
  <1>. QED BY <1>1, <1>5, <1>6, <1>7, <1>8, <1>9, InboxStep

(* Acknowledged messages reach the body exactly once and in order, for any *)
(* number of messages, channels' capacity and continue-as-new.             *)
THEOREM InboxCorrect == Spec => []InboxFIFO
  <1>1. IInv /\ [Next]_vars => IInv'
    BY NextType, NextBooting, NextFIFO DEF IInv
  <1>2. IInv => InboxFIFO
    BY DEF IInv
  <1>. QED BY InitInv, <1>1, <1>2, PTL DEF Spec

(***************************************************************************)
(* Refinement of Mailbox.                                                  *)
(***************************************************************************)
IdsOK ==
  /\ InboxIds = [c \in Channels |-> InboxIds[c]]
  /\ \A c \in Channels :
       /\ InboxIds[c] \in Seq(Nat) /\ Len(InboxIds[c]) = Len(Inbox(c))
       /\ \A i \in 1..Len(Inbox(c)) : InboxIds[c][i] = Inbox(c)[i].id

LEMMA IdsOf == TypeOK => IdsOK
  <1>. SUFFICES ASSUME TypeOK, NEW c \in Channels
                PROVE  /\ InboxIds[c] \in Seq(Nat)
                       /\ Len(InboxIds[c]) = Len(Inbox(c))
                       /\ \A i \in 1..Len(Inbox(c)) :
                            InboxIds[c][i] = Inbox(c)[i].id
    BY DEF IdsOK, InboxIds
  <1>1. /\ Inbox(c) \in Seq(Item) /\ DOMAIN Inbox(c) = 1..Len(Inbox(c))
        /\ Len(Inbox(c)) \in Nat
    BY InboxType
  <1>2. \A i \in 1..Len(Inbox(c)) : Inbox(c)[i] \in Item
    BY <1>1
  <1>3. \A i \in 1..Len(Inbox(c)) : Inbox(c)[i].id \in Nat
    BY <1>2 DEF Item
  <1>4. InboxIds[c] = [i \in 1..Len(Inbox(c)) |-> Inbox(c)[i].id]
    BY <1>1 DEF InboxIds
  <1>. QED BY <1>1, <1>3, <1>4

LEMMA InitRefines == Init => Box!Init
  <1>. SUFFICES ASSUME Init PROVE Box!Init
    OBVIOUS
  <1>1. \A c \in Channels : Inbox(c) = <<>>
    BY DEF Init, Inbox, Rehydrated, Unset, Empty, FirstInput
  <1>2. InboxIds = [c \in Channels |-> <<>>]
    BY <1>1 DEF InboxIds
  <1>. QED BY <1>2 DEF Init, Zero, Box!Init

LEMMA StepRefines ==
  ASSUME IInv, TypeOK', [Next]_vars
  PROVE  [Box!Next]_Box!vars
  <1>1. IdsOK /\ IdsOK'
    BY IdsOf, PTL DEF IInv
  <1>2. ASSUME NEW c \in Channels
        PROVE  /\ Inbox(c) \in Seq(Item) /\ Len(Inbox(c)) \in Nat
               /\ accepted[c] \in Nat
               /\ InboxIds[c] \in Seq(Nat) /\ InboxIds'[c] \in Seq(Nat)
               /\ Len(InboxIds[c]) = Len(Inbox(c))
               /\ Len(InboxIds'[c]) = Len(Inbox(c)')
               /\ \A i \in 1..Len(Inbox(c)) : InboxIds[c][i] = Inbox(c)[i].id
               /\ \A i \in 1..Len(Inbox(c)') : InboxIds'[c][i] = Inbox(c)'[i].id
    BY <1>1, InboxType DEF IInv, IdsOK
  <1>3. /\ InboxIds = [c \in Channels |-> InboxIds[c]]
        /\ InboxIds' = [c \in Channels |-> InboxIds'[c]]
    BY <1>1 DEF IdsOK
  <1>4. ASSUME NEW c \in Channels, Len(Inbox(c)') = Len(Inbox(c)),
               \A i \in 1..Len(Inbox(c)) : Inbox(c)'[i].id = Inbox(c)[i].id
        PROVE  InboxIds'[c] = InboxIds[c]
    <2>. DEFINE old == InboxIds[c]
                new == InboxIds'[c]
    <2>1. old \in Seq(Nat) /\ new \in Seq(Nat) /\ Len(new) = Len(old)
      BY <1>2, <1>4
    <2>2. Len(old) = Len(Inbox(c)) /\ Len(new) = Len(Inbox(c)')
      BY <1>2
    <2>3. ASSUME NEW i \in 1..Len(old) PROVE new[i] = old[i]
      <3>1. i \in 1..Len(Inbox(c)) /\ i \in 1..Len(Inbox(c)')
        BY <2>1, <2>2
      <3>2. new[i] = Inbox(c)'[i].id /\ old[i] = Inbox(c)[i].id
        BY <1>2, <3>1
      <3>. QED BY <1>4, <3>1, <3>2
    <2>. HIDE DEF old, new
    <2>4. new = old
      BY <2>1, <2>3, SeqEqual
    <2>. QED BY <2>4 DEF old, new
  <1>5. CASE Keeps
    <2>1. ASSUME NEW c \in Channels PROVE InboxIds'[c] = InboxIds[c]
      <3>1. /\ Len(Inbox(c)') = Len(Inbox(c))
            /\ \A i \in 1..Len(Inbox(c)) : Inbox(c)'[i].id = Inbox(c)[i].id
        BY <1>5 DEF Keeps
      <3>. QED BY <1>4, <3>1
    <2>2. InboxIds' = InboxIds
      BY <1>3, <2>1
    <2>. QED BY <1>5, <2>2 DEF Keeps, Box!vars
  <1>6. ASSUME NEW c \in Channels, Sends(c) PROVE Box!Accept(c)
    <2>1. PICK item \in Item : Inbox(c)' = Append(Inbox(c), item)
                               /\ item.id = accepted[c] + 1
      BY <1>6 DEF Sends
    <2>2. /\ Len(Inbox(c)') = Len(Inbox(c)) + 1
          /\ \A i \in 1..Len(Inbox(c)) : Inbox(c)'[i] = Inbox(c)[i]
          /\ Inbox(c)'[Len(Inbox(c)) + 1] = item
      BY <1>2, <2>1, AppendProperties
    <2>. DEFINE n == accepted[c] + 1
                old == InboxIds[c]
                new == InboxIds'[c]
    <2>3. /\ old \in Seq(Nat) /\ new \in Seq(Nat) /\ n \in Nat
          /\ Len(old) \in Nat /\ Len(new) = Len(old) + 1
      BY <1>2, <2>2
    <2>4. ASSUME NEW i \in 1..Len(old) PROVE new[i] = old[i]
      <3>1. i \in 1..Len(Inbox(c)) /\ i \in 1..Len(Inbox(c)')
        BY <1>2, <2>2
      <3>2. new[i] = Inbox(c)'[i].id /\ old[i] = Inbox(c)[i].id
        BY <1>2, <3>1
      <3>. QED BY <2>2, <3>1, <3>2
    <2>5. new[Len(old) + 1] = n
      BY <1>2, <2>1, <2>2
    <2>6. new = Append(old, n)
      <3>. HIDE DEF n, old, new
      <3>1. /\ Append(old, n) \in Seq(Nat) /\ Len(Append(old, n)) = Len(old) + 1
            /\ \A i \in 1..Len(old) : Append(old, n)[i] = old[i]
            /\ Append(old, n)[Len(old) + 1] = n
        BY <2>3, AppendProperties
      <3>2. \A i \in 1..Len(new) : new[i] = Append(old, n)[i]
        BY <2>3, <2>4, <2>5, <3>1
      <3>. QED BY <2>3, <3>1, <3>2, SeqEqual
    <2>7. \A d \in Channels \ {c} : InboxIds'[d] = InboxIds[d]
      BY <1>4, <1>6 DEF Sends
    <2>8. InboxIds' = [InboxIds EXCEPT ![c] = Append(@, accepted[c] + 1)]
      BY <1>3, <2>6, <2>7
    <2>. QED BY <1>6, <2>8 DEF Sends, Box!Accept
  <1>7. ASSUME NEW c \in Channels, Takes(c) PROVE Box!Deliver(c)
    <2>1. Inbox(c) # <<>> /\ Inbox(c)' = Tail(Inbox(c)) /\ accepted' = accepted
      BY <1>7 DEF Takes
    <2>2. /\ Len(Inbox(c)) >= 1
          /\ Len(Inbox(c)') = Len(Inbox(c)) - 1
          /\ \A i \in 1..(Len(Inbox(c)) - 1) : Inbox(c)'[i] = Inbox(c)[i + 1]
      BY <1>2, <2>1, HeadTailProperties, EmptySeq
    <2>. DEFINE old == InboxIds[c]
                new == InboxIds'[c]
    <2>3. /\ old \in Seq(Nat) /\ new \in Seq(Nat) /\ old # <<>>
          /\ Len(old) \in Nat /\ Len(old) >= 1 /\ Len(new) = Len(old) - 1
      BY <1>2, <2>2
    <2>4. ASSUME NEW i \in 1..(Len(old) - 1) PROVE new[i] = old[i + 1]
      <3>1. Len(old) = Len(Inbox(c)) /\ Len(Inbox(c)) \in Nat
        BY <1>2
      <3>2. i \in 1..Len(Inbox(c)') /\ i + 1 \in 1..Len(Inbox(c))
            /\ i \in 1..(Len(Inbox(c)) - 1)
        BY <2>2, <3>1
      <3>3. new[i] = Inbox(c)'[i].id
        BY <1>2, <3>2
      <3>4. old[i + 1] = Inbox(c)[i + 1].id
        BY <1>2, <3>2
      <3>. QED BY <2>2, <3>2, <3>3, <3>4
    <2>5. new = Tail(old)
      <3>. HIDE DEF old, new
      <3>1. /\ Tail(old) \in Seq(Nat) /\ Len(Tail(old)) = Len(old) - 1
            /\ \A i \in 1..(Len(old) - 1) : Tail(old)[i] = old[i + 1]
        BY <2>3, HeadTailProperties
      <3>. QED BY <2>3, <2>4, <3>1, SeqEqual
    <2>6. \A d \in Channels \ {c} : InboxIds'[d] = InboxIds[d]
      BY <1>4, <1>7 DEF Takes
    <2>7. InboxIds' = [InboxIds EXCEPT ![c] = Tail(@)]
      BY <1>3, <2>5, <2>6
    <2>. QED BY <2>1, <2>3, <2>7 DEF Box!Deliver
  <1>. QED BY <1>5, <1>6, <1>7, InboxStep DEF Box!Next

(* A session implements the abstract mailbox: however an execution ends and*)
(* the next one starts, a client sees one queue per channel.               *)
THEOREM SessionImplementsMailbox == Spec => ImplementsMailbox
  <1>1. IInv /\ [Next]_vars => IInv'
    BY NextType, NextBooting, NextFIFO DEF IInv
  <1>2. IInv => TypeOK
    BY DEF IInv
  <1>3. IInv /\ TypeOK' /\ [Next]_vars => [Box!Next]_Box!vars
    BY StepRefines
  <1>. QED BY InitInv, InitRefines, <1>1, <1>2, <1>3, PTL
           DEF Spec, ImplementsMailbox, Box!Spec

(***************************************************************************)
(* What is carried from one segment to the next.                           *)
(***************************************************************************)
(* The commits: the segment's base is the head of the store until one of   *)
(* its own attempts is applied; attempts of earlier segments come too late.*)
StoreState ==
  /\ \A i \in 1..Len(store) : store[i].base = i - 1
  /\ Rehydrated => state_cursor = inp.state_cursor
  /\ Len(store) \in {inp.state_cursor, inp.state_cursor + 1}
  /\ Len(store) = inp.state_cursor + 1 =>
       pc \in {"commit", "failed"} /\ store[Len(store)].value = carrier
  /\ inp.state_cursor > 0 => store[inp.state_cursor].value = inp.carrier
  /\ segment > 0 => inp.state_cursor > 0
  /\ pc = "commit" /\ answer # NoAnswer =>
       answer = inp.state_cursor + 1 /\ Len(store) = answer
  /\ \A r \in inflight :
       /\ r.base <= inp.state_cursor
       /\ r.base = inp.state_cursor =>
            pc \in {"commit", "failed"} /\ r.value = carrier

-----------------------------------------------------------------------------
LEMMA NumbersCarried ==
  ASSUME TypeOK
  PROVE  /\ store \in Seq([base : Nat, value : Nat]) /\ Len(store) \in Nat
         /\ inp.state_cursor \in Nat /\ inp.carrier \in Nat
         /\ state_cursor \in Nat /\ carrier \in Nat /\ answer \in Nat
         /\ segment \in Nat
         /\ \A r \in inflight : r.base \in Nat /\ r.value \in Nat
  <1>1. /\ store \in Seq([base : Nat, value : Nat]) /\ inp \in Carried
        /\ inflight \subseteq [base : Nat, value : Nat, try : Nat]
        /\ state_cursor \in Nat /\ carrier \in Nat /\ answer \in Nat
        /\ segment \in Nat
    BY DEF TypeOK
  <1>2. inp.state_cursor \in Nat /\ inp.carrier \in Nat
    BY <1>1 DEF Carried
  <1>3. \A r \in inflight : r.base \in Nat /\ r.value \in Nat
    BY <1>1
  <1>. QED BY <1>1, <1>2, <1>3, LenProperties

LEMMA InitStore == Init => StoreState
  <1>. SUFFICES ASSUME Init PROVE StoreState
    OBVIOUS
  <1>1. /\ store = <<>> /\ Len(store) = 0 /\ inp.state_cursor = 0
        /\ state_cursor = 0 /\ segment = 0 /\ inflight = {} /\ pc = "boot"
    BY DEF Init, FirstInput
  <1>. QED BY <1>1 DEF StoreState

(* Steps that leave the store, and do not disturb a commit.                *)
LEMMA StoreLeft ==
  ASSUME StoreState,
         UNCHANGED <<store, inflight, inp, segment, capacity, state_cursor>>,
         pc \in {"commit", "failed"} =>
           pc' \in {"commit", "failed"} /\ carrier' = carrier,
         pc' = "commit" => answer' = NoAnswer \/ (pc = "commit" /\ answer' = answer)
  PROVE  StoreState'
  <1>1. Rehydrated' = Rehydrated
    BY DEF Rehydrated
  <1>. QED BY <1>1 DEF StoreState, NoAnswer

(* An attempt that is run: of a segment that is over it finds its revision *)
(* or a head that moved on, and appends nothing.                           *)
LEMMA StoreCommits ==
  ASSUME TypeOK, StoreState, NEW r \in inflight, RunCommit(r), Booting
  PROVE  StoreState'
  <1>1. /\ store \in Seq([base : Nat, value : Nat]) /\ Len(store) \in Nat
        /\ DOMAIN store = 1..Len(store)
        /\ inp.state_cursor \in Nat /\ r.base \in Nat /\ r.value \in Nat
        /\ carrier \in Nat /\ answer \in Nat
    BY NumbersCarried
  <1>2. /\ UNCHANGED <<inp, segment, capacity, state_cursor, pc, carrier>>
        /\ inflight' \subseteq inflight
        /\ store' = CommitLog(store, r.base, r.value)
    BY DEF RunCommit, control, chain
  <1>3. /\ \A i \in 1..Len(store) : store[i].base = i - 1
        /\ Len(store) \in {inp.state_cursor, inp.state_cursor + 1}
        /\ r.base <= inp.state_cursor
        /\ r.base = inp.state_cursor =>
             pc \in {"commit", "failed"} /\ r.value = carrier
    BY DEF StoreState
  <1>4. \A i \in Replays(store, r.base, r.value) :
          i = r.base + 1 /\ i \in 1..Len(store)
    BY <1>1, <1>3 DEF Replays
  <1>5. ASSUME store' # store
        PROVE  /\ r.base = inp.state_cursor /\ Len(store) = inp.state_cursor
               /\ Replays(store, r.base, r.value) = {}
               /\ store' = Append(store, [base |-> r.base, value |-> r.value])
    <2>1. Replays(store, r.base, r.value) = {} /\ r.base = Len(store)
      BY <1>2, <1>5 DEF CommitLog, Head0
    <2>. QED BY <1>1, <1>2, <1>3, <2>1 DEF CommitLog, Head0
  <1>6. /\ \A i \in 1..Len(store') : store'[i].base = i - 1
        /\ Len(store') \in {inp.state_cursor, inp.state_cursor + 1}
        /\ Len(store') = inp.state_cursor + 1 =>
             pc \in {"commit", "failed"} /\ store'[Len(store')].value = carrier
        /\ inp.state_cursor > 0 => store'[inp.state_cursor].value = inp.carrier
        /\ Len(store) = inp.state_cursor + 1 => store' = store
    <2>1. CASE store' = store
      BY <1>3, <2>1 DEF StoreState
    <2>2. CASE store' # store
      <3>. DEFINE new == [base |-> r.base, value |-> r.value]
      <3>1. new \in [base : Nat, value : Nat] /\ new.base = r.base /\ new.value = r.value
        BY <1>1
      <3>2. r.base = inp.state_cursor /\ Len(store) = inp.state_cursor
            /\ store' = Append(store, new)
        BY <1>5, <2>2
      <3>. HIDE DEF new
      <3>3. /\ Len(store') = inp.state_cursor + 1
            /\ \A i \in 1..Len(store) : store'[i] = store[i]
            /\ store'[Len(store) + 1] = new
        BY <1>1, <3>1, <3>2, AppendProperties
      <3>4. \A i \in 1..Len(store') : store'[i].base = i - 1
        <4>. TAKE i \in 1..Len(store')
        <4>1. CASE i \in 1..Len(store)
          BY <1>3, <3>3, <4>1
        <4>2. CASE i = Len(store) + 1
          BY <1>1, <3>1, <3>2, <3>3, <4>2
        <4>. QED BY <1>1, <3>2, <3>3, <4>1, <4>2
      <3>5. store'[Len(store')].value = carrier /\ pc \in {"commit", "failed"}
        BY <1>3, <3>1, <3>2, <3>3
      <3>6. inp.state_cursor > 0 => store'[inp.state_cursor].value = inp.carrier
        BY <1>1, <3>2, <3>3 DEF StoreState
      <3>. QED BY <1>1, <3>2, <3>3, <3>4, <3>5, <3>6
    <2>. QED BY <2>1, <2>2
  <1>7. ASSUME pc = "commit", answer' # NoAnswer
        PROVE  answer' = inp.state_cursor + 1 /\ Len(store') = answer'
    <2>1. CASE answer' = answer
      <3>1. answer = inp.state_cursor + 1 /\ Len(store) = answer
        BY <1>7, <2>1 DEF StoreState
      <3>. QED BY <1>6, <2>1, <3>1
    <2>2. CASE answer' # answer
      <3>1. /\ Heard(r) /\ ~CommitConflicts(store, r.base, r.value)
            /\ answer' = CommitCursor(store, r.base, r.value)
        BY <2>2 DEF RunCommit
      <3>2. r.base = inp.state_cursor
        <4>1. Rehydrated
          BY <1>7 DEF Booting
        <4>2. state_cursor = inp.state_cursor
          BY <4>1 DEF StoreState
        <4>. QED BY <3>1, <4>2 DEF Heard
      <3>3. CASE Replays(store, r.base, r.value) = {}
        <4>1. r.base = Len(store) /\ answer' = Len(store) + 1
          BY <3>1, <3>3 DEF CommitConflicts, CommitCursor, Head0
        <4>2. store' = Append(store, [base |-> r.base, value |-> r.value])
          BY <1>2, <3>3, <4>1 DEF CommitLog, Head0
        <4>3. Len(store') = Len(store) + 1
          <5>1. [base |-> r.base, value |-> r.value] \in [base : Nat, value : Nat]
            BY <1>1
          <5>. QED BY <1>1, <4>2, <5>1, AppendProperties
        <4>. QED BY <3>2, <4>1, <4>3
      <3>4. CASE Replays(store, r.base, r.value) # {}
        <4>. DEFINE R == Replays(store, r.base, r.value)
        <4>1. R \subseteq Nat /\ R # {} /\ \A i \in R : i = r.base + 1 /\ i <= Len(store)
          BY <1>1, <1>4, <3>4
        <4>2. answer' = CHOOSE i \in R : \A j \in R : i <= j
          BY <3>1, <3>4 DEF CommitCursor
        <4>. HIDE DEF R
        <4>3. \E i \in R : \A j \in R : i <= j
          BY <4>1, LeastNumber
        <4>4. answer' \in R
          BY <4>2, <4>3
        <4>5. answer' = inp.state_cursor + 1 /\ Len(store) = inp.state_cursor + 1
          BY <1>1, <1>3, <3>2, <4>1, <4>4
        <4>. QED BY <1>6, <4>5
      <3>. QED BY <3>3, <3>4
    <2>. QED BY <2>1, <2>2
  <1>8. Rehydrated' = Rehydrated
    BY <1>2 DEF Rehydrated
  <1>. QED BY <1>2, <1>6, <1>7, <1>8 DEF StoreState

LEMMA NextStore ==
  ASSUME IInv, StoreState, [Next]_vars
  PROVE  StoreState'
  <1>. USE DEF control, chain, commits
  <1>a. TypeOK /\ Booting
    BY DEF IInv
  <1>1. CASE UNCHANGED vars
    BY <1>1, StoreLeft DEF vars
  <1>2. CASE WorkflowStep
    <2>1. CASE Rehydrate
      <3>1. /\ pc = "boot" /\ pc' = "recv" /\ state_cursor' = inp.state_cursor
            /\ UNCHANGED <<store, inflight, inp, segment>>
        BY <2>1 DEF Rehydrate
      <3>. QED BY <3>1 DEF StoreState
    <2>2. CASE ContinueAsNew
      <3>1. /\ pc = "commit" /\ answer # NoAnswer /\ pc' = "boot"
            /\ inp'.state_cursor = answer /\ inp'.carrier = carrier
            /\ UNCHANGED <<store, inflight>> /\ ~Rehydrated'
        BY <2>2 DEF ContinueAsNew, CarriedInput, Rehydrated, Unset
      <3>2. answer = inp.state_cursor + 1 /\ Len(store) = answer
            /\ store[answer].value = carrier
        BY <3>1 DEF StoreState
      <3>3. /\ inp.state_cursor \in Nat /\ answer > 0 /\ answer \in Nat
            /\ Len(store) # answer + 1
        BY SMTT(20), <1>a, <3>2, NumbersCarried
      <3>4. \A q \in inflight : q.base <= answer /\ q.base # answer
        <4>. TAKE q \in inflight
        <4>1. q.base <= inp.state_cursor /\ q.base \in Nat
          BY <1>a, NumbersCarried DEF StoreState
        <4>. QED BY <3>2, <3>3, <4>1
      <3>. QED BY <3>1, <3>2, <3>3, <3>4 DEF StoreState
    <2>3. CASE Recv \/ GateAnswered \/ Quiesce \/ Resume \/ AskHuman \/ StartEmit
               \/ StartFinalEmit \/ Emit \/ FatalError
      BY <2>3, StoreLeft DEF Recv, GateAnswered, Take, Quiesce, Waiting, Resume,
         AskHuman, StartEmit, StartFinalEmit, Goto, Emit, FatalError, FailSession
    <2>4. CASE TurnDone \/ TurnError
      <3>1. /\ pc \in {"body", "final"} /\ \E records : AfterTurn(records)
        BY <2>4 DEF TurnDone, TurnError, FailTurn
      <3>2. /\ UNCHANGED <<store, inflight, inp, segment, capacity, state_cursor>>
            /\ pc' = "commit" => answer' = NoAnswer
        BY <3>1 DEF AfterTurn
      <3>. QED BY <3>1, <3>2, StoreLeft
    <2>. QED BY <1>2, <2>1, <2>2, <2>3, <2>4 DEF WorkflowStep
  <1>3. CASE ActivityStep
    <2>1. CASE IssueCommit
      <3>. DEFINE new == [base |-> state_cursor, value |-> carrier, try |-> attempt + 1]
      <3>1. /\ pc = "commit" /\ inflight' = inflight \cup {new}
            /\ UNCHANGED <<store, answer, inp, segment, capacity, pc, carrier,
                           state_cursor>>
        BY <2>1 DEF IssueCommit
      <3>2. new.base = state_cursor /\ new.value = carrier
        OBVIOUS
      <3>3. Rehydrated /\ Rehydrated' = Rehydrated
        BY <1>a, <3>1 DEF Booting, Rehydrated
      <3>4. new.base = inp.state_cursor /\ inp.state_cursor \in Nat
        BY <1>a, <3>2, <3>3, NumbersCarried DEF StoreState
      <3>. HIDE DEF new
      <3>5. \A q \in inflight' : /\ q.base <= inp.state_cursor
                                 /\ q.base = inp.state_cursor => q.value = carrier
        BY <3>1, <3>2, <3>4 DEF StoreState
      <3>. QED BY <3>1, <3>3, <3>5 DEF StoreState
    <2>2. CASE CommitFails \/ ActivityFails
      BY <2>2, StoreLeft DEF CommitFails, ActivityFails, Goto
    <2>3. ASSUME NEW r \in inflight, RunCommit(r) PROVE StoreState'
      BY <1>a, <2>3, StoreCommits
    <2>. QED BY <1>3, <2>1, <2>2, <2>3 DEF ActivityStep
  <1>4. CASE Timeout
    BY <1>4, StoreLeft DEF Timeout, Waiting
  <1>5. CASE ClientStep
    <2>1. UNCHANGED <<store, inflight, inp, segment, capacity, state_cursor, pc,
                      carrier, answer>>
      BY <1>5 DEF ClientStep, Send, Close, Ack, AckEvents
    <2>. QED BY <2>1, StoreLeft
  <1>6. CASE BeforeRecv
    <2>1. CASE AskBeforeRecv \/ FailSession("recv") \/ Goto("recv", "failed")
      BY <2>1, StoreLeft DEF AskBeforeRecv, FailSession, Goto
    <2>2. CASE FailTurn("recv")
      <3>1. pc = "recv" /\ \E records : AfterTurn(records)
        BY <2>2 DEF FailTurn
      <3>2. /\ UNCHANGED <<store, inflight, inp, segment, capacity, state_cursor>>
            /\ pc' = "commit" => answer' = NoAnswer
        BY <3>1 DEF AfterTurn
      <3>3. carrier' = carrier
        BY <2>2 DEF FailTurn
      <3>. QED BY <3>1, <3>2, <3>3, StoreLeft
    <2>. QED BY <1>6, <2>1, <2>2 DEF BeforeRecv, FailsBeforeRecv
  <1>. QED BY <1>1, <1>2, <1>3, <1>4, <1>5, <1>6 DEF Next

LEMMA NextInv == IInv /\ [Next]_vars => IInv'
  BY NextType, NextBooting, NextFIFO DEF IInv

(* The store and the session agree about what is committed (StoreAgrees):  *)
(* a retry, after an answer was lost or beside late attempts of earlier    *)
(* segments, never conflicts, and the cursor a segment starts from names   *)
(* the carrier it starts with.                                             *)
THEOREM CommitsAgree == Spec => []StoreAgrees
  <1>1. ASSUME IInv, StoreState PROVE StoreAgrees
    <2>1. TypeOK /\ Booting /\ DOMAIN store = 1..Len(store)
      BY <1>1, NumbersCarried DEF IInv
    <2>2. ASSUME NEW r \in inflight, pc = "commit", r.base = state_cursor,
                 r.value = carrier
          PROVE  ~CommitConflicts(store, r.base, r.value)
      <3>1. Rehydrated /\ r.base = inp.state_cursor
        BY <1>1, <2>1, <2>2 DEF Booting, StoreState
      <3>2. /\ Len(store) \in Nat /\ inp.state_cursor \in Nat
            /\ Len(store) \in {inp.state_cursor, inp.state_cursor + 1}
        BY <1>1, <2>1, NumbersCarried DEF StoreState
      <3>3. CASE Len(store) = inp.state_cursor
        BY <3>1, <3>3 DEF CommitConflicts, Head0
      <3>4. CASE Len(store) = inp.state_cursor + 1
        <4>1. Len(store) \in 1..Len(store)
          BY <3>2, <3>4
        <4>2. store[Len(store)].base = Len(store) - 1
              /\ store[Len(store)].value = carrier
          BY <1>1, <3>4, <4>1 DEF StoreState
        <4>3. store[Len(store)].base = r.base
          BY <3>1, <3>2, <3>4, <4>2
        <4>4. Len(store) \in Replays(store, r.base, r.value)
          BY <2>1, <2>2, <4>1, <4>2, <4>3 DEF Replays
        <4>. QED BY <4>4 DEF CommitConflicts
      <3>. QED BY <3>2, <3>3, <3>4
    <2>3. CursorNamesCarrier
      <3>1. /\ inp.state_cursor \in Nat /\ segment \in Nat /\ Len(store) \in Nat
            /\ Len(store) \in {inp.state_cursor, inp.state_cursor + 1}
        BY <1>1, <2>1, NumbersCarried DEF StoreState
      <3>. QED BY <1>1, <2>1, <3>1 DEF StoreState, CursorNamesCarrier
    <2>. QED BY <2>2, <2>3 DEF StoreAgrees, CommitNeverConflicts
  <1>2. IInv /\ StoreState /\ [Next]_vars => StoreState'
    BY NextStore
  <1>. QED BY <1>1, <1>2, InitInv, NextInv, InitStore, PTL DEF Spec

-----------------------------------------------------------------------------
(* The names of the messages that wait in an execution, and of those it was*)
(* given.  A window's messages are numbered from 1 again and only their    *)
(* keys are on record until _rehydrate merges the two.                     *)
Distinct(queue, top) ==
  \A i \in 1..Len(queue) :
    /\ queue[i].seq > 0 /\ queue[i].seq <= top
    /\ \A j \in 1..Len(queue) : queue[i].seq = queue[j].seq => i = j
LatestIn(queue, i) ==
  /\ queue[i].key # None
  /\ \A j \in 1..Len(queue) : j > i => queue[j].key # queue[i].key
IndexOf(queue, index, fp) ==
  \A i \in 1..Len(queue) :
    LatestIn(queue, i) =>
      index[queue[i].key] = queue[i].seq /\ fp[queue[i].key] = queue[i].val
FreshWindow(queue, top, fp) ==
  /\ top = Len(queue)
  /\ \A i \in 1..Len(queue) : queue[i].seq = i
  /\ \A k \in Keys :
       fp[k] # None => \E i \in 1..Len(queue) : queue[i].key = k

ChannelNames(c) ==
  /\ Distinct(inp.inbox[c], inp.in_seq[c])
  /\ IndexOf(inp.inbox[c], inp.idempotency_index[c], inp.idempotency_fp[c])
  /\ IndexOf(pending[c], idempotency_index[c], idempotency_fp[c])
  /\ Rehydrated => Distinct(pending[c], in_seq[c])
  /\ ~Rehydrated => FreshWindow(pending[c], in_seq[c], idempotency_fp[c])
NamesInv == \A c \in Channels : ChannelNames(c)

LEMMA ItemFields ==
  ASSUME NEW q \in Seq(Item)
  PROVE  /\ Len(q) \in Nat /\ DOMAIN q = 1..Len(q)
         /\ \A i \in 1..Len(q) :
              /\ q[i] \in Item /\ q[i].seq \in Nat
              /\ q[i].key \in Keys \cup {None} /\ q[i].val \in Values
  <1>1. Len(q) \in Nat /\ DOMAIN q = 1..Len(q) /\ \A i \in 1..Len(q) : q[i] \in Item
    OBVIOUS
  <1>2. \A x \in Item : x.seq \in Nat /\ x.key \in Keys \cup {None} /\ x.val \in Values
    BY DEF Item
  <1>. QED BY <1>1, <1>2

(* A message is put behind the others, with the next number.               *)
LEMMA AppendNames ==
  ASSUME NEW q \in Seq(Item), NEW x \in Item, NEW top \in Nat, x.seq = top + 1
  PROVE  Distinct(q, top) => Distinct(Append(q, x), top + 1)
  <1>. DEFINE r == Append(q, x)
  <1>1. /\ Len(q) \in Nat /\ Len(r) = Len(q) + 1
        /\ \A i \in 1..Len(q) : r[i] = q[i] /\ q[i].seq \in Nat
        /\ r[Len(q) + 1] = x
    BY AppendProperties, ItemFields
  <1>. HIDE DEF r
  <1>2. ASSUME Distinct(q, top) PROVE Distinct(r, top + 1)
    <2>1. \A i \in 1..Len(q) : r[i].seq > 0 /\ r[i].seq <= top /\ r[i].seq \in Nat
      BY <1>1, <1>2 DEF Distinct
    <2>2. \A i \in 1..Len(r) : i \in 1..Len(q) \/ i = Len(q) + 1
      BY <1>1
    <2>3. \A i \in 1..Len(r) : r[i].seq > 0 /\ r[i].seq <= top + 1
      BY <1>1, <2>1, <2>2
    <2>4. ASSUME NEW i \in 1..Len(r), NEW j \in 1..Len(r), r[i].seq = r[j].seq
          PROVE  i = j
      <3>1. CASE i \in 1..Len(q) /\ j \in 1..Len(q)
        BY <1>1, <1>2, <2>4, <3>1 DEF Distinct
      <3>2. CASE i = Len(q) + 1 /\ j \in 1..Len(q)
        BY <1>1, <2>1, <2>4, <3>2
      <3>3. CASE i \in 1..Len(q) /\ j = Len(q) + 1
        BY <1>1, <2>1, <2>4, <3>3
      <3>. QED BY <2>2, <3>1, <3>2, <3>3
    <2>. QED BY <2>3, <2>4 DEF Distinct
  <1>. QED BY <1>2 DEF r

LEMMA AppendIndex ==
  ASSUME NEW q \in Seq(Item), NEW x \in Item,
         NEW index, NEW fp, NEW newIndex, NEW newFp, IndexOf(q, index, fp),
         \A k \in Keys : k # x.key => newIndex[k] = index[k] /\ newFp[k] = fp[k],
         x.key # None => newIndex[x.key] = x.seq /\ newFp[x.key] = x.val
  PROVE  IndexOf(Append(q, x), newIndex, newFp)
  <1>. DEFINE r == Append(q, x)
  <1>1. /\ Len(q) \in Nat /\ Len(r) = Len(q) + 1
        /\ \A i \in 1..Len(q) : r[i] = q[i] /\ q[i].key \in Keys \cup {None}
        /\ r[Len(q) + 1] = x
    BY AppendProperties, ItemFields
  <1>. HIDE DEF r
  <1>2. ASSUME NEW i \in 1..Len(q), LatestIn(r, i)
        PROVE  LatestIn(q, i) /\ x.key # q[i].key
    <2>1. \A j \in 1..Len(q) : j \in 1..Len(r)
      BY <1>1
    <2>2. Len(q) + 1 \in 1..Len(r) /\ Len(q) + 1 > i
      BY <1>1
    <2>. QED BY <1>1, <1>2, <2>1, <2>2 DEF LatestIn
  <1>3. ASSUME NEW i \in 1..Len(r), LatestIn(r, i)
        PROVE  newIndex[r[i].key] = r[i].seq /\ newFp[r[i].key] = r[i].val
    <2>1. CASE i \in 1..Len(q)
      <3>1. LatestIn(q, i) /\ r[i] = q[i] /\ q[i].key # x.key /\ q[i].key \in Keys
        BY <1>1, <1>2, <1>3, <2>1 DEF LatestIn
      <3>. QED BY <2>1, <3>1 DEF IndexOf
    <2>2. CASE i = Len(q) + 1
      BY <1>1, <1>3, <2>2 DEF LatestIn
    <2>. QED BY <1>1, <2>1, <2>2
  <1>4. IndexOf(r, newIndex, newFp)
    BY <1>3 DEF IndexOf
  <1>. QED BY <1>4 DEF r

(* The first message is taken.                                             *)
LEMMA TailNames ==
  ASSUME NEW q \in Seq(Item), q # <<>>, NEW top \in Nat, NEW index, NEW fp
  PROVE  /\ Distinct(q, top) => Distinct(Tail(q), top)
         /\ IndexOf(q, index, fp) => IndexOf(Tail(q), index, fp)
  <1>. DEFINE r == Tail(q)
  <1>1. /\ Len(q) \in Nat /\ Len(r) \in Nat /\ Len(r) = Len(q) - 1
        /\ \A i \in 1..Len(r) : r[i] = q[i + 1]
    BY HeadTailProperties, ItemFields
  <1>. HIDE DEF r
  <1>2. /\ \A i \in 1..Len(r) : i + 1 \in 1..Len(q)
        /\ \A i, j \in 1..Len(r) : i + 1 = j + 1 => i = j
        /\ \A i \in 1..Len(r) : \A j \in 1..Len(q) :
             j > i + 1 => j - 1 \in 1..Len(r) /\ j - 1 > i /\ (j - 1) + 1 = j
    BY <1>1
  <1>3. ASSUME Distinct(q, top) PROVE Distinct(r, top)
    <2>1. \A i \in 1..Len(r) : r[i].seq > 0 /\ r[i].seq <= top
      BY <1>1, <1>2, <1>3 DEF Distinct
    <2>2. ASSUME NEW i \in 1..Len(r), NEW j \in 1..Len(r), r[i].seq = r[j].seq
          PROVE  i = j
      <3>1. q[i + 1].seq = q[j + 1].seq /\ i + 1 \in 1..Len(q) /\ j + 1 \in 1..Len(q)
        BY <1>1, <1>2, <2>2
      <3>2. i + 1 = j + 1
        BY <1>3, <3>1 DEF Distinct
      <3>. QED BY <1>2, <3>2
    <2>. QED BY <2>1, <2>2 DEF Distinct
  <1>4. ASSUME NEW i \in 1..Len(r), LatestIn(r, i) PROVE LatestIn(q, i + 1)
    <2>1. q[i + 1].key # None
      BY <1>1, <1>4 DEF LatestIn
    <2>2. ASSUME NEW j \in 1..Len(q), j > i + 1 PROVE q[j].key # q[i + 1].key
      <3>1. r[j - 1].key # r[i].key /\ j - 1 \in 1..Len(r)
        BY <1>2, <1>4, <2>2 DEF LatestIn
      <3>2. r[j - 1] = q[j] /\ r[i] = q[i + 1]
        BY <1>1, <1>2, <2>2, <3>1
      <3>. QED BY <3>1, <3>2
    <2>. QED BY <2>1, <2>2 DEF LatestIn
  <1>5. ASSUME IndexOf(q, index, fp) PROVE IndexOf(r, index, fp)
    BY <1>1, <1>2, <1>4, <1>5 DEF IndexOf
  <1>. QED BY <1>3, <1>5 DEF r


LEMMA NamesLeft ==
  ASSUME NamesInv, NEW c \in Channels,
         UNCHANGED <<inp, capacity, pending[c], in_seq[c], idempotency_index[c],
                     idempotency_fp[c]>>
  PROVE  ChannelNames(c)'
  <1>1. Rehydrated' = Rehydrated
    BY DEF Rehydrated
  <1>. QED BY <1>1 DEF NamesInv, ChannelNames

LEMMA SendNames ==
  ASSUME TypeOK, NamesInv, NEW c \in Channels, NEW key \in Keys \cup {None},
         NEW value \in Values, Send(c, key, value)
  PROVE  NamesInv'
  <1>. DEFINE x == [id |-> accepted[c] + 1, seq |-> in_seq[c] + 1, key |-> key,
                    val |-> value]
  <1>1. /\ pending[c] \in Seq(Item) /\ in_seq[c] \in Nat /\ accepted[c] \in Nat
        /\ c \in DOMAIN pending /\ c \in DOMAIN in_seq
        /\ c \in DOMAIN idempotency_index /\ c \in DOMAIN idempotency_fp
        /\ DOMAIN idempotency_index[c] = Keys /\ DOMAIN idempotency_fp[c] = Keys
    BY DEF TypeOK
  <1>2. /\ x \in Item /\ x.seq = in_seq[c] + 1 /\ x.key = key /\ x.val = value
    BY <1>1 DEF Item
  <1>3. /\ pending' = [pending EXCEPT ![c] = Append(pending[c], x)]
        /\ in_seq' = [in_seq EXCEPT ![c] = in_seq[c] + 1]
        /\ UNCHANGED <<inp, capacity>>
    BY DEF Send, chain
  <1>4. \A d \in Channels \ {c} :
          /\ UNCHANGED <<pending[d], in_seq[d], idempotency_index[d]>>
          /\ UNCHANGED idempotency_fp[d]
    BY <1>1, <1>3 DEF Send, TypeOK
  <1>. HIDE DEF x
  <1>5. pending'[c] = Append(pending[c], x) /\ in_seq'[c] = x.seq
    BY <1>1, <1>2, <1>3
  <1>6. /\ \A k \in Keys : k # x.key =>
             /\ idempotency_index'[c][k] = idempotency_index[c][k]
             /\ idempotency_fp'[c][k] = idempotency_fp[c][k]
        /\ x.key # None => /\ idempotency_index'[c][x.key] = x.seq
                           /\ idempotency_fp'[c][x.key] = x.val
    <2>1. CASE key = None
      BY <1>2, <2>1 DEF Send
    <2>2. CASE key # None
      <3>1. /\ idempotency_index' = [idempotency_index EXCEPT ![c][key] = in_seq[c] + 1]
            /\ idempotency_fp' = [idempotency_fp EXCEPT ![c][key] = value]
            /\ key \in Keys
        BY <2>2 DEF Send
      <3>. QED BY <1>1, <1>2, <3>1
    <2>. QED BY <2>1, <2>2
  <1>7. Rehydrated' = Rehydrated
    BY <1>3 DEF Rehydrated
  <1>8. ChannelNames(c)
    BY DEF NamesInv
  <1>9. IndexOf(pending'[c], idempotency_index'[c], idempotency_fp'[c])
    <2>1. IndexOf(pending[c], idempotency_index[c], idempotency_fp[c])
      BY <1>8 DEF ChannelNames
    <2>. QED BY <1>1, <1>2, <1>5, <1>6, <2>1, AppendIndex
  <1>10. Rehydrated => Distinct(pending'[c], in_seq'[c])
    BY <1>1, <1>2, <1>5, <1>8, AppendNames DEF ChannelNames
  <1>11. ~Rehydrated => FreshWindow(pending'[c], in_seq'[c], idempotency_fp'[c])
    <2>. SUFFICES ASSUME FreshWindow(pending[c], in_seq[c], idempotency_fp[c])
                  PROVE  FreshWindow(pending'[c], in_seq'[c], idempotency_fp'[c])
      BY <1>8 DEF ChannelNames
    <2>1. /\ Len(pending[c]) \in Nat /\ Len(pending'[c]) = Len(pending[c]) + 1
          /\ \A i \in 1..Len(pending[c]) : pending'[c][i] = pending[c][i]
          /\ pending'[c][Len(pending[c]) + 1] = x
      BY <1>1, <1>2, <1>5, AppendProperties, ItemFields
    <2>2. /\ in_seq[c] = Len(pending[c])
          /\ \A i \in 1..Len(pending[c]) : pending[c][i].seq = i
      BY DEF FreshWindow
    <2>3. \A i \in 1..Len(pending'[c]) : i \in 1..Len(pending[c]) \/ i = Len(pending[c]) + 1
      BY <2>1
    <2>4. in_seq'[c] = Len(pending'[c])
      BY <1>2, <1>5, <2>1, <2>2
    <2>5. \A i \in 1..Len(pending'[c]) : pending'[c][i].seq = i
      BY <1>2, <2>1, <2>2, <2>3
    <2>6. ASSUME NEW k \in Keys, idempotency_fp'[c][k] # None
          PROVE  \E i \in 1..Len(pending'[c]) : pending'[c][i].key = k
      <3>1. CASE k = x.key
        BY <2>1, <3>1
      <3>2. CASE k # x.key
        <4>1. PICK i \in 1..Len(pending[c]) : pending[c][i].key = k
          BY <1>6, <2>6, <3>2 DEF FreshWindow
        <4>. QED BY SMTT(20), <2>1, <4>1
      <3>. QED BY <3>1, <3>2
    <2>. QED BY <2>4, <2>5, <2>6 DEF FreshWindow
  <1>12. ChannelNames(c)'
    BY <1>3, <1>7, <1>8, <1>9, <1>10, <1>11 DEF ChannelNames
  <1>13. \A d \in Channels \ {c} : ChannelNames(d)'
    BY <1>3, <1>4, NamesLeft
  <1>. QED BY <1>12, <1>13 DEF NamesInv

LEMMA TakeNames ==
  ASSUME TypeOK, NamesInv, Rehydrated, NEW c \in Channels,
         NEW next, Take(c, next)
  PROVE  NamesInv'
  <1>1. /\ pending[c] \in Seq(Item) /\ pending[c] # <<>> /\ in_seq[c] \in Nat
        /\ pending'[c] = Tail(pending[c])
        /\ \A d \in Channels \ {c} : pending'[d] = pending[d]
        /\ UNCHANGED <<in_seq, idempotency_index, idempotency_fp, inp, capacity>>
    BY DEF Take, TypeOK, chain
  <1>2. Rehydrated' = Rehydrated
    BY <1>1 DEF Rehydrated
  <1>3. ChannelNames(c)
    BY DEF NamesInv
  <1>4. /\ Distinct(Tail(pending[c]), in_seq[c])
        /\ IndexOf(Tail(pending[c]), idempotency_index[c], idempotency_fp[c])
    BY <1>1, <1>3, TailNames DEF ChannelNames
  <1>5. ChannelNames(c)'
    BY <1>1, <1>2, <1>3, <1>4 DEF ChannelNames
  <1>6. \A d \in Channels \ {c} : ChannelNames(d)'
    BY <1>1, NamesLeft
  <1>. QED BY <1>5, <1>6 DEF NamesInv

(* What _rehydrate does to the window's messages: those whose numbers the  *)
(* carried ones may hold come behind every number in use, in their order.  *)
LEMMA RestampedNumbers ==
  ASSUME TypeOK, NEW c \in Channels,
         FreshWindow(pending[c], in_seq[c], idempotency_fp[c])
  PROVE  /\ \A i \in 1..Len(pending[c]) :
              /\ Restamped(c)[i].key = pending[c][i].key
              /\ Restamped(c)[i].val = pending[c][i].val
              /\ i <= inp.in_seq[c] => Restamped(c)[i].seq = HighWater(c) + i
              /\ i > inp.in_seq[c] => Restamped(c)[i].seq = i
         /\ \A i \in 1..Len(pending[c]) : i <= inp.in_seq[c] =>
              i <= Cardinality(Stale(c))
         /\ HighWater(c) \in Nat /\ Cardinality(Stale(c)) \in Nat
         /\ HighWater(c) >= inp.in_seq[c] /\ HighWater(c) >= Len(pending[c])
         /\ Restamped(c) \in Seq(Item) /\ Len(Restamped(c)) = Len(pending[c])
  <1>. DEFINE n == Len(pending[c])
              t == inp.in_seq[c]
  <1>1. /\ pending[c] \in Seq(Item) /\ n \in Nat /\ DOMAIN pending[c] = 1..n
        /\ in_seq[c] = n /\ \A i \in 1..n : pending[c][i].seq = i
    BY DEF TypeOK, FreshWindow
  <1>2. t \in Nat
    BY DEF TypeOK, Carried
  <1>3. HighWater(c) \in Nat /\ HighWater(c) >= t /\ HighWater(c) >= n
    BY <1>1, <1>2, MaxOfTwo DEF HighWater
  <1>. HIDE DEF n, t
  <1>4. Stale(c) = {j \in 1..n : j <= t}
    BY <1>1 DEF Stale, t
  <1>5. ASSUME NEW i \in 1..n, i <= t
        PROVE  /\ i \in Stale(c)
               /\ Cardinality({j \in Stale(c) : j <= i}) = i
               /\ i <= Cardinality(Stale(c))
    <2>1. {j \in Stale(c) : j <= i} = 1..i
      BY <1>1, <1>2, <1>4, <1>5
    <2>2. Cardinality(1..i) = i
      <3>1. 1 \in Int /\ i \in Int /\ ~(1 > i) /\ i - 1 + 1 = i
        BY <1>1
      <3>. QED BY <3>1, FS_Interval
    <2>3. IsFiniteSet(Stale(c)) /\ 1..i \subseteq Stale(c)
      <3>1. IsFiniteSet(1..n) /\ Stale(c) \subseteq 1..n
        BY <1>1, <1>4, FS_Interval
      <3>. QED BY <2>1, <3>1, FS_Subset
    <2>4. Cardinality(1..i) <= Cardinality(Stale(c))
      BY <2>3, FS_Subset
    <2>. QED BY <1>4, <1>5, <2>1, <2>2, <2>4
  <1>6. ASSUME NEW i \in 1..n
        PROVE  /\ Restamped(c)[i].key = pending[c][i].key
               /\ Restamped(c)[i].val = pending[c][i].val
               /\ i <= t => Restamped(c)[i].seq = HighWater(c) + i
               /\ i > t => Restamped(c)[i].seq = i
    <2>1. pending[c][i] \in Item /\ pending[c][i].seq = i
      BY <1>1
    <2>2. CASE i <= t
      <3>1. Restamped(c)[i] = [pending[c][i] EXCEPT !.seq = HighWater(c) + i]
        BY <1>1, <1>5, <2>2 DEF Restamped
      <3>2. Restamped(c)[i].seq = HighWater(c) + i
            /\ Restamped(c)[i].key = pending[c][i].key
            /\ Restamped(c)[i].val = pending[c][i].val
        BY <2>1, <3>1 DEF Item
      <3>. QED BY <1>2, <2>2, <3>2
    <2>3. CASE ~(i <= t)
      <3>1. i \notin Stale(c)
        BY <1>4, <2>3
      <3>2. Restamped(c)[i] = pending[c][i]
        BY <1>1, <3>1 DEF Restamped
      <3>. QED BY <2>1, <2>3, <3>2
    <2>. QED BY <2>2, <2>3
  <1>. QED BY <1>3, <1>5, <1>6, RestampedType DEF n, t

LEMMA MergedDistinct ==
  ASSUME TypeOK, NEW c \in Channels,
         FreshWindow(pending[c], in_seq[c], idempotency_fp[c]),
         Distinct(inp.inbox[c], inp.in_seq[c])
  PROVE  Distinct(inp.inbox[c] \o Restamped(c),
                  HighWater(c) + Cardinality(Stale(c)))
  <1>. DEFINE a == inp.inbox[c]
              b == Restamped(c)
              t == inp.in_seq[c]
              h == HighWater(c)
              s == Cardinality(Stale(c))
              q == a \o b
  <1>1. /\ a \in Seq(Item) /\ b \in Seq(Item) /\ t \in Nat
        /\ Len(a) \in Nat /\ Len(b) \in Nat
    BY RestampedNumbers, InboxType, LenProperties DEF TypeOK, Carried
  <1>2. /\ h \in Nat /\ s \in Nat /\ h >= t /\ h >= Len(b)
        /\ \A i \in 1..Len(b) : /\ i <= t => b[i].seq = h + i /\ i <= s
                                /\ i > t => b[i].seq = i
    BY RestampedNumbers
  <1>3. \A i \in 1..Len(a) :
          /\ a[i].seq > 0 /\ a[i].seq <= t /\ a[i].seq \in Nat
          /\ \A j \in 1..Len(a) : a[i].seq = a[j].seq => i = j
    BY <1>1, ItemFields DEF Distinct
  <1>4. \A i \in 1..Len(q) :
          \/ i \in 1..Len(a) /\ q[i] = a[i]
          \/ i - Len(a) \in 1..Len(b) /\ q[i] = b[i - Len(a)]
    BY <1>1, ConcatElement
  <1>5. Len(q) = Len(a) + Len(b)
    BY <1>1, ConcatProperties
  <1>. HIDE DEF a, b, t, h, s, q
  <1>6. \A i \in 1..Len(b) :
          /\ b[i].seq > t /\ b[i].seq <= h + s /\ b[i].seq \in Nat
          /\ \A j \in 1..Len(b) : b[i].seq = b[j].seq => i = j
    <2>1. ASSUME NEW i \in 1..Len(b)
          PROVE  b[i].seq > t /\ b[i].seq <= h + s /\ b[i].seq \in Nat
      BY <1>1, <1>2
    <2>2. ASSUME NEW i \in 1..Len(b), NEW j \in 1..Len(b), b[i].seq = b[j].seq
          PROVE  i = j
      BY <1>1, <1>2, <2>2
    <2>. QED BY <2>1, <2>2
  <1>7. ASSUME NEW i \in 1..Len(q)
        PROVE  q[i].seq > 0 /\ q[i].seq <= h + s
    <2>1. CASE i \in 1..Len(a) /\ q[i] = a[i]
      BY <1>1, <1>2, <1>3, <2>1
    <2>2. CASE i - Len(a) \in 1..Len(b) /\ q[i] = b[i - Len(a)]
      BY <1>1, <1>2, <1>6, <2>2
    <2>. QED BY <1>4, <2>1, <2>2
  <1>8. ASSUME NEW i \in 1..Len(q), NEW j \in 1..Len(q), q[i].seq = q[j].seq
        PROVE  i = j
    <2>1. CASE i \in 1..Len(a) /\ q[i] = a[i] /\ j \in 1..Len(a) /\ q[j] = a[j]
      BY <1>3, <1>8, <2>1
    <2>2. CASE /\ i - Len(a) \in 1..Len(b) /\ q[i] = b[i - Len(a)]
               /\ j - Len(a) \in 1..Len(b) /\ q[j] = b[j - Len(a)]
      <3>1. i - Len(a) = j - Len(a)
        BY <1>6, <1>8, <2>2
      <3>. QED BY <1>1, <1>5, <3>1
    <2>3. CASE i \in 1..Len(a) /\ q[i] = a[i] /\ j - Len(a) \in 1..Len(b)
               /\ q[j] = b[j - Len(a)]
      BY <1>1, <1>3, <1>6, <1>8, <2>3
    <2>4. CASE j \in 1..Len(a) /\ q[j] = a[j] /\ i - Len(a) \in 1..Len(b)
               /\ q[i] = b[i - Len(a)]
      BY SMTT(20), <1>1, <1>3, <1>6, <1>8, <2>4
    <2>. QED BY <1>4, <2>1, <2>2, <2>3, <2>4
  <1>9. Distinct(q, h + s)
    BY <1>7, <1>8 DEF Distinct
  <1>. QED BY <1>9 DEF a, b, h, s, q

(* The merged index and fingerprints name the latest of the joined queue:  *)
(* a key of the window's messages names one of them, any other the carried *)
(* message it named.                                                       *)
LEMMA MergedNamesLatest ==
  ASSUME TypeOK, NEW c \in Channels, ChannelNames(c), ~Rehydrated
  PROVE  IndexOf(inp.inbox[c] \o Restamped(c), MergedIndex(c), MergedFp(c))
  <1>. DEFINE a == inp.inbox[c]
              b == Restamped(c)
              p == pending[c]
              q == a \o b
  <1>1. /\ FreshWindow(p, in_seq[c], idempotency_fp[c])
        /\ Distinct(a, inp.in_seq[c])
        /\ IndexOf(a, inp.idempotency_index[c], inp.idempotency_fp[c])
        /\ IndexOf(p, idempotency_index[c], idempotency_fp[c])
    BY DEF ChannelNames
  <1>2. /\ a \in Seq(Item) /\ b \in Seq(Item) /\ p \in Seq(Item)
        /\ Len(a) \in Nat /\ Len(b) \in Nat /\ Len(b) = Len(p)
        /\ DOMAIN p = 1..Len(p)
    BY <1>1, RestampedNumbers, InboxType, LenProperties
  <1>3. \A i \in 1..Len(p) : b[i].key = p[i].key /\ b[i].val = p[i].val
    BY <1>1, RestampedNumbers
  <1>4. \A i \in 1..Len(q) :
          \/ i \in 1..Len(a) /\ q[i] = a[i]
          \/ i - Len(a) \in 1..Len(b) /\ i > Len(a) /\ q[i] = b[i - Len(a)]
    BY <1>2, ConcatElement
  <1>5. /\ Len(q) = Len(a) + Len(b)
        /\ \A i \in 1..Len(a) : i \in 1..Len(q) /\ q[i] = a[i]
        /\ \A i \in 1..Len(b) : i + Len(a) \in 1..Len(q) /\ q[i + Len(a)] = b[i]
    <2>. HIDE DEF a, b
    <2>1. /\ Len(q) = Len(a) + Len(b)
          /\ \A i \in 1..Len(a) + Len(b) :
               q[i] = IF i <= Len(a) THEN a[i] ELSE b[i - Len(a)]
      BY <1>2, ConcatProperties
    <2>. HIDE DEF q
    <2>2. \A i \in 1..Len(b) : /\ i + Len(a) \in 1..Len(a) + Len(b)
                               /\ ~(i + Len(a) <= Len(a)) /\ (i + Len(a)) - Len(a) = i
      BY <1>2
    <2>3. \A i \in 1..Len(b) : q[i + Len(a)] = b[i]
      BY <2>1, <2>2
    <2>4. \A i \in 1..Len(a) : i \in 1..Len(q) /\ q[i] = a[i]
      BY <1>2, <2>1
    <2>. QED BY <1>2, <2>1, <2>2, <2>3, <2>4
  <1>6. /\ \A k \in Keys :
             LET sent == {i \in 1..Len(p) : p[i].key = k}
             IN  /\ sent # {} => MergedIndex(c)[k] = b[Max(sent)].seq
                 /\ sent = {} /\ inp.idempotency_index[c][k] # 0 =>
                      MergedIndex(c)[k] = inp.idempotency_index[c][k]
        /\ \A k \in Keys :
             /\ idempotency_fp[c][k] # None => MergedFp(c)[k] = idempotency_fp[c][k]
             /\ idempotency_fp[c][k] = None => MergedFp(c)[k] = inp.idempotency_fp[c][k]
    BY <1>2 DEF MergedIndex, MergedFp
  <1>7. \A i \in 1..Len(a) : a[i].key \in Keys \cup {None} /\ a[i].seq > 0
                             /\ a[i].seq \in Nat
    BY <1>1, <1>2, ItemFields DEF Distinct
  <1>8. \A i \in 1..Len(p) : p[i].key \in Keys \cup {None} /\ p[i].val \in Values
    BY <1>2, ItemFields
  <1>. HIDE DEF a, b, p, q
  <1>9. ASSUME NEW i \in 1..Len(q), LatestIn(q, i)
        PROVE  MergedIndex(c)[q[i].key] = q[i].seq /\ MergedFp(c)[q[i].key] = q[i].val
    <2>. DEFINE k == q[i].key
                sent == {j \in 1..Len(p) : p[j].key = k}
    <2>1. k # None /\ \A j \in 1..Len(q) : j > i => q[j].key # k
      BY <1>9 DEF LatestIn
    <2>2. CASE i \in 1..Len(a) /\ q[i] = a[i]
      <3>1. k \in Keys /\ a[i].key = k /\ a[i].seq # 0
        BY <1>7, <2>1, <2>2
      <3>2. LatestIn(a, i)
        BY <1>5, <2>1, <2>2, <3>1 DEF LatestIn
      <3>3. inp.idempotency_index[c][k] = a[i].seq /\ inp.idempotency_fp[c][k] = a[i].val
        BY <1>1, <2>2, <3>1, <3>2 DEF IndexOf, a
      <3>4. \A j \in 1..Len(p) : p[j].key # k
        <4>. TAKE j \in 1..Len(p)
        <4>1. j \in 1..Len(b) /\ j + Len(a) > i
          BY <1>2, <2>2
        <4>. QED BY <1>3, <1>5, <2>1, <4>1
      <3>5. sent = {}
        BY <3>4
      <3>6. idempotency_fp[c][k] = None
        BY <1>1, <3>1, <3>4 DEF FreshWindow, p
      <3>. QED BY <1>6, <2>2, <3>1, <3>3, <3>5, <3>6
    <2>3. CASE i - Len(a) \in 1..Len(b) /\ i > Len(a) /\ q[i] = b[i - Len(a)]
      <3>. DEFINE m == i - Len(a)
      <3>1. m \in 1..Len(p) /\ m \in Nat /\ q[i] = b[m] /\ m + Len(a) = i
        BY <1>2, <2>3
      <3>. HIDE DEF m
      <3>2. p[m].key = k /\ k \in Keys /\ q[i].val = p[m].val /\ p[m].val # None
        BY <1>3, <1>8, <2>1, <3>1, SessionAssumption
      <3>3. ASSUME NEW j \in 1..Len(p), j > m PROVE p[j].key # k
        <4>1. j + Len(a) > i /\ j \in 1..Len(b)
          BY <1>2, <3>1, <3>3
        <4>. QED BY <1>3, <1>5, <2>1, <4>1
      <3>4. sent \subseteq Nat /\ m \in sent /\ sent # {} /\ \A j \in sent : j <= m
        <4>1. m \in sent
          BY <3>1, <3>2
        <4>2. ASSUME NEW j \in sent PROVE j \in Nat /\ j <= m
          <5>1. j \in 1..Len(p) /\ p[j].key = k /\ Len(p) \in Nat
            BY <1>2, <4>2
          <5>. QED BY <3>1, <3>3, <5>1
        <4>. QED BY <4>1, <4>2
      <3>5. MergedIndex(c)[k] = b[Max(sent)].seq
        BY <1>6, <3>2, <3>4
      <3>. HIDE DEF sent
      <3>6. Max(sent) = m
        BY <3>4, MaxIsTop
      <3>7. LatestIn(p, m)
        BY <2>1, <3>2, <3>3 DEF LatestIn
      <3>8. idempotency_fp[c][k] = p[m].val
        BY <1>1, <3>1, <3>2, <3>7 DEF IndexOf, p
      <3>. QED BY <1>6, <3>1, <3>2, <3>5, <3>6, <3>8
    <2>. QED BY <1>4, <2>2, <2>3
  <1>10. IndexOf(q, MergedIndex(c), MergedFp(c))
    BY <1>9 DEF IndexOf
  <1>. QED BY <1>10 DEF q, a, b

LEMMA RehydrateNames ==
  ASSUME TypeOK, Booting, NamesInv, Rehydrate
  PROVE  NamesInv'
  <1>1. ~Rehydrated /\ Rehydrated'
    BY SessionAssumption DEF Booting, Rehydrate, Rehydrated, Unset
  <1>2. ASSUME NEW c \in Channels PROVE ChannelNames(c)'
    <2>1. /\ pending'[c] = inp.inbox[c] \o Restamped(c)
          /\ in_seq'[c] = HighWater(c) + Cardinality(Stale(c))
          /\ idempotency_index'[c] = MergedIndex(c)
          /\ idempotency_fp'[c] = MergedFp(c)
          /\ inp' = inp
      BY DEF Rehydrate
    <2>2. ChannelNames(c)
      BY DEF NamesInv
    <2>3. /\ FreshWindow(pending[c], in_seq[c], idempotency_fp[c])
          /\ Distinct(inp.inbox[c], inp.in_seq[c])
      BY <1>1, <2>2 DEF ChannelNames
    <2>4. Distinct(inp.inbox[c] \o Restamped(c), HighWater(c) + Cardinality(Stale(c)))
      BY <2>3, MergedDistinct
    <2>5. IndexOf(inp.inbox[c] \o Restamped(c), MergedIndex(c), MergedFp(c))
      BY <1>1, <2>2, MergedNamesLatest
    <2>. QED BY <1>1, <2>1, <2>2, <2>4, <2>5 DEF ChannelNames
  <1>. QED BY <1>2 DEF NamesInv

LEMMA EmptyNames ==
  /\ \A top, index, fp : Distinct(<<>>, top) /\ IndexOf(<<>>, index, fp)
  /\ FreshWindow(<<>>, 0, [k \in Keys |-> None])
  BY DEF Distinct, IndexOf, FreshWindow

LEMMA InitNames == Init => NamesInv
  <1>. SUFFICES ASSUME Init, NEW c \in Channels PROVE ChannelNames(c)
    BY DEF NamesInv
  <1>1. /\ pending[c] = <<>> /\ in_seq[c] = 0 /\ inp.inbox[c] = <<>>
        /\ idempotency_fp[c] = [k \in Keys |-> None] /\ ~Rehydrated
    BY DEF Init, Empty, Zero, NoFp, FirstInput, Rehydrated
  <1>. QED BY <1>1, EmptyNames DEF ChannelNames

LEMMA NextNames ==
  ASSUME IInv, NamesInv, [Next]_vars
  PROVE  NamesInv'
  <1>a. TypeOK /\ Booting
    BY DEF IInv
  <1>b. ASSUME UNCHANGED <<inbox, inp, capacity>> PROVE NamesInv'
    BY <1>b, NamesLeft DEF NamesInv, inbox
  <1>1. CASE UNCHANGED vars
    BY <1>1, <1>b DEF vars, chain
  <1>2. CASE WorkflowStep
    <2>1. CASE Rehydrate
      BY <1>a, <2>1, RehydrateNames
    <2>2. CASE ContinueAsNew
      <3>1. pc = "commit" /\ Rehydrated /\ ~Rehydrated'
        BY <1>a, <2>2 DEF ContinueAsNew, Booting, Rehydrated
      <3>2. ASSUME NEW c \in Channels PROVE ChannelNames(c)'
        <4>1. /\ pending'[c] = <<>> /\ in_seq'[c] = 0
              /\ idempotency_fp'[c] = [k \in Keys |-> None]
              /\ inp'.inbox = pending /\ inp'.in_seq = in_seq
              /\ inp'.idempotency_index = idempotency_index
              /\ inp'.idempotency_fp = idempotency_fp
          BY <2>2 DEF ContinueAsNew, CarriedInput, Empty, Zero, NoFp
        <4>2. ChannelNames(c)
          BY DEF NamesInv
        <4>. QED BY <3>1, <4>1, <4>2, EmptyNames DEF ChannelNames
      <3>. QED BY <3>2 DEF NamesInv
    <2>3. CASE Recv
      BY <1>a, <2>3, TakeNames DEF Recv, Booting, Channels
    <2>4. CASE GateAnswered
      BY <1>a, <2>4, TakeNames DEF GateAnswered, Booting, Channels
    <2>5. CASE Quiesce \/ Resume \/ AskHuman \/ StartEmit \/ StartFinalEmit
               \/ Emit \/ FatalError
      BY <1>b, <2>5 DEF Quiesce, Resume, AskHuman, StartEmit, StartFinalEmit,
         Emit, FatalError, FailSession, Goto, chain
    <2>6. CASE TurnDone \/ TurnError
      BY <1>b, <2>6 DEF TurnDone, TurnError, FailTurn, AfterTurn, chain
    <2>. QED BY <1>2, <2>1, <2>2, <2>3, <2>4, <2>5, <2>6 DEF WorkflowStep
  <1>3. CASE ActivityStep
    BY <1>3, <1>b DEF ActivityStep, IssueCommit, CommitFails, ActivityFails,
       RunCommit, Goto, chain
  <1>4. CASE Timeout
    BY <1>4, <1>b DEF Timeout, chain
  <1>5. CASE ClientStep
    <2>1. ASSUME NEW c \in Used, NEW key \in Keys \cup {None}, NEW value \in Values,
                 Send(c, key, value)
          PROVE  NamesInv'
      <3>1. c \in Channels
        BY DEF Used, Channels
      <3>. QED BY <1>a, <2>1, <3>1, SendNames
    <2>2. CASE Close \/ (\E seq \in 1..Emitted : Ack(seq))
               \/ (\E eseq \in 1..Shown : AckEvents(eseq))
      BY <1>b, <2>2 DEF Close, Ack, AckEvents, chain
    <2>. QED BY <1>5, <2>1, <2>2 DEF ClientStep
  <1>6. CASE BeforeRecv
    BY <1>6, <1>b DEF BeforeRecv, AskBeforeRecv, FailsBeforeRecv, FailTurn,
       FailSession, AfterTurn, Goto, chain
  <1>. QED BY <1>1, <1>2, <1>3, <1>4, <1>5, <1>6 DEF Next

(* The messages that wait can be told apart by their numbers, and the index*)
(* names the latest of every key (MessagesNamed), though a segment's       *)
(* handlers number and index from nothing until _rehydrate merges what they*)
(* accepted behind what the previous segment carried.                      *)
THEOREM WaitingMessagesNamed == Spec => []MessagesNamed
  <1>1. ASSUME TypeOK, NamesInv PROVE MessagesNamed
    <2>1. \A c \in Channels : DOMAIN pending[c] = 1..Len(pending[c])
      BY <1>1 DEF TypeOK
    <2>2. SeqUnique
      BY <1>1, <2>1 DEF NamesInv, ChannelNames, Distinct, SeqUnique
    <2>3. IndexNamesLatest
      BY <1>1, <2>1 DEF NamesInv, ChannelNames, IndexOf, LatestIn, IndexNamesLatest
    <2>. QED BY <2>2, <2>3 DEF MessagesNamed
  <1>2. IInv => TypeOK
    BY DEF IInv
  <1>3. IInv /\ NamesInv /\ [Next]_vars => NamesInv'
    BY NextNames
  <1>. QED BY <1>1, <1>2, <1>3, InitInv, NextInv, InitNames, PTL DEF Spec
=============================================================================
