------------------------ MODULE SessionOutputProofs ------------------------
(***************************************************************************)
(* Proofs about the outbound side of SessionWorkflow, for every value of   *)
(* its constants: no record and no output is lost before it was acked, an  *)
(* output in the buffer has its record in the log, the records of a body   *)
(* without gates follow the order of a turn, and the consumers of events() *)
(* are given every record.                                                 *)
(***************************************************************************)
EXTENDS SessionProofs, SessionHandle

(* A log, and a buffer, of what is numbered above ack and up to seq.       *)
Logged(log, seq, ack) ==
  /\ ack <= seq /\ Len(log) = seq - ack
  /\ \A i \in 1..Len(log) : log[i].eseq = ack + i

Buffered(buffer, seq, ack) ==
  /\ ack <= seq /\ Len(buffer) = seq - ack
  /\ \A i \in 1..Len(buffer) : buffer[i] = ack + i

(* The outputs that wait have their records, and the records their outputs.*)
Reports(log, s) ==
  \E i \in 1..Len(log) : log[i].kind = "emit" /\ log[i].out = s
OutsUpTo(log, seq) ==
  \A i \in 1..Len(log) : log[i].kind = "emit" => log[i].out <= seq
Reported(buffer, log, seq) ==
  /\ \A i \in 1..Len(buffer) : Reports(log, buffer[i])
  /\ OutsUpTo(log, seq)

(* What an execution holds once it is rehydrated, and what it was given.   *)
LiveOutput ==
  /\ Logged(event_log, event_seq, event_ack)
  /\ Buffered(out_buffer, out_seq, ack_cursor)
  /\ Reported(out_buffer, event_log, out_seq)
  /\ closed \/ Len(out_buffer) <= Capacity

CarriedOutput ==
  /\ Logged(inp.event_log, inp.event_seq, inp.event_ack)
  /\ Buffered(inp.out_buffer, inp.out_seq, inp.ack_cursor)
  /\ Reported(inp.out_buffer, inp.event_log, inp.out_seq)
  /\ inp.closed \/ Len(inp.out_buffer) <= Capacity

(* Nothing is emitted and nothing happens while an execution boots.        *)
NoOutputYet ==
  /\ event_log = <<>> /\ event_seq = 0
  /\ out_buffer = <<>> /\ out_seq = 0

OutInv ==
  /\ CarriedOutput
  /\ IF Rehydrated THEN LiveOutput ELSE NoOutputYet

(* The order of a turn.  Without gates a turn has started exactly while the*)
(* body runs after its recv, and its records have not reached done before  *)
(* that; a log that ends between turns ends with done or with the error of *)
(* a step before a recv.  What may come after an error depends on what came*)
(* before it (Fits).                                                       *)
Fits(before, kind, after) ==
  kind = "error" => IF before \in InTurn THEN after \in EndsTurn ELSE after # "done"
Ordered(log) ==
  /\ \A i \in 1..Len(log) - 1 : <<log[i].kind, log[i + 1].kind>> \in MayFollow
  /\ \A i \in 2..Len(log) - 1 :
       Fits(log[i - 1].kind, log[i].kind, log[i + 1].kind)
EndsIn(log, kinds) == log # <<>> => log[Len(log)].kind \in kinds
ReadyFor(log, kind) ==
  Len(log) >= 2 => Fits(log[Len(log) - 1].kind, log[Len(log)].kind, kind)

Outside == {"done", "error"}
Between(log) ==
  /\ EndsIn(log, Outside)
  /\ Len(log) >= 2 /\ log[Len(log)].kind = "error"
       => log[Len(log) - 1].kind \notin InTurn

TurnState ==
  /\ Ordered(event_log) /\ Ordered(inp.event_log) /\ Between(inp.event_log)
  /\ pc \notin {"ask", "gate"}
  /\ pc \in {"boot", "recv", "parked", "commit"} =>
       ~turn_started /\ Between(event_log)
  /\ pc \in {"body", "emit", "final"} =>
       turn_started /\ EndsIn(event_log, InTurn)

TurnInv == ~Gates => TurnState

-----------------------------------------------------------------------------
(* Eviction, for what is numbered without gaps.                            *)
LEMMA CountBelow ==
  ASSUME NEW a \in Nat, NEW b \in Nat, NEW n \in Nat, a <= b, b <= a + n,
         NEW P, P = {i \in 1..n : a + i <= b}
  PROVE  Cardinality(P) = b - a
  <1>. DEFINE k == b - a
  <1>1. P = 1..k /\ k \in Nat
    OBVIOUS
  <1>. HIDE DEF k
  <1>2. Cardinality(1..k) = IF 1 > k THEN 0 ELSE k - 1 + 1
    BY <1>1, FS_Interval
  <1>3. (IF 1 > k THEN 0 ELSE k - 1 + 1) = k
    BY <1>1
  <1>4. Cardinality(P) = Cardinality(1..k)
    BY <1>1, Zenon
  <1>. QED BY <1>2, <1>3, <1>4 DEF k

LEMMA SuffixOf ==
  ASSUME NEW S, NEW s \in Seq(S), NEW k \in Nat, k <= Len(s),
         NEW t, t = SubSeq(s, 1 + k, Len(s))
  PROVE  /\ t \in Seq(S) /\ Len(t) = Len(s) - k
         /\ \A i \in 1..Len(t) : i + k \in 1..Len(s) /\ t[i] = s[i + k]
         /\ k = 0 => t = s
  <1>1. /\ 1 + k \in Int /\ Len(s) \in Int /\ Len(s) \in Nat
        /\ \A i \in (1 + k)..Len(s) : s[i] \in S
    OBVIOUS
  <1>2. /\ t \in Seq(S)
        /\ Len(t) = IF 1 + k <= Len(s) THEN Len(s) - (1 + k) + 1 ELSE 0
        /\ \A i \in 1..(Len(s) - (1 + k) + 1) : t[i] = s[(1 + k) + i - 1]
    BY <1>1, SubSeqProperties
  <1>3. Len(t) = Len(s) - k
    BY <1>1, <1>2
  <1>4. \A i \in 1..Len(t) : i + k \in 1..Len(s) /\ t[i] = s[i + k]
    BY <1>1, <1>2, <1>3
  <1>5. k = 0 => t = s
    BY <1>1, <1>2, <1>3, <1>4, SeqEqual
  <1>. QED BY <1>2, <1>3, <1>4, <1>5

LEMMA EvictedLog ==
  ASSUME NEW log \in Seq(EventRecord), NEW seq \in Nat, NEW ack \in Nat,
         Logged(log, seq, ack),
         NEW acked \in Nat, ack <= acked, acked <= seq,
         NEW left, left = EvictEvents(log, acked)
  PROVE  /\ left \in Seq(EventRecord) /\ Logged(left, seq, acked)
         /\ \A i \in 1..Len(left) : /\ i + (acked - ack) \in 1..Len(log)
                                    /\ left[i] = log[i + (acked - ack)]
         /\ acked = ack => left = log
  <1>. DEFINE P == {i \in DOMAIN log : log[i].eseq <= acked}
              k == acked - ack
  <1>1. /\ DOMAIN log = 1..Len(log) /\ Len(log) = seq - ack
        /\ \A i \in 1..Len(log) : log[i].eseq = ack + i
        /\ Len(log) \in Nat /\ k \in Nat /\ k <= Len(log)
    BY DEF Logged
  <1>2. P = {i \in 1..Len(log) : ack + i <= acked}
    BY <1>1
  <1>3. Cardinality(P) = k
    <2>. HIDE DEF P
    <2>1. acked <= ack + Len(log)
      BY <1>1
    <2>. QED BY <1>1, <1>2, <2>1, CountBelow
  <1>4. left = SubSeq(log, 1 + k, Len(log))
    BY <1>3 DEF EvictEvents
  <1>5. /\ left \in Seq(EventRecord) /\ Len(left) = Len(log) - k
        /\ \A i \in 1..Len(left) : i + k \in 1..Len(log) /\ left[i] = log[i + k]
        /\ k = 0 => left = log
    <2>. HIDE DEF k
    <2>. QED BY <1>1, <1>4, SuffixOf
  <1>6. Logged(left, seq, acked)
    BY SMTT(20), <1>1, <1>5 DEF Logged
  <1>. QED BY <1>5, <1>6

LEMMA EvictedBuffer ==
  ASSUME NEW buffer \in Seq(Nat), NEW seq \in Nat, NEW ack \in Nat,
         Buffered(buffer, seq, ack),
         NEW acked \in Nat, ack <= acked, acked <= seq,
         NEW left, left = Evict(buffer, acked)
  PROVE  /\ left \in Seq(Nat) /\ Buffered(left, seq, acked)
         /\ Len(left) <= Len(buffer)
         /\ acked = ack => left = buffer
  <1>. DEFINE P == {i \in DOMAIN buffer : buffer[i] <= acked}
              k == acked - ack
  <1>1. /\ DOMAIN buffer = 1..Len(buffer) /\ Len(buffer) = seq - ack
        /\ \A i \in 1..Len(buffer) : buffer[i] = ack + i
        /\ Len(buffer) \in Nat /\ k \in Nat /\ k <= Len(buffer)
    BY DEF Buffered
  <1>2. P = {i \in 1..Len(buffer) : ack + i <= acked}
    BY <1>1
  <1>3. Cardinality(P) = k
    <2>. HIDE DEF P
    <2>. QED BY <1>1, <1>2, CountBelow
  <1>4. left = SubSeq(buffer, 1 + k, Len(buffer))
    BY <1>3 DEF Evict
  <1>5. /\ left \in Seq(Nat) /\ Len(left) = Len(buffer) - k
        /\ \A i \in 1..Len(left) : /\ i + k \in 1..Len(buffer)
                                   /\ left[i] = buffer[i + k]
        /\ k = 0 => left = buffer
    <2>. HIDE DEF k
    <2>. QED BY <1>1, <1>4, SuffixOf
  <1>6. Buffered(left, seq, acked)
    BY <1>1, <1>5 DEF Buffered
  <1>. QED BY <1>1, <1>5, <1>6

AckedUpTo(log, acked, m) ==
  \A i \in 1..Len(log) :
    log[i].kind = "emit" /\ log[i].eseq <= acked => log[i].out <= m

(* Acking records acks the outputs they report, and no output that was not *)
(* emitted; with nothing new to ack the cursor stays.                      *)
LEMMA AckedCursor ==
  ASSUME NEW log \in Seq(EventRecord), NEW seq \in Nat, NEW ack \in Nat,
         Logged(log, seq, ack), NEW acked \in Nat,
         NEW top \in Nat, NEW cursor \in Nat, cursor <= top,
         OutsUpTo(log, top),
         NEW m, m = AckedOutputs(log, acked, cursor)
  PROVE  /\ m \in Nat /\ cursor <= m /\ m <= top
         /\ AckedUpTo(log, acked, m)
         /\ acked = ack => m = cursor
  <1>. DEFINE Emits == {r \in Range(log) : r.kind = "emit" /\ r.eseq <= acked}
              S == {cursor} \cup {e.out : e \in Emits}
  <1>1. /\ DOMAIN log = 1..Len(log) /\ Len(log) \in Nat
        /\ \A i \in 1..Len(log) :
             /\ log[i].out \in Nat /\ log[i].eseq = ack + i
             /\ log[i].kind = "emit" => log[i].out <= top
    <2>1. /\ DOMAIN log = 1..Len(log) /\ Len(log) \in Nat
          /\ \A i \in 1..Len(log) : log[i] \in EventRecord
      OBVIOUS
    <2>2. \A i \in 1..Len(log) : log[i].out \in Nat
      BY <2>1 DEF EventRecord
    <2>3. \A i \in 1..Len(log) : log[i].eseq = ack + i
      BY DEF Logged
    <2>4. \A i \in 1..Len(log) : log[i].kind = "emit" => log[i].out <= top
      BY DEF OutsUpTo
    <2>. QED BY <2>1, <2>2, <2>3, <2>4
  <1>2. \A x \in S : x = cursor \/ \E i \in 1..Len(log) :
                       x = log[i].out /\ log[i].kind = "emit" /\ log[i].eseq <= acked
    BY <1>1 DEF Range
  <1>3. \A i \in 1..Len(log) :
          log[i].kind = "emit" /\ log[i].eseq <= acked => log[i].out \in S
    BY <1>1 DEF Range
  <1>4. cursor \in S
    OBVIOUS
  <1>5. m = Max(S)
    BY DEF AckedOutputs
  <1>. HIDE DEF S
  <1>6. S \subseteq Nat /\ S # {} /\ \A y \in S : y <= top
    BY <1>1, <1>2, <1>4
  <1>7. m \in S /\ \A y \in S : m >= y
    BY <1>5, <1>6, MaxInSet
  <1>8. m \in Nat /\ cursor <= m /\ m <= top
    BY <1>4, <1>6, <1>7
  <1>9. AckedUpTo(log, acked, m)
    BY <1>3, <1>6, <1>7 DEF AckedUpTo
  <1>10. ASSUME acked = ack PROVE m = cursor
    <2>1. \A i \in 1..Len(log) : ~ (log[i].eseq <= acked)
      BY <1>1, <1>10
    <2>. QED BY <1>2, <1>7, <2>1
  <1>. QED BY <1>8, <1>9, <1>10

(* The view of a consumer that acked the records up to some number.        *)
LEMMA AckedView ==
  ASSUME NEW log \in Seq(EventRecord), NEW seq \in Nat, NEW ack \in Nat,
         NEW buffer \in Seq(Nat), NEW top \in Nat, NEW cursor \in Nat,
         Logged(log, seq, ack), Buffered(buffer, top, cursor),
         Reported(buffer, log, top),
         NEW acked \in Nat, ack <= acked, acked <= seq,
         NEW m, m = AckedOutputs(log, acked, cursor),
         NEW left, left = EvictEvents(log, acked),
         NEW kept, kept = Evict(buffer, m)
  PROVE  /\ Logged(left, seq, acked) /\ Buffered(kept, top, m)
         /\ Reported(kept, left, top) /\ Len(kept) <= Len(buffer)
         /\ acked = ack => left = log /\ kept = buffer /\ m = cursor
  <1>1. /\ left \in Seq(EventRecord) /\ Logged(left, seq, acked)
        /\ \A i \in 1..Len(left) : /\ i + (acked - ack) \in 1..Len(log)
                                   /\ left[i] = log[i + (acked - ack)]
        /\ acked = ack => left = log
    BY EvictedLog
  <1>2. cursor <= top /\ OutsUpTo(log, top)
    BY DEF Buffered, Reported
  <1>3. /\ m \in Nat /\ cursor <= m /\ m <= top /\ AckedUpTo(log, acked, m)
        /\ acked = ack => m = cursor
    BY <1>2, AckedCursor
  <1>4. /\ kept \in Seq(Nat) /\ Buffered(kept, top, m) /\ Len(kept) <= Len(buffer)
        /\ m = cursor => kept = buffer
    <2>1. m \in Nat /\ cursor <= m /\ m <= top
      BY <1>3
    <2>. QED BY <2>1, EvictedBuffer
  <1>5. OutsUpTo(left, top)
    BY <1>1, <1>2 DEF OutsUpTo
  <1>6. ASSUME NEW i \in 1..Len(kept)
        PROVE  Reports(left, kept[i])
    <2>1. kept[i] = m + i /\ Len(kept) \in Nat /\ i \in Nat /\ i > 0
      BY <1>4 DEF Buffered
    <2>2. Reports(log, kept[i])
      <3>1. Len(kept) = top - m /\ Len(buffer) = top - cursor
        BY <1>4 DEF Buffered
      <3>2. \A x, y, z, j \in Nat :
              y <= x /\ x <= z /\ j \in 1..(z - x) =>
                /\ j + (x - y) \in 1..(z - y) /\ y + (j + (x - y)) = x + j
        OBVIOUS
      <3>a. m \in Nat /\ cursor <= m /\ m <= top
        BY <1>3
      <3>b. i \in Nat /\ i \in 1..(top - m)
        BY <2>1, <3>1
      <3>c. /\ i + (m - cursor) \in 1..(top - cursor)
            /\ cursor + (i + (m - cursor)) = m + i
        BY SMTT(20), <3>a, <3>b, <3>2
      <3>3. i + (m - cursor) \in 1..Len(buffer)
            /\ cursor + (i + (m - cursor)) = m + i
        BY <3>c, <3>1
      <3>4. buffer[i + (m - cursor)] = kept[i]
        BY <2>1, <3>3 DEF Buffered
      <3>. QED BY <3>3, <3>4 DEF Reported
    <2>3. PICK j \in 1..Len(log) : log[j].kind = "emit" /\ log[j].out = kept[i]
      BY <2>2 DEF Reports
    <2>4. ~ (log[j].eseq <= acked) /\ log[j].eseq = ack + j /\ j \in Nat
      BY SMTT(20), <1>3, <2>1, <2>3 DEF Logged, AckedUpTo
    <2>5. Len(log) = seq - ack /\ Len(left) = seq - acked
      BY <1>1 DEF Logged
    <2>6. j - (acked - ack) \in 1..Len(left)
      BY SMTT(20), <2>4, <2>5
    <2>7. left[j - (acked - ack)] = log[j]
      BY <1>1, <2>4, <2>6
    <2>. QED BY <2>3, <2>6, <2>7 DEF Reports
  <1>7. Reported(kept, left, top)
    BY <1>5, <1>6 DEF Reported
  <1>. QED BY <1>1, <1>3, <1>4, <1>7

(* AppendEvents evicts nothing: the records are numbered on, behind the log*)
LEMMA RecordsAppended ==
  ASSUME TypeOK, Logged(event_log, event_seq, event_ack),
         NEW records \in Seq(Unnumbered), AppendEvents(records)
  PROVE  /\ Logged(event_log', event_seq', event_ack')
         /\ Len(event_log') = Len(event_log) + Len(records)
         /\ \A i \in 1..Len(event_log) : event_log'[i] = event_log[i]
         /\ \A i \in 1..Len(records) :
              /\ event_log'[Len(event_log) + i].kind = records[i].kind
              /\ event_log'[Len(event_log) + i].out = records[i].out
  <1>. DEFINE stamped == [i \in DOMAIN records |->
                            [eseq |-> event_seq + i,
                             kind |-> records[i].kind, out |-> records[i].out]]
              whole == event_log \o stamped
  <1>1. /\ DOMAIN records = 1..Len(records) /\ Len(records) \in Nat
        /\ \A i \in DOMAIN records : records[i] \in Unnumbered
        /\ event_log \in Seq(EventRecord) /\ Len(event_log) \in Nat
        /\ event_seq \in Nat /\ event_ack \in Nat
    BY DEF TypeOK
  <1>2. \A i \in DOMAIN records :
          [eseq |-> event_seq + i, kind |-> records[i].kind,
           out |-> records[i].out] \in EventRecord
    BY <1>1 DEF Unnumbered, EventRecord
  <1>3. \A i \in 1..Len(records) :
          /\ stamped[i].eseq = event_seq + i
          /\ stamped[i].kind = records[i].kind /\ stamped[i].out = records[i].out
    BY <1>1
  <1>4. stamped \in Seq(EventRecord) /\ Len(stamped) = Len(records)
    <2>1. stamped \in [1..Len(records) -> EventRecord]
      BY <1>1, <1>2
    <2>. HIDE DEF stamped
    <2>. QED BY <1>1, <2>1
  <1>5. /\ event_seq' = event_seq + Len(records) /\ event_ack' = event_ack
        /\ event_log' = EvictEvents(whole, event_ack)
    BY DEF AppendEvents
  <1>. HIDE DEF stamped
  <1>6. /\ whole \in Seq(EventRecord)
        /\ Len(whole) = Len(event_log) + Len(records)
        /\ \A i \in 1..Len(event_log) : whole[i] = event_log[i]
        /\ \A i \in 1..Len(records) : whole[Len(event_log) + i] = stamped[i]
    <2>1. /\ whole \in Seq(EventRecord)
          /\ Len(whole) = Len(event_log) + Len(stamped)
          /\ \A i \in 1..Len(event_log) + Len(stamped) :
               whole[i] = IF i <= Len(event_log) THEN event_log[i]
                          ELSE stamped[i - Len(event_log)]
      BY <1>1, <1>4, ConcatProperties
    <2>. HIDE DEF whole
    <2>2. ASSUME NEW i \in 1..Len(records)
          PROVE  whole[Len(event_log) + i] = stamped[i]
      <3>1. /\ Len(event_log) + i \in 1..Len(event_log) + Len(stamped)
            /\ ~ (Len(event_log) + i <= Len(event_log))
            /\ (Len(event_log) + i) - Len(event_log) = i
        BY <1>1, <1>4
      <3>. QED BY <2>1, <3>1
    <2>3. ASSUME NEW i \in 1..Len(event_log)
          PROVE  whole[i] = event_log[i]
      <3>1. i \in 1..Len(event_log) + Len(stamped) /\ i <= Len(event_log)
        BY <1>1, <1>4
      <3>. QED BY <2>1, <3>1
    <2>4. Len(whole) = Len(event_log) + Len(records)
      BY <1>4, <2>1
    <2>. QED BY <2>1, <2>2, <2>3, <2>4
  <1>. HIDE DEF whole
  <1>7. Logged(whole, event_seq', event_ack)
    <2>1. /\ event_ack <= event_seq /\ Len(event_log) = event_seq - event_ack
          /\ \A i \in 1..Len(event_log) : event_log[i].eseq = event_ack + i
      BY DEF Logged
    <2>2. event_ack <= event_seq' /\ Len(whole) = event_seq' - event_ack
      BY <1>1, <1>5, <1>6, <2>1
    <2>3. ASSUME NEW i \in 1..Len(whole) PROVE whole[i].eseq = event_ack + i
      <3>1. CASE i <= Len(event_log)
        BY <1>1, <1>6, <2>1, <3>1
      <3>2. CASE ~ (i <= Len(event_log))
        <4>1. i - Len(event_log) \in 1..Len(records)
              /\ Len(event_log) + (i - Len(event_log)) = i
          BY <1>1, <1>6, <3>2
        <4>2. whole[i].eseq = event_seq + (i - Len(event_log))
          BY <1>3, <1>6, <4>1
        <4>. QED BY <1>1, <2>1, <4>2
      <3>. QED BY <3>1, <3>2
    <2>. QED BY <2>2, <2>3 DEF Logged
  <1>8. event_log' = whole
    <2>1. event_seq' \in Nat /\ event_ack <= event_seq'
      BY <1>1, <1>5, <1>7 DEF Logged
    <2>. QED BY <1>1, <1>5, <1>6, <1>7, <2>1, EvictedLog
  <1>. QED BY <1>3, <1>5, <1>6, <1>7, <1>8

(***************************************************************************)
(* What waits is never lost.                                               *)
(***************************************************************************)
(* Records are appended, with or without an output.                        *)
LEMMA RecordsKept ==
  ASSUME TypeOK, LiveOutput, Rehydrated,
         NEW records \in Seq(Unnumbered), AppendEvents(records),
         \A i \in 1..Len(records) : records[i].kind # "emit",
         UNCHANGED output, closed => closed'
  PROVE  LiveOutput'
  <1>1. /\ Logged(event_log', event_seq', event_ack')
        /\ Len(event_log') = Len(event_log) + Len(records)
        /\ \A i \in 1..Len(event_log) : event_log'[i] = event_log[i]
        /\ \A i \in 1..Len(records) :
             event_log'[Len(event_log) + i].kind = records[i].kind
    BY RecordsAppended DEF LiveOutput
  <1>2. Len(event_log) \in Nat /\ Len(records) \in Nat
    BY DEF TypeOK
  <1>3. out_buffer' = out_buffer /\ out_seq' = out_seq /\ ack_cursor' = ack_cursor
    BY DEF output
  <1>4. OutsUpTo(event_log', out_seq)
    <2>. SUFFICES ASSUME NEW i \in 1..Len(event_log'), event_log'[i].kind = "emit"
                  PROVE  event_log'[i].out <= out_seq
      BY DEF OutsUpTo
    <2>1. CASE i <= Len(event_log)
      BY <1>1, <1>2, <2>1 DEF LiveOutput, Reported, OutsUpTo
    <2>2. CASE ~ (i <= Len(event_log))
      <3>1. i - Len(event_log) \in 1..Len(records)
            /\ Len(event_log) + (i - Len(event_log)) = i
        BY <1>1, <1>2, <2>2
      <3>. QED BY <1>1, <3>1
    <2>. QED BY <2>1, <2>2
  <1>5. ASSUME NEW i \in 1..Len(out_buffer) PROVE Reports(event_log', out_buffer[i])
    <2>1. PICK j \in 1..Len(event_log) :
            event_log[j].kind = "emit" /\ event_log[j].out = out_buffer[i]
      BY DEF LiveOutput, Reported, Reports
    <2>2. j \in 1..Len(event_log') /\ event_log'[j] = event_log[j]
      BY <1>1, <1>2
    <2>. QED BY <2>1, <2>2 DEF Reports
  <1>. QED BY <1>1, <1>3, <1>4, <1>5 DEF LiveOutput, Reported

LEMMA OutputReported ==
  ASSUME TypeOK, LiveOutput, Rehydrated, PutOutput,
         NEW records \in Seq(Unnumbered), AppendEvents(records),
         Len(records) >= 1, records[1] = EmitRecord(out_seq'),
         \A i \in 1..Len(records) : i > 1 => records[i].kind # "emit",
         closed => closed'
  PROVE  LiveOutput'
  <1>1. /\ Logged(event_log', event_seq', event_ack')
        /\ Len(event_log') = Len(event_log) + Len(records)
        /\ \A i \in 1..Len(event_log) : event_log'[i] = event_log[i]
        /\ \A i \in 1..Len(records) :
             /\ event_log'[Len(event_log) + i].kind = records[i].kind
             /\ event_log'[Len(event_log) + i].out = records[i].out
    BY RecordsAppended DEF LiveOutput
  <1>2. /\ Len(event_log) \in Nat /\ Len(records) \in Nat /\ Len(out_buffer) \in Nat
        /\ out_seq \in Nat /\ ack_cursor \in Nat /\ out_buffer \in Seq(Nat)
        /\ Capacity \in Nat
    <2>1. /\ event_log \in Seq(EventRecord) /\ out_buffer \in Seq(Nat)
          /\ out_seq \in Nat /\ ack_cursor \in Nat
      BY DEF TypeOK
    <2>2. Capacity \in Nat
      BY SessionAssumption
    <2>. QED BY <2>1, <2>2
  <1>3. /\ out_seq' = out_seq + 1 /\ ack_cursor' = ack_cursor
        /\ out_buffer' = Append(out_buffer, out_seq + 1)
        /\ Len(out_buffer) < capacity \/ closed
    BY DEF PutOutput, RoomToEmit
  <1>4. /\ Len(out_buffer') = Len(out_buffer) + 1
        /\ \A i \in 1..Len(out_buffer) : out_buffer'[i] = out_buffer[i]
        /\ out_buffer'[Len(out_buffer) + 1] = out_seq + 1
    BY <1>2, <1>3, AppendProperties
  <1>5. records[1].kind = "emit" /\ records[1].out = out_seq + 1
    BY <1>3 DEF EmitRecord
  <1>6. /\ Len(event_log) + 1 \in 1..Len(event_log')
        /\ event_log'[Len(event_log) + 1].kind = "emit"
        /\ event_log'[Len(event_log) + 1].out = out_seq + 1
    <2>1. 1 \in 1..Len(records)
      BY <1>2
    <2>. QED BY <1>1, <1>2, <1>5, <2>1
  <1>7. OutsUpTo(event_log', out_seq + 1)
    <2>. SUFFICES ASSUME NEW i \in 1..Len(event_log'), event_log'[i].kind = "emit"
                  PROVE  event_log'[i].out <= out_seq + 1
      BY DEF OutsUpTo
    <2>1. CASE i <= Len(event_log)
      <3>1. i \in 1..Len(event_log) /\ event_log'[i] = event_log[i]
        BY <1>1, <1>2, <2>1
      <3>2. event_log[i].out <= out_seq
        BY <3>1 DEF LiveOutput, Reported, OutsUpTo
      <3>3. event_log[i].out \in Nat
        <4>1. event_log[i] \in EventRecord
          BY <3>1 DEF TypeOK
        <4>. QED BY <4>1 DEF EventRecord
      <3>. QED BY <1>2, <3>1, <3>2, <3>3
    <2>2. CASE ~ (i <= Len(event_log))
      <3>1. i - Len(event_log) \in 1..Len(records)
            /\ Len(event_log) + (i - Len(event_log)) = i
        BY <1>1, <1>2, <2>2
      <3>2. records[i - Len(event_log)].kind = "emit"
        BY <1>1, <3>1
      <3>3. i - Len(event_log) = 1
        BY <3>1, <3>2
      <3>. QED BY <1>2, <1>6, <3>1, <3>3
    <2>. QED BY <2>1, <2>2
  <1>8. ASSUME NEW i \in 1..Len(out_buffer')
        PROVE  Reports(event_log', out_buffer'[i])
    <2>1. CASE i \in 1..Len(out_buffer)
      <3>1. PICK j \in 1..Len(event_log) :
              event_log[j].kind = "emit" /\ event_log[j].out = out_buffer[i]
        BY <2>1 DEF LiveOutput, Reported, Reports
      <3>2. j \in 1..Len(event_log') /\ event_log'[j] = event_log[j]
        BY <1>1, <1>2
      <3>. QED BY <1>4, <2>1, <3>1, <3>2 DEF Reports
    <2>2. CASE i = Len(out_buffer) + 1
      BY <1>4, <1>6, <2>2 DEF Reports
    <2>. QED BY <1>2, <1>4, <2>1, <2>2
  <1>9. Buffered(out_buffer', out_seq', ack_cursor')
    <2>1. /\ ack_cursor <= out_seq /\ Len(out_buffer) = out_seq - ack_cursor
          /\ \A i \in 1..Len(out_buffer) : out_buffer[i] = ack_cursor + i
      BY DEF LiveOutput, Buffered
    <2>2. Len(out_buffer') = out_seq + 1 - ack_cursor /\ ack_cursor <= out_seq + 1
      BY <1>2, <1>4, <2>1
    <2>3. ASSUME NEW i \in 1..Len(out_buffer') PROVE out_buffer'[i] = ack_cursor + i
      <3>1. CASE i \in 1..Len(out_buffer)
        BY <1>4, <2>1, <3>1
      <3>2. CASE i = Len(out_buffer) + 1
        BY <1>2, <1>4, <2>1, <3>2
      <3>. QED BY <1>2, <1>4, <3>1, <3>2
    <2>4. out_seq' = out_seq + 1 /\ ack_cursor' = ack_cursor
      BY <1>3
    <2>5. Buffered(out_buffer', out_seq + 1, ack_cursor)
      BY <1>2, <2>2, <2>3 DEF Buffered
    <2>. QED BY <2>4, <2>5, Zenon
  <1>10. closed' \/ Len(out_buffer') <= Capacity
    <2>1. capacity = Capacity
      BY DEF TypeOK, Rehydrated
    <2>. QED BY <1>2, <1>3, <1>4, <2>1
  <1>. QED BY <1>1, <1>3, <1>7, <1>8, <1>9, <1>10 DEF LiveOutput, Reported

(* What the other records of a turn are made of.                           *)
Plain(records) ==
  records \in Seq(Unnumbered) /\ \A i \in 1..Len(records) : records[i].kind # "emit"

LEMMA PlainTogether ==
  ASSUME NEW a, NEW b, Plain(a), Plain(b)
  PROVE  Plain(a \o b)
  BY ConcatElement DEF Plain

LEMMA PlainRecords ==
  ASSUME TypeOK, NEW k \in Kinds, k # "emit"
  PROVE  Plain(<<Record(k)>>) /\ Plain(DoneIfStarted) /\ Plain(ClosedOnce)
  <1>1. /\ <<Record(k)>> \in Seq(Unnumbered) /\ DoneIfStarted \in Seq(Unnumbered)
        /\ ClosedOnce \in Seq(Unnumbered)
    BY RecordTypes DEF TypeOK
  <1>2. /\ \A i \in 1..Len(<<Record(k)>>) : <<Record(k)>>[i].kind # "emit"
        /\ \A i \in 1..Len(DoneIfStarted) : DoneIfStarted[i].kind # "emit"
        /\ \A i \in 1..Len(ClosedOnce) : ClosedOnce[i].kind # "emit"
    BY DEF Record, DoneIfStarted, ClosedOnce
  <1>. QED BY <1>1, <1>2 DEF Plain

(* The end of a turn, after an output or without one.                      *)
LEMMA TurnEndsKept ==
  ASSUME TypeOK, LiveOutput, Rehydrated,
         NEW records, Plain(records), AfterTurn(records), UNCHANGED output
  PROVE  LiveOutput'
  <1>1. Plain(records \o ClosedOnce)
    BY PlainRecords, PlainTogether DEF Kinds
  <1>2. closed => closed'
    BY DEF AfterTurn, closing
  <1>3. CASE AppendEvents(records)
    BY <1>2, <1>3, RecordsKept DEF Plain
  <1>4. CASE AppendEvents(records \o ClosedOnce)
    BY <1>1, <1>2, <1>4, RecordsKept DEF Plain
  <1>. QED BY <1>3, <1>4 DEF AfterTurn

LEMMA EmitFirst ==
  ASSUME TypeOK, NEW s \in Nat, NEW rest, Plain(rest),
         NEW records, records = <<EmitRecord(s)>> \o rest
  PROVE  /\ records \in Seq(Unnumbered) /\ Len(records) >= 1
         /\ records[1] = EmitRecord(s)
         /\ \A i \in 1..Len(records) : i > 1 => records[i].kind # "emit"
  <1>. DEFINE first == <<EmitRecord(s)>>
  <1>1. /\ first \in Seq(Unnumbered) /\ Len(first) = 1 /\ first[1] = EmitRecord(s)
        /\ rest \in Seq(Unnumbered) /\ Len(rest) \in Nat
        /\ \A i \in 1..Len(rest) : rest[i].kind # "emit"
    BY RecordTypes DEF TypeOK, Plain, Kinds
  <1>. HIDE DEF first
  <1>2. /\ records \in Seq(Unnumbered) /\ Len(records) = 1 + Len(rest)
        /\ \A i \in 1..1 + Len(rest) :
             records[i] = IF i <= 1 THEN first[i] ELSE rest[i - 1]
    BY <1>1, ConcatProperties DEF first
  <1>. QED BY <1>1, <1>2

LEMMA FinalOutputReported ==
  ASSUME TypeOK, LiveOutput, Rehydrated, PutOutput,
         AfterTurn(<<EmitRecord(out_seq')>> \o DoneIfStarted)
  PROVE  LiveOutput'
  <1>1. out_seq' \in Nat
    BY PutOutputType
  <1>2. Plain(DoneIfStarted) /\ Plain(ClosedOnce)
    BY PlainRecords DEF Kinds
  <1>3. closed => closed'
    BY DEF AfterTurn, closing
  <1>4. CASE AppendEvents(<<EmitRecord(out_seq')>> \o DoneIfStarted)
    BY <1>1, <1>2, <1>3, <1>4, EmitFirst, OutputReported
  <1>5. CASE AppendEvents((<<EmitRecord(out_seq')>> \o DoneIfStarted) \o ClosedOnce)
    <2>1. (<<EmitRecord(out_seq')>> \o DoneIfStarted) \o ClosedOnce
            = <<EmitRecord(out_seq')>> \o (DoneIfStarted \o ClosedOnce)
      <3>1. <<EmitRecord(out_seq')>> \in Seq(Unnumbered)
        BY <1>1, RecordTypes DEF TypeOK, Kinds
      <3>. QED BY <1>2, <3>1, ConcatAssociative DEF Plain
    <2>2. Plain(DoneIfStarted \o ClosedOnce)
      BY <1>2, PlainTogether
    <2>. QED BY <1>1, <1>3, <1>5, <2>1, <2>2, EmitFirst, OutputReported
  <1>. QED BY <1>4, <1>5 DEF AfterTurn

(* A client acks outputs, or records and with them outputs.                *)
LEMMA AcksKept ==
  ASSUME TypeOK, LiveOutput, Rehydrated, NEW n \in Nat,
         (n <= out_seq /\ Ack(n)) \/ (n <= event_seq /\ AckEvents(n))
  PROVE  LiveOutput'
  <1>1. /\ event_log \in Seq(EventRecord) /\ event_seq \in Nat /\ event_ack \in Nat
        /\ out_buffer \in Seq(Nat) /\ out_seq \in Nat /\ ack_cursor \in Nat
        /\ Len(out_buffer) \in Nat /\ Capacity \in Nat
    <2>1. Capacity \in Nat
      BY SessionAssumption
    <2>. QED BY <2>1 DEF TypeOK
  <1>2. ack_cursor <= out_seq /\ event_ack <= event_seq
    BY DEF LiveOutput, Logged, Buffered
  <1>3. CASE n <= out_seq /\ Ack(n)
    <2>. DEFINE m == Max({ack_cursor, n})
                kept == Evict(out_buffer, m)
    <2>1. m \in Nat /\ ack_cursor <= m /\ m <= out_seq
      <3>1. {ack_cursor, n} \subseteq Nat /\ {ack_cursor, n} # {}
            /\ \A y \in {ack_cursor, n} : y <= out_seq
        BY <1>1, <1>2, <1>3
      <3>2. m \in {ack_cursor, n} /\ \A y \in {ack_cursor, n} : m >= y
        BY <1>1, <3>1, MaxInSet
      <3>. QED BY <1>1, <3>1, <3>2
    <2>2. /\ ack_cursor' = m /\ out_buffer' = kept
          /\ UNCHANGED <<out_seq, event_log, event_seq, event_ack, closed>>
      BY <1>3 DEF Ack, events, closing
    <2>. HIDE DEF m
    <2>3. /\ kept \in Seq(Nat) /\ Buffered(kept, out_seq, m)
          /\ Len(kept) <= Len(out_buffer)
      BY <1>1, <2>1, EvictedBuffer DEF LiveOutput
    <2>. HIDE DEF kept
    <2>4. ASSUME NEW i \in 1..Len(kept) PROVE Reports(event_log, kept[i])
      <3>1. Len(kept) \in Nat /\ Len(kept) = out_seq - m /\ kept[i] = m + i
        BY <2>3 DEF Buffered
      <3>2. /\ Len(out_buffer) = out_seq - ack_cursor
            /\ \A j \in 1..Len(out_buffer) : out_buffer[j] = ack_cursor + j
        BY DEF LiveOutput, Buffered
      <3>3. i + (m - ack_cursor) \in 1..Len(out_buffer)
            /\ ack_cursor + (i + (m - ack_cursor)) = m + i
        BY <1>1, <2>1, <3>1, <3>2
      <3>4. out_buffer[i + (m - ack_cursor)] = kept[i]
        BY <3>1, <3>2, <3>3
      <3>. QED BY <3>3, <3>4 DEF LiveOutput, Reported
    <2>5. closed \/ Len(kept) <= Capacity
      <3>1. Len(kept) \in Nat
        BY <2>3
      <3>. QED BY <1>1, <2>3, <3>1 DEF LiveOutput
    <2>. QED BY <2>2, <2>3, <2>4, <2>5 DEF LiveOutput, Reported
  <1>4. CASE n <= event_seq /\ AckEvents(n)
    <2>. DEFINE acked == Max({event_ack, n})
                m == AckedOutputs(event_log, acked, ack_cursor)
                left == EvictEvents(event_log, acked)
                kept == Evict(out_buffer, m)
    <2>1. acked \in Nat /\ event_ack <= acked /\ acked <= event_seq
      <3>1. {event_ack, n} \subseteq Nat /\ {event_ack, n} # {}
            /\ \A y \in {event_ack, n} : y <= event_seq
        BY <1>1, <1>2, <1>4
      <3>2. acked \in {event_ack, n} /\ \A y \in {event_ack, n} : acked >= y
        BY <1>1, <3>1, MaxInSet
      <3>. QED BY <1>1, <3>1, <3>2
    <2>2. /\ event_ack' = acked /\ ack_cursor' = m
          /\ out_buffer' = kept /\ event_log' = left
          /\ UNCHANGED <<event_seq, out_seq, closed>>
      BY <1>4 DEF AckEvents, closing
    <2>. HIDE DEF acked
    <2>3. /\ Logged(left, event_seq, acked) /\ Buffered(kept, out_seq, m)
          /\ Reported(kept, left, out_seq) /\ Len(kept) <= Len(out_buffer)
      BY <1>1, <2>1, AckedView DEF LiveOutput
    <2>4. Len(kept) \in Nat
      <3>1. m \in Nat
        BY <1>1, <2>1, AckedOutputsType
      <3>2. kept \in Seq(Nat)
        BY <1>1, <3>1, EvictType
      <3>. QED BY <3>2
    <2>. HIDE DEF m, left, kept
    <2>5. closed \/ Len(kept) <= Capacity
      BY <1>1, <2>3, <2>4 DEF LiveOutput
    <2>. QED BY <2>2, <2>3, <2>5 DEF LiveOutput
  <1>. QED BY <1>3, <1>4

(* _rehydrate takes what was carried as it is: nothing of it was acked.    *)
LEMMA RehydratedOutput ==
  ASSUME TypeOK, CarriedOutput, NoOutputYet, Rehydrate
  PROVE  /\ LiveOutput'
         /\ event_log' = inp.event_log /\ event_seq' = inp.event_seq
  <1>1. /\ inp.event_log \in Seq(EventRecord) /\ inp.event_seq \in Nat
        /\ inp.event_ack \in Nat /\ inp.out_buffer \in Seq(Nat)
        /\ inp.out_seq \in Nat /\ inp.ack_cursor \in Nat
    BY DEF TypeOK, Carried
  <1>. DEFINE m == AckedOutputs(inp.event_log, inp.event_ack, inp.ack_cursor)
              left == EvictEvents(inp.event_log, inp.event_ack)
              kept == Evict(inp.out_buffer, m)
              top == Max({inp.event_seq} \cup {e.eseq : e \in Range(inp.event_log)})
  <1>2. /\ ack_cursor' = m /\ out_buffer' = kept /\ event_ack' = inp.event_ack
        /\ event_log' = left /\ event_seq' = top
        /\ out_seq' = Max({inp.out_seq, out_seq})
        /\ closed' = (inp.closed \/ closed)
    BY DEF Rehydrate
  <1>3. inp.event_ack <= inp.event_seq
    BY DEF CarriedOutput, Logged
  <1>4. left = inp.event_log /\ kept = inp.out_buffer /\ m = inp.ack_cursor
    <2>. HIDE DEF m, left
    <2>. DEFINE again == inp.event_ack
    <2>1. again \in Nat /\ again = inp.event_ack /\ inp.event_ack <= again
          /\ again <= inp.event_seq
      BY <1>1, <1>3
    <2>2. m = AckedOutputs(inp.event_log, again, inp.ack_cursor)
          /\ left = EvictEvents(inp.event_log, again)
      BY DEF m, left
    <2>. HIDE DEF again
    <2>. QED BY SMTT(20), <1>1, <2>1, <2>2, AckedView DEF CarriedOutput
  <1>5. top = inp.event_seq
    <2>. DEFINE S == {inp.event_seq} \cup {e.eseq : e \in Range(inp.event_log)}
    <2>1. /\ DOMAIN inp.event_log = 1..Len(inp.event_log)
          /\ Len(inp.event_log) = inp.event_seq - inp.event_ack
          /\ \A i \in 1..Len(inp.event_log) :
               inp.event_log[i].eseq = inp.event_ack + i
      BY <1>1 DEF CarriedOutput, Logged
    <2>2. \A i \in 1..Len(inp.event_log) :
            /\ inp.event_log[i].eseq \in Nat
            /\ inp.event_log[i].eseq <= inp.event_seq
      BY SMTT(20), <1>1, <2>1
    <2>3. S \subseteq Nat /\ inp.event_seq \in S /\ \A y \in S : y <= inp.event_seq
      BY <1>1, <2>1, <2>2 DEF Range
    <2>. HIDE DEF S
    <2>4. Max(S) = inp.event_seq
      BY <2>3, MaxIsTop
    <2>. QED BY <2>4 DEF S
  <1>6. out_seq' = inp.out_seq
    <2>1. out_seq = 0
      BY DEF NoOutputYet
    <2>2. {inp.out_seq, out_seq} \subseteq Nat /\ {inp.out_seq, out_seq} # {}
          /\ \A y \in {inp.out_seq, out_seq} : y <= inp.out_seq
      BY <1>1, <2>1
    <2>3. Max({inp.out_seq, out_seq}) = inp.out_seq
      BY <2>2, MaxIsTop
    <2>. QED BY <1>2, <2>3
  <1>. HIDE DEF m, left, kept, top
  <1>. QED BY <1>2, <1>4, <1>5, <1>6 DEF CarriedOutput, LiveOutput

(* Steps that leave the outputs, and steps of a rehydrated execution.      *)
LEMMA OutputLeft ==
  ASSUME OutInv, UNCHANGED <<output, events, inp, capacity>>, closed => closed'
  PROVE  OutInv'
  <1>1. /\ out_buffer' = out_buffer /\ out_seq' = out_seq /\ ack_cursor' = ack_cursor
        /\ event_log' = event_log /\ event_seq' = event_seq /\ event_ack' = event_ack
        /\ inp' = inp /\ Rehydrated' = Rehydrated
    BY DEF output, events, Rehydrated
  <1>2. CarriedOutput'
    BY <1>1 DEF OutInv, CarriedOutput
  <1>3. CASE Rehydrated
    BY <1>1, <1>2, <1>3 DEF OutInv, LiveOutput
  <1>4. CASE ~Rehydrated
    BY <1>1, <1>2, <1>4 DEF OutInv, NoOutputYet
  <1>. QED BY <1>3, <1>4

LEMMA OutputMoved ==
  ASSUME OutInv, Rehydrated, UNCHANGED <<inp, capacity>>, LiveOutput'
  PROVE  OutInv'
  BY DEF OutInv, CarriedOutput, Rehydrated

(* Before _rehydrate there is nothing to ack.                              *)
LEMMA NothingToAck ==
  ASSUME OutInv, ~Rehydrated, NEW n, Ack(n) \/ AckEvents(n)
  PROVE  OutInv'
  <1>1. /\ inp' = inp /\ Rehydrated' = Rehydrated /\ event_seq' = event_seq
        /\ out_seq' = out_seq
    BY DEF Ack, AckEvents, events, chain, Rehydrated
  <1>2. event_log = <<>> /\ out_buffer = <<>> /\ event_seq = 0 /\ out_seq = 0
    BY DEF OutInv, NoOutputYet
  <1>3. \A m : Evict(<<>>, m) = <<>> /\ EvictEvents(<<>>, m) = <<>>
    <2>. TAKE m
    <2>1. Cardinality({}) = 0
      BY FS_EmptySet
    <2>2. {i \in DOMAIN <<>> : <<>>[i] <= m} = {}
          /\ {i \in DOMAIN <<>> : <<>>[i].eseq <= m} = {}
      OBVIOUS
    <2>3. SubSeq(<<>>, 1 + 0, Len(<<>>)) = <<>>
      BY SubSeqEmpty
    <2>. QED BY <2>1, <2>2, <2>3 DEF Evict, EvictEvents
  <1>4. event_log' = <<>> /\ out_buffer' = <<>>
    BY <1>2, <1>3 DEF Ack, AckEvents, events
  <1>. QED BY <1>1, <1>2, <1>4 DEF OutInv, CarriedOutput, NoOutputYet

LEMMA InitOutput == Init => OutInv
  <1>. SUFFICES ASSUME Init PROVE OutInv
    OBVIOUS
  <1>1. ~Rehydrated /\ NoOutputYet
    BY DEF Init, Rehydrated, NoOutputYet
  <1>2. /\ inp.event_log = <<>> /\ inp.event_seq = 0 /\ inp.event_ack = 0
        /\ inp.out_buffer = <<>> /\ inp.out_seq = 0 /\ inp.ack_cursor = 0
    BY DEF Init, FirstInput
  <1>3. Capacity \in Nat
    BY SessionAssumption
  <1>4. Logged(<<>>, 0, 0) /\ Buffered(<<>>, 0, 0) /\ Reported(<<>>, <<>>, 0)
        /\ Len(<<>>) <= Capacity
    BY <1>3 DEF Logged, Buffered, Reported, OutsUpTo
  <1>. QED BY <1>1, <1>2, <1>4 DEF OutInv, CarriedOutput

LEMMA ContinuedOutput ==
  ASSUME IInv, OutInv, ContinueAsNew
  PROVE  OutInv'
  <1>1. Rehydrated /\ ~Rehydrated'
    BY DEF IInv, Booting, ContinueAsNew, Rehydrated, Unset
  <1>2. /\ inp'.event_log = event_log /\ inp'.event_seq = event_seq
        /\ inp'.event_ack = event_ack /\ inp'.out_buffer = out_buffer
        /\ inp'.out_seq = out_seq /\ inp'.ack_cursor = ack_cursor
        /\ inp'.closed = closed
    BY DEF ContinueAsNew, CarriedInput
  <1>3. CarriedOutput'
    BY <1>1, <1>2 DEF OutInv, LiveOutput, CarriedOutput
  <1>. QED BY <1>1, <1>3 DEF OutInv, NoOutputYet, ContinueAsNew

LEMMA FailedTurnOutput ==
  ASSUME TypeOK, Rehydrated, LiveOutput, NEW from, FailTurn(from)
  PROVE  LiveOutput'
  <1>1. AfterTurn(<<Record("error")>> \o DoneIfStarted) /\ UNCHANGED output
    BY DEF FailTurn
  <1>2. Plain(<<Record("error")>> \o DoneIfStarted)
    BY PlainRecords, PlainTogether DEF Kinds
  <1>. QED BY <1>1, <1>2, TurnEndsKept

LEMMA FailedSessionOutput ==
  ASSUME TypeOK, Rehydrated, LiveOutput, NEW from, FailSession(from)
  PROVE  LiveOutput'
  <1>1. AppendEvents(<<Record("error")>> \o ClosedOnce) /\ UNCHANGED output
        /\ closed'
    BY DEF FailSession
  <1>2. Plain(<<Record("error")>> \o ClosedOnce)
    BY PlainRecords, PlainTogether DEF Kinds
  <1>. QED BY <1>1, <1>2, RecordsKept DEF Plain

LEMMA NextOutput ==
  ASSUME IInv, OutInv, [Next]_vars
  PROVE  OutInv'
  <1>. USE DEF output, events, closing, chain
  <1>a. TypeOK /\ Booting
    BY DEF IInv
  <1>1. CASE UNCHANGED vars
    BY <1>1, OutputLeft DEF vars
  <1>2. CASE WorkflowStep
    <2>1. CASE Rehydrate
      <3>1. ~Rehydrated /\ Rehydrated' /\ inp' = inp
        BY <1>a, <2>1, SessionAssumption DEF Booting, Rehydrate, Rehydrated, Unset
      <3>2. LiveOutput'
        BY <1>a, <2>1, <3>1, RehydratedOutput DEF OutInv
      <3>. QED BY <3>1, <3>2 DEF OutInv, CarriedOutput
    <2>2. CASE ContinueAsNew
      BY <2>2, ContinuedOutput
    <2>3. CASE Resume \/ AskHuman \/ StartEmit \/ StartFinalEmit
      BY <2>3, OutputLeft DEF Resume, AskHuman, StartEmit, StartFinalEmit, Goto
    <2>4. CASE Recv \/ GateAnswered \/ Quiesce \/ Emit \/ TurnDone \/ TurnError
               \/ FatalError
      <3>1. Rehydrated
        BY <1>a, <2>4 DEF Booting, Recv, GateAnswered, Quiesce, Waiting, Emit,
           TurnDone, TurnError, FatalError, FailTurn, FailSession
      <3>2. LiveOutput
        BY <3>1 DEF OutInv
      <3>3. UNCHANGED <<inp, capacity>>
        BY <2>4 DEF Recv, GateAnswered, Take, Quiesce, Emit, TurnDone, TurnError,
           FatalError, FailTurn, FailSession, AfterTurn
      <3>4. ASSUME Recv \/ GateAnswered PROVE LiveOutput'
        <4>1. AppendEvents(<<Record("started")>>) /\ UNCHANGED <<output, closing>>
          BY <3>4 DEF Recv, GateAnswered, Take
        <4>2. Plain(<<Record("started")>>)
          BY <1>a, PlainRecords DEF Kinds
        <4>. QED BY <1>a, <3>1, <3>2, <4>1, <4>2, RecordsKept DEF Plain
      <3>5. ASSUME Quiesce PROVE LiveOutput'
        <4>1. AppendEvents(ClosedOnce) /\ UNCHANGED output /\ closed' = closed
          BY <3>5 DEF Quiesce
        <4>2. Plain(ClosedOnce)
          BY <1>a, PlainRecords DEF Kinds
        <4>. QED BY <1>a, <3>1, <3>2, <4>1, <4>2, RecordsKept DEF Plain
      <3>6. ASSUME Emit PROVE LiveOutput'
        <4>1. /\ AppendEvents(<<EmitRecord(out_seq')>>) /\ PutOutput
              /\ closed' = closed
          BY <3>6 DEF Emit
        <4>2. out_seq' \in Nat
          BY <1>a, <4>1, PutOutputType
        <4>3. <<EmitRecord(out_seq')>> \in Seq(Unnumbered)
          BY <1>a, <4>2, RecordTypes DEF TypeOK, Kinds
        <4>. QED BY SMTT(20), <1>a, <3>1, <3>2, <4>1, <4>3, OutputReported
      <3>7. ASSUME TurnDone PROVE LiveOutput'
        <4>1. CASE AfterTurn(DoneIfStarted) /\ UNCHANGED output
          <5>1. Plain(DoneIfStarted)
            BY <1>a, PlainRecords DEF Kinds
          <5>. QED BY <1>a, <3>1, <3>2, <4>1, <5>1, TurnEndsKept
        <4>2. CASE PutOutput /\ AfterTurn(<<EmitRecord(out_seq')>> \o DoneIfStarted)
          BY <1>a, <3>1, <3>2, <4>2, FinalOutputReported
        <4>. QED BY <3>7, <4>1, <4>2 DEF TurnDone
      <3>8. ASSUME TurnError PROVE LiveOutput'
        BY <1>a, <3>1, <3>2, <3>8, FailedTurnOutput DEF TurnError
      <3>9. ASSUME FatalError PROVE LiveOutput'
        BY <1>a, <3>1, <3>2, <3>9, FailedSessionOutput DEF FatalError
      <3>10. LiveOutput'
        BY <2>4, <3>4, <3>5, <3>6, <3>7, <3>8, <3>9
      <3>. QED BY <3>1, <3>3, <3>10, OutputMoved
    <2>. QED BY <1>2, <2>1, <2>2, <2>3, <2>4 DEF WorkflowStep
  <1>3. CASE ActivityStep
    <2>1. UNCHANGED <<output, events, inp, capacity, closed>>
      BY <1>3 DEF ActivityStep, IssueCommit, CommitFails, ActivityFails, RunCommit,
         Goto
    <2>. QED BY <2>1, OutputLeft
  <1>4. CASE Timeout
    BY <1>4, OutputLeft DEF Timeout
  <1>5. CASE ClientStep
    <2>1. ASSUME NEW c, NEW key, NEW value, Send(c, key, value)
          PROVE  OutInv'
      BY <2>1, OutputLeft DEF Send
    <2>2. CASE Close
      BY <2>2, OutputLeft DEF Close
    <2>3. ASSUME NEW n \in 1..Emitted, Ack(n)
          PROVE  OutInv'
      <3>1. CASE Rehydrated
        <4>1. n \in Nat /\ n <= out_seq
          BY <1>a, <3>1 DEF TypeOK, Emitted, Rehydrated
        <4>2. UNCHANGED <<inp, capacity>>
          BY <2>3 DEF Ack
        <4>3. LiveOutput'
          <5>1. LiveOutput /\ n <= out_seq /\ Ack(n)
            BY <2>3, <3>1, <4>1 DEF OutInv
          <5>. QED BY <1>a, <3>1, <4>1, <5>1, AcksKept
        <4>. QED BY <3>1, <4>2, <4>3, OutputMoved
      <3>. QED BY <2>3, <3>1, NothingToAck
    <2>4. ASSUME NEW n \in 1..Shown, AckEvents(n)
          PROVE  OutInv'
      <3>1. CASE Rehydrated
        <4>1. n \in Nat /\ n <= event_seq
          BY <1>a, <3>1 DEF TypeOK, Shown, Rehydrated
        <4>2. UNCHANGED <<inp, capacity>>
          BY <2>4 DEF AckEvents
        <4>3. LiveOutput'
          <5>1. LiveOutput /\ n <= event_seq /\ AckEvents(n)
            BY <2>4, <3>1, <4>1 DEF OutInv
          <5>. QED BY <1>a, <3>1, <4>1, <5>1, AcksKept
        <4>. QED BY <3>1, <4>2, <4>3, OutputMoved
      <3>. QED BY <2>4, <3>1, NothingToAck
    <2>. QED BY <1>5, <2>1, <2>2, <2>3, <2>4 DEF ClientStep
  <1>6. CASE BeforeRecv
    <2>1. CASE AskBeforeRecv \/ Goto("recv", "failed")
      BY <2>1, OutputLeft DEF AskBeforeRecv, Goto
    <2>2. CASE FailTurn("recv") \/ FailSession("recv")
      <3>1. Rehydrated /\ UNCHANGED <<inp, capacity>>
        BY <1>a, <2>2 DEF Booting, FailTurn, FailSession, AfterTurn
      <3>2. LiveOutput
        BY <3>1 DEF OutInv
      <3>3. LiveOutput'
        BY <1>a, <2>2, <3>1, <3>2, FailedTurnOutput, FailedSessionOutput
      <3>. QED BY <3>1, <3>3, OutputMoved
    <2>. QED BY <1>6, <2>1, <2>2 DEF BeforeRecv, FailsBeforeRecv
  <1>. QED BY <1>1, <1>2, <1>3, <1>4, <1>5, <1>6 DEF Next

LEMMA OutputHolds == Spec => [](IInv /\ OutInv)
  BY InitInv, NextInv, InitOutput, NextOutput, PTL DEF Spec

(* A consumer that comes late finds every record and every output that it  *)
(* has not acked (UnackedKept), for any capacity, any number of acks by    *)
(* either cursor and any number of segments.                               *)
THEOREM NothingUnackedIsLost == Spec => []UnackedKept
  <1>1. ASSUME IInv, OutInv PROVE UnackedKept
    <2>1. ASSUME Rehydrated
          PROVE  /\ Len(event_log) = event_seq - event_ack
                 /\ \A i \in DOMAIN event_log : event_log[i].eseq = event_ack + i
                 /\ Len(out_buffer) = out_seq - ack_cursor
                 /\ \A i \in DOMAIN out_buffer : out_buffer[i] = ack_cursor + i
                 /\ closed \/ Len(out_buffer) <= capacity
      <3>1. LiveOutput /\ capacity = Capacity
        BY <1>1, <2>1 DEF OutInv, IInv, TypeOK, Rehydrated
      <3>2. DOMAIN event_log = 1..Len(event_log) /\ DOMAIN out_buffer = 1..Len(out_buffer)
        BY <1>1 DEF IInv, TypeOK
      <3>. QED BY <3>1, <3>2 DEF LiveOutput, Logged, Buffered
    <2>. QED BY <2>1 DEF UnackedKept, EventsKept, OutputsKept
  <1>. QED BY <1>1, OutputHolds, PTL

(* An output that takes room in the buffer has its record in the log, so a *)
(* client that reads events only can always make room                      *)
(* (BufferedOutputReported).                                               *)
THEOREM BufferedOutputsReported == Spec => []BufferedOutputReported
  <1>1. ASSUME IInv, OutInv PROVE BufferedOutputReported
    <2>1. ASSUME Rehydrated, NEW s \in Range(out_buffer)
          PROVE  \E e \in Range(event_log) : e.kind = "emit" /\ e.out = s
      <3>1. /\ DOMAIN event_log = 1..Len(event_log)
            /\ DOMAIN out_buffer = 1..Len(out_buffer)
        BY <1>1 DEF IInv, TypeOK
      <3>2. PICK i \in 1..Len(out_buffer) : s = out_buffer[i]
        BY <2>1, <3>1 DEF Range
      <3>3. Reports(event_log, s)
        BY <1>1, <2>1, <3>2 DEF OutInv, LiveOutput, Reported
      <3>. QED BY <3>1, <3>3 DEF Reports, Range
    <2>. QED BY <2>1 DEF BufferedOutputReported
  <1>. QED BY <1>1, OutputHolds, PTL

(***************************************************************************)
(* The order of a turn, for a body without gates.                          *)
(***************************************************************************)
(* Records that follow each other, and what the log ends with.             *)
LEMMA OrderGoesOn ==
  ASSUME TypeOK, LiveOutput, Ordered(event_log),
         NEW kinds, EndsIn(event_log, kinds),
         NEW records \in Seq(Unnumbered), AppendEvents(records), Len(records) >= 1,
         \A i \in 1..Len(records) - 1 :
           <<records[i].kind, records[i + 1].kind>> \in MayFollow,
         \A k \in kinds : <<k, records[1].kind>> \in MayFollow,
         \A i \in 2..Len(records) - 1 :
           Fits(records[i - 1].kind, records[i].kind, records[i + 1].kind),
         \A k \in kinds :
           Len(records) >= 2 => Fits(k, records[1].kind, records[2].kind),
         ReadyFor(event_log, records[1].kind)
  PROVE  /\ Ordered(event_log') /\ EndsIn(event_log', {records[Len(records)].kind})
         /\ Len(event_log') = Len(event_log) + Len(records)
         /\ \A i \in 1..Len(event_log) : event_log'[i] = event_log[i]
  <1>. DEFINE n == Len(event_log)
  <1>1. /\ Len(event_log') = n + Len(records)
        /\ \A i \in 1..n : event_log'[i] = event_log[i]
        /\ \A i \in 1..Len(records) : event_log'[n + i].kind = records[i].kind
    BY RecordsAppended DEF LiveOutput
  <1>2. n \in Nat /\ Len(records) \in Nat /\ event_log \in Seq(EventRecord)
    BY DEF TypeOK
  <1>3. n # 0 => event_log[n].kind \in kinds
    BY <1>2 DEF EndsIn
  <1>. HIDE DEF n
  <1>4. ASSUME NEW i \in 1..Len(event_log') - 1
        PROVE  <<event_log'[i].kind, event_log'[i + 1].kind>> \in MayFollow
    <2>1. CASE i < n
      <3>1. i \in 1..n - 1 /\ i \in 1..n /\ i + 1 \in 1..n
        BY <1>1, <1>2, <2>1
      <3>. QED BY <1>1, <3>1 DEF Ordered, n
    <2>2. CASE i = n
      <3>1. i \in 1..n /\ n # 0 /\ 1 \in 1..Len(records)
        BY <1>1, <1>2, <2>2
      <3>2. event_log'[i] = event_log[n] /\ event_log'[i + 1].kind = records[1].kind
        BY <1>1, <2>2, <3>1
      <3>. QED BY <1>3, <3>1, <3>2
    <2>3. CASE i > n
      <3>1. /\ i - n \in 1..Len(records) - 1 /\ i - n \in 1..Len(records)
            /\ (i - n) + 1 \in 1..Len(records)
            /\ n + (i - n) = i /\ n + ((i - n) + 1) = i + 1
        BY <1>1, <1>2, <2>3
      <3>2. /\ event_log'[i].kind = records[i - n].kind
            /\ event_log'[i + 1].kind = records[(i - n) + 1].kind
        BY <1>1, <3>1
      <3>. QED BY <3>1, <3>2
    <2>. QED BY <1>1, <1>2, <2>1, <2>2, <2>3
  <1>5. event_log'[Len(event_log')].kind = records[Len(records)].kind
    <2>1. Len(records) \in 1..Len(records)
      BY <1>2
    <2>. QED BY <1>1, <2>1
  <1>6. ASSUME NEW i \in 2..Len(event_log') - 1
        PROVE  Fits(event_log'[i - 1].kind, event_log'[i].kind, event_log'[i + 1].kind)
    <2>1. CASE i < n
      <3>1. i \in 2..n - 1 /\ i - 1 \in 1..n /\ i \in 1..n /\ i + 1 \in 1..n
        BY <1>1, <1>2, <2>1
      <3>. QED BY <1>1, <3>1 DEF Ordered, n
    <2>2. CASE i = n
      <3>1. i - 1 \in 1..n /\ i \in 1..n /\ n >= 2 /\ 1 \in 1..Len(records)
        BY <1>1, <1>2, <2>2
      <3>2. /\ event_log'[i - 1] = event_log[n - 1] /\ event_log'[i] = event_log[n]
            /\ event_log'[i + 1].kind = records[1].kind
        BY <1>1, <2>2, <3>1
      <3>. QED BY <3>1, <3>2 DEF ReadyFor, n
    <2>3. CASE i = n + 1
      <3>1. /\ n \in 1..n /\ n # 0 /\ 1 \in 1..Len(records) /\ 2 \in 1..Len(records)
            /\ i - 1 = n /\ i + 1 = n + 2 /\ Len(records) >= 2
        BY <1>1, <1>2, <2>3
      <3>2. /\ event_log'[i - 1] = event_log[n]
            /\ event_log'[i].kind = records[1].kind
            /\ event_log'[i + 1].kind = records[2].kind
        BY <1>1, <2>3, <3>1
      <3>. QED BY <1>3, <3>1, <3>2
    <2>4. CASE i > n + 1
      <3>. DEFINE j == i - n
      <3>1. /\ j \in 2..Len(records) - 1 /\ j - 1 \in 1..Len(records)
            /\ j \in 1..Len(records) /\ j + 1 \in 1..Len(records)
            /\ n + (j - 1) = i - 1 /\ n + j = i /\ n + (j + 1) = i + 1
        BY <1>1, <1>2, <2>4
      <3>. HIDE DEF j
      <3>2. /\ event_log'[i - 1].kind = records[j - 1].kind
            /\ event_log'[i].kind = records[j].kind
            /\ event_log'[i + 1].kind = records[j + 1].kind
        BY <1>1, <3>1
      <3>. QED BY <3>1, <3>2
    <2>. QED BY <1>1, <1>2, <2>1, <2>2, <2>3, <2>4
  <1>. QED BY <1>1, <1>4, <1>5, <1>6 DEF EndsIn, Ordered, n

(* What eviction leaves is in order, and ends as before.                   *)
LEMMA OrderLeft ==
  ASSUME TypeOK, LiveOutput, Ordered(event_log), NEW acked \in Nat,
         event_ack <= acked, acked <= event_seq,
         NEW left, left = EvictEvents(event_log, acked)
  PROVE  /\ Ordered(left)
         /\ \A kinds : EndsIn(event_log, kinds) => EndsIn(left, kinds)
         /\ Between(event_log) => Between(left)
  <1>. DEFINE k == acked - event_ack
  <1>1. /\ event_log \in Seq(EventRecord) /\ event_seq \in Nat /\ event_ack \in Nat
        /\ Logged(event_log, event_seq, event_ack)
    BY DEF TypeOK, LiveOutput
  <1>2. /\ left \in Seq(EventRecord) /\ Logged(left, event_seq, acked)
        /\ \A i \in 1..Len(left) : i + k \in 1..Len(event_log)
                                   /\ left[i] = event_log[i + k]
    BY <1>1, EvictedLog
  <1>3. /\ k \in Nat /\ Len(event_log) \in Nat /\ Len(left) \in Nat
        /\ Len(left) + k = Len(event_log)
    BY <1>1, <1>2 DEF Logged
  <1>. HIDE DEF k
  <1>4. ASSUME NEW i \in 1..Len(left) - 1
        PROVE  <<left[i].kind, left[i + 1].kind>> \in MayFollow
    <2>1. /\ i \in 1..Len(left) /\ i + 1 \in 1..Len(left)
          /\ i + k \in 1..Len(event_log) - 1 /\ (i + 1) + k = (i + k) + 1
      BY <1>3
    <2>2. left[i] = event_log[i + k] /\ left[i + 1] = event_log[(i + k) + 1]
      BY <1>2, <2>1
    <2>. QED BY <2>1, <2>2 DEF Ordered
  <1>5. ASSUME NEW kinds, EndsIn(event_log, kinds), left # <<>>
        PROVE  left[Len(left)].kind \in kinds
    <2>1. Len(left) \in 1..Len(left)
      BY <1>2, <1>3, <1>5, EmptySeq
    <2>2. left[Len(left)] = event_log[Len(event_log)] /\ event_log # <<>>
      BY <1>1, <1>2, <1>3, <2>1
    <2>. QED BY <1>5, <2>2 DEF EndsIn
  <1>6. ASSUME NEW i \in 2..Len(left) - 1
        PROVE  Fits(left[i - 1].kind, left[i].kind, left[i + 1].kind)
    <2>1. /\ i - 1 \in 1..Len(left) /\ i \in 1..Len(left) /\ i + 1 \in 1..Len(left)
          /\ i + k \in 2..Len(event_log) - 1
          /\ (i - 1) + k = (i + k) - 1 /\ (i + 1) + k = (i + k) + 1
      BY <1>3
    <2>2. /\ left[i - 1] = event_log[(i + k) - 1] /\ left[i] = event_log[i + k]
          /\ left[i + 1] = event_log[(i + k) + 1]
      BY <1>2, <2>1
    <2>. QED BY <2>1, <2>2 DEF Ordered
  <1>7. ASSUME Between(event_log), Len(left) >= 2, left[Len(left)].kind = "error"
        PROVE  left[Len(left) - 1].kind \notin InTurn
    <2>1. /\ Len(left) - 1 \in 1..Len(left) /\ Len(left) \in 1..Len(left)
          /\ (Len(left) - 1) + k = Len(event_log) - 1 /\ Len(event_log) >= 2
      BY <1>3, <1>7
    <2>2. /\ left[Len(left)] = event_log[Len(event_log)]
          /\ left[Len(left) - 1] = event_log[Len(event_log) - 1]
      BY <1>2, <1>3, <2>1
    <2>. QED BY <1>7, <2>1, <2>2 DEF Between
  <1>. QED BY <1>4, <1>5, <1>6, <1>7 DEF EndsIn, Ordered, Between

(* Records that continue a log which ends with one of some kinds.          *)
Follows(kinds, records) ==
  /\ records \in Seq(Unnumbered) /\ Len(records) >= 1
  /\ \A i \in 1..Len(records) - 1 :
       <<records[i].kind, records[i + 1].kind>> \in MayFollow
  /\ \A k \in kinds : <<k, records[1].kind>> \in MayFollow
  /\ \A i \in 2..Len(records) - 1 :
       Fits(records[i - 1].kind, records[i].kind, records[i + 1].kind)
  /\ \A k \in kinds :
       Len(records) >= 2 => Fits(k, records[1].kind, records[2].kind)
LastOf(records) == records[Len(records)].kind

LEMMA FollowsOne ==
  ASSUME NEW kinds, NEW r \in Unnumbered,
         \A k \in kinds : <<k, r.kind>> \in MayFollow
  PROVE  Follows(kinds, <<r>>) /\ LastOf(<<r>>) = r.kind
  <1>1. <<r>> \in Seq(Unnumbered) /\ Len(<<r>>) = 1 /\ <<r>>[1] = r
    OBVIOUS
  <1>2. 1..1 - 1 = {} /\ 2..1 - 1 = {}
    OBVIOUS
  <1>. QED BY <1>1, <1>2 DEF Follows, LastOf

(* An error ends them only as the first of them, and then what comes next  *)
(* fits what came before.                                                  *)
ErrorFits(kinds, records, kind) ==
  LastOf(records) = "error" =>
    Len(records) = 1 /\ \A k \in kinds : Fits(k, "error", kind)

LEMMA FollowsMore ==
  ASSUME NEW kinds, NEW records, Follows(kinds, records), NEW r \in Unnumbered,
         <<LastOf(records), r.kind>> \in MayFollow, ErrorFits(kinds, records, r.kind)
  PROVE  /\ Follows(kinds, records \o <<r>>)
         /\ LastOf(records \o <<r>>) = r.kind
  <1>. DEFINE n == Len(records)
              all == records \o <<r>>
  <1>1. /\ records \in Seq(Unnumbered) /\ n \in Nat /\ n >= 1
        /\ <<r>> \in Seq(Unnumbered) /\ Len(<<r>>) = 1 /\ <<r>>[1] = r
    BY DEF Follows
  <1>2. /\ all \in Seq(Unnumbered) /\ Len(all) = n + 1
        /\ \A i \in 1..n : all[i] = records[i]
        /\ all[n + 1] = r
    BY <1>1, ConcatProperties
  <1>. HIDE DEF all, n
  <1>3. ASSUME NEW i \in 1..Len(all) - 1
        PROVE  <<all[i].kind, all[i + 1].kind>> \in MayFollow
    <2>1. CASE i < n
      <3>1. i \in 1..n - 1 /\ i \in 1..n /\ i + 1 \in 1..n
        BY <1>1, <1>2, <2>1
      <3>. QED BY <1>2, <3>1 DEF Follows, n
    <2>2. CASE i = n
      <3>1. n \in 1..n
        BY <1>1
      <3>2. all[i] = records[n] /\ all[i + 1] = r
        BY <1>2, <2>2, <3>1
      <3>. QED BY <3>2 DEF LastOf, n
    <2>. QED BY <1>1, <1>2, <2>1, <2>2
  <1>4. all[1] = records[1] /\ Len(all) >= 1 /\ n \in 1..n
    BY <1>1, <1>2
  <1>5. ASSUME NEW i \in 2..Len(all) - 1
        PROVE  Fits(all[i - 1].kind, all[i].kind, all[i + 1].kind)
    <2>1. CASE i < n
      <3>1. i \in 2..n - 1 /\ i - 1 \in 1..n /\ i \in 1..n /\ i + 1 \in 1..n
        BY <1>1, <1>2, <2>1
      <3>2. /\ all[i - 1] = records[i - 1] /\ all[i] = records[i]
            /\ all[i + 1] = records[i + 1]
        BY <1>2, <3>1
      <3>. QED BY <3>1, <3>2 DEF Follows, n
    <2>2. CASE i = n
      <3>1. all[i].kind = LastOf(records) /\ n # 1
        BY <1>2, <1>4, <2>2 DEF LastOf, n
      <3>. QED BY <3>1 DEF ErrorFits, Fits, n
    <2>. QED BY <1>1, <1>2, <2>1, <2>2
  <1>6. ASSUME NEW k \in kinds PROVE Fits(k, all[1].kind, all[2].kind)
    <2>1. CASE n >= 2
      <3>1. 2 \in 1..n /\ all[2] = records[2]
        BY <1>1, <1>2, <2>1
      <3>. QED BY <1>4, <2>1, <3>1 DEF Follows, n
    <2>2. CASE n = 1
      <3>1. all[1].kind = LastOf(records) /\ all[2] = r
        BY <1>2, <1>4, <2>2 DEF LastOf, n
      <3>. QED BY <3>1 DEF ErrorFits, Fits
    <2>. QED BY <1>1, <2>1, <2>2
  <1>. QED BY <1>2, <1>3, <1>4, <1>5, <1>6 DEF Follows, LastOf, all

LEMMA OrderAfter ==
  ASSUME TypeOK, LiveOutput, Ordered(event_log), NEW kinds, EndsIn(event_log, kinds),
         NEW records, Follows(kinds, records), AppendEvents(records),
         ReadyFor(event_log, records[1].kind)
  PROVE  /\ Ordered(event_log') /\ EndsIn(event_log', {LastOf(records)})
         /\ Len(event_log') = Len(event_log) + Len(records)
         /\ \A i \in 1..Len(event_log) : event_log'[i] = event_log[i]
  BY OrderGoesOn DEF Follows, LastOf

(* A closed record is the last one, if there is one at all.                *)
LEMMA OrderClosed ==
  ASSUME TypeOK, LiveOutput, Ordered(event_log), NEW kinds, EndsIn(event_log, kinds),
         NEW records, Follows(kinds, records),
         <<LastOf(records), "closed">> \in MayFollow,
         ErrorFits(kinds, records, "closed"), ReadyFor(event_log, records[1].kind),
         AppendEvents(records \o ClosedOnce)
  PROVE  Ordered(event_log')
  <1>1. CASE ClosedOnce = <<>>
    <2>1. records \o ClosedOnce = records
      BY <1>1, ConcatEmptySeq DEF Follows
    <2>2. AppendEvents(records)
      BY <2>1
    <2>. QED BY <2>2, OrderAfter
  <1>2. CASE ClosedOnce = <<Record("closed")>>
    <2>1. Record("closed") \in Unnumbered /\ Record("closed").kind = "closed"
      BY DEF Record, Unnumbered, Kinds
    <2>2. Follows(kinds, records \o ClosedOnce)
      BY <1>2, <2>1, FollowsMore
    <2>3. (records \o ClosedOnce)[1] = records[1]
      BY <1>2 DEF Follows
    <2>. QED BY <2>2, <2>3, OrderAfter
  <1>. QED BY <1>1, <1>2 DEF ClosedOnce

(* What a log is ready for, in a turn and between turns.                   *)
LEMMA ReadyBetween ==
  ASSUME NEW log, Between(log), NEW kind, kind # "done"
  PROVE  ReadyFor(log, kind)
  BY DEF Between, ReadyFor, Fits

LEMMA ReadyInTurn ==
  ASSUME NEW log \in Seq(EventRecord), EndsIn(log, InTurn), NEW kind
  PROVE  ReadyFor(log, kind)
  <1>1. Len(log) >= 2 => log # <<>>
    OBVIOUS
  <1>. QED BY <1>1 DEF EndsIn, ReadyFor, Fits, InTurn

LEMMA DoneIsBetween ==
  ASSUME NEW log \in Seq(EventRecord), EndsIn(log, {"done"})
  PROVE  Between(log)
  <1>1. Len(log) >= 2 => log # <<>>
    OBVIOUS
  <1>. QED BY <1>1 DEF EndsIn, Between, Outside

(* Nothing is closed twice: a log to which nothing is appended stays.      *)
LEMMA OrderQuiesced ==
  ASSUME TypeOK, LiveOutput, Ordered(event_log), Between(event_log),
         AppendEvents(ClosedOnce)
  PROVE  Ordered(event_log')
  <1>1. CASE ClosedOnce = <<>>
    <2>1. AppendEvents(<<>>) /\ <<>> \in Seq(Unnumbered) /\ Len(<<>>) = 0
      BY <1>1
    <2>2. /\ Len(event_log') = Len(event_log) + 0
          /\ \A i \in 1..Len(event_log) : event_log'[i] = event_log[i]
      BY <2>1, RecordsAppended DEF LiveOutput
    <2>3. Len(event_log) \in Nat
      BY DEF TypeOK
    <2>4. Len(event_log') = Len(event_log)
      BY <2>2, <2>3
    <2>5. /\ \A i \in 1..Len(event_log) - 1 : i \in 1..Len(event_log)
                                              /\ i + 1 \in 1..Len(event_log)
          /\ \A i \in 2..Len(event_log) - 1 : i - 1 \in 1..Len(event_log)
                                              /\ i \in 1..Len(event_log)
                                              /\ i + 1 \in 1..Len(event_log)
      BY <2>3
    <2>. QED BY <2>2, <2>4, <2>5 DEF Ordered
  <1>2. CASE ClosedOnce = <<Record("closed")>>
    <2>1. Record("closed") \in Unnumbered /\ Record("closed").kind = "closed"
      BY DEF Record, Unnumbered, Kinds
    <2>2. Follows(Outside, ClosedOnce) /\ ClosedOnce[1].kind = "closed"
      BY <1>2, <2>1, FollowsOne DEF MayFollow, Outside
    <2>3. EndsIn(event_log, Outside) /\ ReadyFor(event_log, "closed")
      BY ReadyBetween DEF Between
    <2>. QED BY <2>2, <2>3, OrderAfter
  <1>. QED BY <1>1, <1>2 DEF ClosedOnce

(* The end of a turn whose records end with done.                          *)
LEMMA TurnEndsInOrder ==
  ASSUME TypeOK, TypeOK', LiveOutput, TurnState, EndsIn(event_log, InTurn),
         NEW records, Follows(InTurn, records), LastOf(records) = "done",
         AfterTurn(records)
  PROVE  TurnState'
  <1>1. inp' = inp /\ turn_started' = FALSE
    BY DEF AfterTurn, chain
  <1>2. /\ Ordered(event_log) /\ event_log \in Seq(EventRecord)
        /\ event_log' \in Seq(EventRecord)
    BY DEF TurnState, TypeOK
  <1>3. ReadyFor(event_log, records[1].kind)
    BY <1>2, ReadyInTurn
  <1>4. CASE AppendEvents(records) /\ pc' \in {"commit", "recv"}
    <2>1. Ordered(event_log') /\ EndsIn(event_log', {"done"})
      BY <1>2, <1>3, <1>4, OrderAfter
    <2>2. Between(event_log')
      BY <1>2, <2>1, DoneIsBetween
    <2>. QED BY <1>1, <1>4, <2>1, <2>2 DEF TurnState
  <1>5. CASE AppendEvents(records \o ClosedOnce) /\ pc' = "done"
    <2>1. ErrorFits(InTurn, records, "closed") /\ <<"done", "closed">> \in MayFollow
      BY DEF ErrorFits, MayFollow
    <2>2. Ordered(event_log')
      BY <1>2, <1>3, <1>5, <2>1, OrderClosed
    <2>. QED BY <1>1, <1>5, <2>2 DEF TurnState
  <1>. QED BY <1>4, <1>5 DEF AfterTurn

(* A step before the recv that fails leaves its error between turns.       *)
LEMMA FailedBetween ==
  ASSUME TypeOK, TypeOK', LiveOutput, Ordered(event_log), Between(event_log),
         NEW rest \in {<<>>, ClosedOnce}, AppendEvents(<<Record("error")>> \o rest)
  PROVE  Ordered(event_log') /\ (rest = <<>> => Between(event_log'))
  <1>1. Record("error") \in Unnumbered /\ Record("error").kind = "error"
    BY DEF Record, Unnumbered, Kinds
  <1>2. /\ Follows(Outside, <<Record("error")>>)
        /\ LastOf(<<Record("error")>>) = "error"
    BY <1>1, FollowsOne DEF MayFollow, Outside
  <1>3. EndsIn(event_log, Outside) /\ ReadyFor(event_log, "error")
    BY ReadyBetween DEF Between
  <1>4. /\ <<Record("error")>>[1].kind = "error" /\ Len(<<Record("error")>>) = 1
        /\ <<Record("error")>> \in Seq(Unnumbered)
    BY <1>1
  <1>5. CASE rest = <<>>
    <2>1. AppendEvents(<<Record("error")>>)
      BY <1>4, <1>5, ConcatEmptySeq
    <2>2. /\ Ordered(event_log') /\ EndsIn(event_log', {"error"})
          /\ Len(event_log') = Len(event_log) + 1
          /\ \A i \in 1..Len(event_log) : event_log'[i] = event_log[i]
      BY <1>2, <1>3, <1>4, <2>1, OrderAfter
    <2>3. ASSUME Len(event_log') >= 2
          PROVE  event_log'[Len(event_log') - 1].kind \notin InTurn
      <3>0. event_log \in Seq(EventRecord) /\ Len(event_log) \in Nat
        BY DEF TypeOK
      <3>. DEFINE n == Len(event_log)
                  m == Len(event_log')
      <3>. HIDE DEF n, m
      <3>4. n \in Nat /\ m = n + 1 /\ m >= 2
        BY <2>2, <2>3, <3>0 DEF n, m
      <3>5. n \in 1..n /\ m - 1 = n /\ n # 0
        BY <3>4
      <3>1. /\ Len(event_log) \in 1..Len(event_log)
            /\ Len(event_log') - 1 = Len(event_log) /\ event_log # <<>>
        BY <3>5 DEF n, m
      <3>2. event_log[Len(event_log)].kind \in Outside
        BY <1>3, <3>1 DEF EndsIn
      <3>. QED BY <2>2, <3>1, <3>2 DEF Outside, InTurn
    <2>. QED BY <2>2, <2>3 DEF Between, EndsIn, Outside
  <1>6. CASE rest = ClosedOnce /\ rest # <<>>
    <2>1. ErrorFits(Outside, <<Record("error")>>, "closed")
          /\ <<"error", "closed">> \in MayFollow
      BY <1>4 DEF ErrorFits, Fits, Outside, InTurn, MayFollow
    <2>. QED BY <1>2, <1>3, <1>4, <1>6, <2>1, OrderClosed
  <1>. QED BY <1>5, <1>6

LEMMA TurnLeft ==
  ASSUME TurnState, UNCHANGED <<event_log, inp, turn_started>>,
         \/ pc' = pc \/ pc' = "failed"
         \/ pc = "body" /\ pc' \in {"emit", "final"}
         \/ pc \in {"recv", "parked"} /\ pc' \in {"recv", "parked"}
  PROVE  TurnState'
  BY DEF TurnState

LEMMA NextTurn ==
  ASSUME IInv, OutInv, TurnState, ~Gates, [Next]_vars
  PROVE  TurnState'
  <1>. USE DEF output, events, control, chain
  <1>a. TypeOK /\ Booting
    BY DEF IInv
  <1>b. Ordered(event_log) /\ pc \notin {"ask", "gate"}
    BY DEF TurnState
  <1>t. TypeOK'
    BY <1>a, NextType
  <1>l. event_log \in Seq(EventRecord)
    BY <1>a DEF TypeOK
  <1>c. /\ Record("started") \in Unnumbered /\ Record("done") \in Unnumbered
        /\ Record("error") \in Unnumbered /\ Record("closed") \in Unnumbered
        /\ Record("started").kind = "started" /\ Record("done").kind = "done"
        /\ Record("error").kind = "error" /\ Record("closed").kind = "closed"
    BY DEF Record, Unnumbered, Kinds
  <1>d. pc = "body" \/ pc = "emit" \/ pc = "final" =>
          /\ LiveOutput /\ EndsIn(event_log, InTurn)
          /\ DoneIfStarted = <<Record("done")>>
    BY <1>a DEF Booting, OutInv, TurnState, DoneIfStarted
  <1>e. pc = "recv" \/ pc = "parked" =>
          LiveOutput /\ Between(event_log) /\ turn_started = FALSE
    BY <1>a DEF Booting, OutInv, TurnState, TypeOK
  <1>1. CASE UNCHANGED vars
    BY <1>1, TurnLeft DEF vars
  <1>2. CASE WorkflowStep
    <2>1. CASE Rehydrate
      <3>1. ~Rehydrated
        BY <1>a, <2>1 DEF Booting, Rehydrate
      <3>2. event_log' = inp.event_log
        BY <1>a, <2>1, <3>1, RehydratedOutput DEF OutInv
      <3>3. /\ inp' = inp /\ turn_started' = turn_started
            /\ pc = "boot" /\ pc' = "recv"
        BY <2>1 DEF Rehydrate
      <3>. QED BY <3>2, <3>3 DEF TurnState
    <2>2. CASE ContinueAsNew
      <3>1. /\ pc = "commit" /\ pc' = "boot" /\ turn_started' = FALSE
            /\ event_log' = <<>> /\ inp'.event_log = event_log
        BY <2>2 DEF ContinueAsNew, CarriedInput
      <3>2. Ordered(<<>>) /\ Between(<<>>)
        BY DEF Ordered, EndsIn, Between
      <3>. QED BY <3>1, <3>2 DEF TurnState
    <2>3. CASE Resume \/ AskHuman \/ StartEmit \/ StartFinalEmit
      BY <2>3, TurnLeft DEF Resume, AskHuman, StartEmit, StartFinalEmit, Goto
    <2>4. CASE Recv
      <3>1. /\ pc = "recv" /\ pc' = "body" /\ turn_started' = TRUE /\ inp' = inp
            /\ AppendEvents(<<Record("started")>>)
        BY <2>4 DEF Recv, Take
      <3>2. Follows(Outside, <<Record("started")>>)
            /\ LastOf(<<Record("started")>>) = "started"
        BY <1>c, FollowsOne DEF MayFollow, Outside
      <3>5. EndsIn(event_log, Outside) /\ ReadyFor(event_log, "started")
        BY <1>e, <3>1, ReadyBetween DEF Between
      <3>3. Ordered(event_log') /\ EndsIn(event_log', {"started"})
        BY <1>a, <1>b, <1>c, <1>e, <3>1, <3>2, <3>5, OrderAfter
      <3>4. EndsIn(event_log', InTurn)
        BY <3>3 DEF EndsIn, InTurn
      <3>. QED BY <3>1, <3>3, <3>4 DEF TurnState
    <2>5. CASE GateAnswered
      BY <1>b, <2>5 DEF GateAnswered
    <2>6. CASE Quiesce
      <3>1. /\ pc \in {"recv", "parked"} /\ pc' = "done" /\ inp' = inp
            /\ AppendEvents(ClosedOnce)
        BY <1>b, <2>6 DEF Quiesce, Waiting
      <3>2. Ordered(event_log')
        BY <1>a, <1>b, <1>e, <3>1, OrderQuiesced
      <3>. QED BY <3>1, <3>2 DEF TurnState
    <2>7. CASE Emit
      <3>1. /\ pc = "emit" /\ pc' = "body" /\ turn_started' = turn_started
            /\ inp' = inp /\ AppendEvents(<<EmitRecord(out_seq')>>) /\ PutOutput
        BY <2>7 DEF Emit
      <3>2. out_seq' \in Nat
        BY <1>a, <3>1, PutOutputType
      <3>3. EmitRecord(out_seq') \in Unnumbered /\ EmitRecord(out_seq').kind = "emit"
        BY <3>2 DEF EmitRecord, Unnumbered, Kinds
      <3>4. Follows(InTurn, <<EmitRecord(out_seq')>>)
            /\ LastOf(<<EmitRecord(out_seq')>>) = "emit"
        BY <3>3, FollowsOne DEF MayFollow, InTurn
      <3>5. Ordered(event_log') /\ EndsIn(event_log', {"emit"})
        BY <1>a, <1>b, <1>d, <1>l, <3>1, <3>4, ReadyInTurn, OrderAfter
      <3>6. EndsIn(event_log', InTurn)
        BY <3>5 DEF EndsIn, InTurn
      <3>. QED BY <3>1, <3>5, <3>6 DEF TurnState
    <2>8. CASE TurnDone
      <3>1. CASE pc = "body" /\ AfterTurn(DoneIfStarted)
        <4>1. Follows(InTurn, <<Record("done")>>)
              /\ LastOf(<<Record("done")>>) = "done"
          BY <1>c, FollowsOne DEF MayFollow, InTurn
        <4>. QED BY <1>a, <1>t, <1>d, <3>1, <4>1, TurnEndsInOrder
      <3>2. CASE pc = "final" /\ PutOutput
                 /\ AfterTurn(<<EmitRecord(out_seq')>> \o DoneIfStarted)
        <4>1. out_seq' \in Nat
          BY <1>a, <3>2, PutOutputType
        <4>2. EmitRecord(out_seq') \in Unnumbered /\ EmitRecord(out_seq').kind = "emit"
          BY <4>1 DEF EmitRecord, Unnumbered, Kinds
        <4>3. Follows(InTurn, <<EmitRecord(out_seq')>>)
              /\ LastOf(<<EmitRecord(out_seq')>>) = "emit"
          BY <4>2, FollowsOne DEF MayFollow, InTurn
        <4>4. <<"emit", "done">> \in MayFollow
              /\ ErrorFits(InTurn, <<EmitRecord(out_seq')>>, "done")
          BY <4>3 DEF MayFollow, ErrorFits
        <4>5. /\ Follows(InTurn, <<EmitRecord(out_seq')>> \o <<Record("done")>>)
              /\ LastOf(<<EmitRecord(out_seq')>> \o <<Record("done")>>) = "done"
          BY <1>c, <4>3, <4>4, FollowsMore
        <4>. QED BY <1>a, <1>t, <1>d, <3>2, <4>5, TurnEndsInOrder
      <3>. QED BY <2>8, <3>1, <3>2 DEF TurnDone
    <2>9. CASE TurnError
      <3>1. pc = "body" /\ AfterTurn(<<Record("error")>> \o DoneIfStarted)
        BY <2>9 DEF TurnError, FailTurn
      <3>2. Follows(InTurn, <<Record("error")>>)
            /\ LastOf(<<Record("error")>>) = "error"
        BY <1>c, FollowsOne DEF MayFollow, InTurn
      <3>3. <<"error", "done">> \in MayFollow
            /\ ErrorFits(InTurn, <<Record("error")>>, "done")
        BY DEF MayFollow, ErrorFits, Fits, EndsTurn
      <3>4. /\ Follows(InTurn, <<Record("error")>> \o <<Record("done")>>)
            /\ LastOf(<<Record("error")>> \o <<Record("done")>>) = "done"
        BY <1>c, <3>2, <3>3, FollowsMore
      <3>. QED BY <1>a, <1>t, <1>d, <3>1, <3>4, TurnEndsInOrder
    <2>10. CASE FatalError
      <3>1. /\ pc = "body" /\ pc' = "failed" /\ inp' = inp
            /\ AppendEvents(<<Record("error")>> \o ClosedOnce)
        BY <2>10 DEF FatalError, FailSession
      <3>2. Follows(InTurn, <<Record("error")>>)
            /\ LastOf(<<Record("error")>>) = "error"
        BY <1>c, FollowsOne DEF MayFollow, InTurn
      <3>3. <<"error", "closed">> \in MayFollow
            /\ ErrorFits(InTurn, <<Record("error")>>, "closed")
        BY DEF MayFollow, ErrorFits, Fits, EndsTurn
      <3>4. Ordered(event_log')
        BY <1>a, <1>b, <1>d, <1>l, <3>1, <3>2, <3>3, ReadyInTurn, OrderClosed
      <3>. QED BY <3>1, <3>4 DEF TurnState
    <2>. QED BY <1>2, <2>1, <2>2, <2>3, <2>4, <2>5, <2>6, <2>7, <2>8, <2>9, <2>10
             DEF WorkflowStep
  <1>3. CASE ActivityStep
    <2>1. UNCHANGED <<event_log, inp, turn_started>> /\ (pc' = pc \/ pc' = "failed")
      BY <1>3 DEF ActivityStep, IssueCommit, CommitFails, ActivityFails, RunCommit,
         Goto
    <2>. QED BY <2>1, TurnLeft
  <1>4. CASE Timeout
    BY <1>4, <1>b, TurnLeft DEF Timeout, Waiting
  <1>5. CASE ClientStep
    <2>1. ASSUME NEW c, NEW key, NEW value, Send(c, key, value)
          PROVE  TurnState'
      BY <2>1, TurnLeft DEF Send
    <2>2. CASE Close
      BY <2>2, TurnLeft DEF Close
    <2>3. ASSUME NEW n, Ack(n)
          PROVE  TurnState'
      BY <2>3, TurnLeft DEF Ack
    <2>4. ASSUME NEW n \in 1..Shown, AckEvents(n)
          PROVE  TurnState'
      <3>1. /\ event_log' = EvictEvents(event_log, event_ack')
            /\ event_ack' = Max({event_ack, n}) /\ UNCHANGED <<inp, turn_started, pc>>
        BY <2>4 DEF AckEvents
      <3>2. CASE Rehydrated
        <4>1. /\ n \in Nat /\ n <= event_seq /\ event_ack \in Nat /\ event_seq \in Nat
              /\ event_ack <= event_seq /\ LiveOutput
          BY <1>a, <3>2 DEF TypeOK, Shown, Rehydrated, OutInv, LiveOutput, Logged
        <4>2. {event_ack, n} \subseteq Nat /\ {event_ack, n} # {}
              /\ \A y \in {event_ack, n} : y <= event_seq
          BY <4>1
        <4>3. /\ Max({event_ack, n}) \in {event_ack, n}
              /\ \A y \in {event_ack, n} : Max({event_ack, n}) >= y
          BY <4>1, <4>2, MaxInSet
        <4>4. event_ack' \in Nat /\ event_ack <= event_ack' /\ event_ack' <= event_seq
          BY <3>1, <4>1, <4>2, <4>3
        <4>5. /\ Ordered(event_log')
              /\ \A kinds : EndsIn(event_log, kinds) => EndsIn(event_log', kinds)
              /\ Between(event_log) => Between(event_log')
          BY <1>a, <1>b, <3>1, <4>1, <4>4, OrderLeft
        <4>. QED BY <3>1, <4>5 DEF TurnState
      <3>3. CASE ~Rehydrated
        <4>1. event_log' = <<>>
          BY <2>4, <3>3, NothingToAck DEF OutInv, NoOutputYet, AckEvents, Rehydrated
        <4>2. Ordered(<<>>) /\ Between(<<>>) /\ \A kinds : EndsIn(<<>>, kinds)
          BY DEF Ordered, EndsIn, Between
        <4>. QED BY <3>1, <4>1, <4>2 DEF TurnState
      <3>. QED BY <3>2, <3>3
    <2>. QED BY <1>5, <2>1, <2>2, <2>3, <2>4 DEF ClientStep
  <1>6. CASE BeforeRecv
    <2>1. CASE FailTurn("recv")
      <3>1. /\ pc = "recv" /\ AfterTurn(<<Record("error")>> \o <<>>)
            /\ LiveOutput /\ Between(event_log)
        BY <1>e, <2>1 DEF FailTurn, DoneIfStarted
      <3>2. inp' = inp /\ turn_started' = FALSE
        BY <3>1 DEF AfterTurn
      <3>3. CASE AppendEvents(<<Record("error")>> \o <<>>) /\ pc' \in {"commit", "recv"}
        <4>1. Ordered(event_log') /\ Between(event_log')
          BY <1>a, <1>b, <1>t, <3>1, <3>3, FailedBetween
        <4>. QED BY <3>2, <3>3, <4>1 DEF TurnState
      <3>4. CASE AppendEvents((<<Record("error")>> \o <<>>) \o ClosedOnce)
                 /\ pc' = "done"
        <4>1. (<<Record("error")>> \o <<>>) \o ClosedOnce
                = <<Record("error")>> \o ClosedOnce
          BY DEF ClosedOnce
        <4>2. Ordered(event_log')
          BY <1>a, <1>b, <1>t, <3>1, <3>4, <4>1, FailedBetween
        <4>. QED BY <3>2, <3>4, <4>2 DEF TurnState
      <3>. QED BY <3>1, <3>3, <3>4 DEF AfterTurn
    <2>2. CASE FailSession("recv")
      <3>1. /\ pc = "recv" /\ AppendEvents(<<Record("error")>> \o ClosedOnce)
            /\ LiveOutput /\ Between(event_log) /\ pc' = "failed" /\ inp' = inp
        BY <1>e, <2>2 DEF FailSession
      <3>2. Ordered(event_log')
        BY <1>a, <1>b, <1>t, <3>1, FailedBetween
      <3>. QED BY <3>1, <3>2 DEF TurnState
    <2>3. CASE Goto("recv", "failed")
      BY <2>3, TurnLeft DEF Goto
    <2>. QED BY <1>6, <2>1, <2>2, <2>3 DEF BeforeRecv, AskBeforeRecv, FailsBeforeRecv
  <1>. QED BY <1>1, <1>2, <1>3, <1>4, <1>5, <1>6 DEF Next

(* Without gates the records of every segment follow the order of a turn   *)
(* (TurnOrder), over evictions and continue-as-new.                        *)
THEOREM TurnsKeepTheirOrder == Spec => [](~Gates => TurnOrder)
  <1>1. Init => TurnInv
    <2>1. ASSUME Init PROVE TurnState
      <3>1. /\ event_log = <<>> /\ inp.event_log = <<>> /\ pc = "boot"
            /\ turn_started = FALSE
        BY <2>1 DEF Init, FirstInput
      <3>2. Ordered(<<>>) /\ Between(<<>>)
        BY DEF Ordered, EndsIn, Between
      <3>. QED BY <3>1, <3>2 DEF TurnState
    <2>. QED BY <2>1 DEF TurnInv
  <1>2. IInv /\ OutInv /\ TurnInv /\ [Next]_vars => TurnInv'
    BY NextTurn DEF TurnInv
  <1>3. TurnInv => (~Gates => TurnOrder)
    BY DEF TurnInv, TurnState, Ordered, Fits, TurnOrder
  <1>4. Spec => []TurnInv
    BY <1>1, <1>2, OutputHolds, PTL DEF Spec
  <1>. QED BY <1>3, <1>4, PTL

-----------------------------------------------------------------------------
(***************************************************************************)
(* The consumer.  events() is the only one that acks (~Reader), and it acks*)
(* what it yielded: what the session evicted, now or in an earlier segment,*)
(* was seen, and a record above what was seen is in the log or is still to *)
(* be appended.                                                            *)
(***************************************************************************)
Reading ==
  /\ last_eseq \in Nat /\ last_acked_eseq \in Nat /\ seen \in Nat
  /\ last_eseq <= seen /\ last_eseq <= Shown
  /\ event_ack <= seen /\ inp.event_ack <= seen

HandleInv == ~Reader /\ IInv /\ OutInv /\ Reading

LEMMA InitReading == ~Reader /\ HandleInit => HandleInv
  <1>. SUFFICES ASSUME ~Reader, HandleInit PROVE Reading
    BY InitInv, InitOutput DEF HandleInit, HandleInv
  <1>1. /\ last_eseq = 0 /\ last_acked_eseq = 0 /\ seen = 0
        /\ event_ack = 0 /\ inp.event_ack = 0
    BY DEF HandleInit, Init, FirstInput
  <1>2. Shown = 0
    BY DEF HandleInit, Init, FirstInput, Shown
  <1>. QED BY <1>1, <1>2 DEF Reading

(* An ack by the handle, also one that falls into the boot of a segment.   *)
LEMMA HandleAcks ==
  ASSUME IInv, OutInv, NEW n \in 1..Shown, AckEvents(n)
  PROVE  IInv' /\ OutInv' /\ Shown' = Shown
  <1>1. TypeOK /\ Booting /\ InboxFIFO
    BY DEF IInv
  <1>2. /\ UNCHANGED <<pending, accepted, consumed, inp, capacity, pc, event_seq>>
    BY DEF AckEvents, inbox, chain, control, ghosts
  <1>3. Shown \in Nat /\ n \in Nat
    <2>1. Shown \in Nat
      BY <1>1 DEF TypeOK, Carried, Shown
    <2>. QED BY <2>1
  <1>4. TypeOK'
    BY <1>1, <1>3, AckTypes
  <1>5. Booting' /\ InboxFIFO' /\ Shown' = Shown
    BY <1>1, <1>2 DEF Booting, Rehydrated, InboxFIFO, Inbox, Shown
  <1>6. OutInv'
    <2>1. CASE Rehydrated
      <3>1. n <= event_seq /\ LiveOutput
        BY <1>3, <2>1 DEF Shown, Rehydrated, OutInv
      <3>2. LiveOutput'
        BY <1>1, <1>3, <2>1, <3>1, AcksKept
      <3>. QED BY <1>2, <2>1, <3>2, OutputMoved
    <2>. QED BY <2>1, NothingToAck
  <1>. QED BY <1>4, <1>5, <1>6 DEF IInv

(* The session never shows less than it did, and acks nothing of its own.  *)
LEMMA SessionShows ==
  ASSUME ~Reader, IInv, OutInv, [Next]_vars
  PROVE  /\ Shown <= Shown'
         /\ \A top \in Nat : event_ack <= top /\ inp.event_ack <= top =>
              event_ack' <= top /\ inp'.event_ack <= top
  <1>0. TypeOK /\ Booting /\ event_seq \in Nat /\ event_ack \in Nat
        /\ inp.event_seq \in Nat /\ inp.event_ack \in Nat
    BY DEF IInv, TypeOK, Carried
  <1>1. CASE UNCHANGED <<event_seq, event_ack, inp, capacity>>
    BY <1>0, <1>1 DEF Shown
  <1>2. CASE Rehydrate
    <2>1. event_seq' = inp.event_seq /\ event_ack' = inp.event_ack /\ inp' = inp
      BY <1>0, <1>2, RehydratedOutput, SessionAssumption
         DEF OutInv, Booting, Rehydrate
    <2>2. ~Rehydrated /\ Rehydrated'
      BY <1>0, <1>2, SessionAssumption DEF Booting, Rehydrate, Rehydrated, Unset
    <2>. QED BY <1>0, <2>1, <2>2 DEF Shown, Rehydrated
  <1>3. CASE ContinueAsNew
    <2>1. inp'.event_seq = event_seq /\ inp'.event_ack = event_ack
          /\ event_ack' = 0
      BY <1>3 DEF ContinueAsNew, CarriedInput
    <2>2. Rehydrated /\ ~Rehydrated'
      BY <1>0, <1>3 DEF Booting, ContinueAsNew, Rehydrated, Unset
    <2>. QED BY <1>0, <2>1, <2>2 DEF Shown, Rehydrated
  <1>4. CASE \E records : /\ Len(records) \in Nat /\ AppendEvents(records)
                          /\ UNCHANGED <<inp, capacity>>
    <2>1. event_ack' = event_ack /\ event_seq <= event_seq' /\ inp' = inp
          /\ capacity' = capacity
      BY <1>0, <1>4 DEF AppendEvents
    <2>. QED BY <1>0, <2>1 DEF Shown
  <1>5. Next => \/ UNCHANGED <<event_seq, event_ack, inp, capacity>>
                \/ Rehydrate \/ ContinueAsNew
                \/ \E records : /\ Len(records) \in Nat /\ AppendEvents(records)
                                /\ UNCHANGED <<inp, capacity>>
    <2>. USE DEF events, chain
    <2>1. ASSUME Recv \/ GateAnswered \/ Quiesce \/ Emit \/ TurnDone \/ TurnError
                 \/ FatalError \/ FailTurn("recv") \/ FailSession("recv")
          PROVE  \E records : /\ Len(records) \in Nat /\ AppendEvents(records)
                              /\ UNCHANGED <<inp, capacity>>
      <3>1. /\ \A k : Len(<<Record(k)>>) \in Nat /\ Len(<<EmitRecord(k)>>) \in Nat
            /\ Len(DoneIfStarted) \in Nat /\ Len(ClosedOnce) \in Nat
            /\ \A k : Len(<<Record(k)>> \o DoneIfStarted) \in Nat
            /\ \A k : Len(<<EmitRecord(k)>> \o DoneIfStarted) \in Nat
            /\ \A k : Len(<<Record(k)>> \o ClosedOnce) \in Nat
        BY DEF DoneIfStarted, ClosedOnce
      <3>2. UNCHANGED <<inp, capacity>>
        BY <2>1 DEF Recv, GateAnswered, Take, Quiesce, Emit, TurnDone, TurnError,
           FatalError, FailTurn, FailSession, AfterTurn
      <3>3. CASE Recv \/ GateAnswered \/ Quiesce \/ Emit \/ FatalError
                 \/ FailSession("recv")
        BY <3>1, <3>2, <3>3 DEF Recv, GateAnswered, Take, Quiesce, Emit, FatalError,
           FailSession
      <3>4. ASSUME NEW records, Len(records) \in Nat,
                   Len(records \o ClosedOnce) \in Nat, AfterTurn(records)
            PROVE  \E r : Len(r) \in Nat /\ AppendEvents(r)
        BY <3>4 DEF AfterTurn
      <3>5. /\ Len(DoneIfStarted \o ClosedOnce) \in Nat
            /\ \A k : Len((<<Record(k)>> \o DoneIfStarted) \o ClosedOnce) \in Nat
            /\ \A k : Len((<<EmitRecord(k)>> \o DoneIfStarted) \o ClosedOnce) \in Nat
        BY DEF DoneIfStarted, ClosedOnce
      <3>6. CASE TurnDone \/ TurnError \/ FailTurn("recv")
        <4>1. \E records : /\ Len(records) \in Nat
                           /\ Len(records \o ClosedOnce) \in Nat
                           /\ AfterTurn(records)
          BY <3>1, <3>5, <3>6 DEF TurnDone, TurnError, FailTurn
        <4>. QED BY <3>2, <3>4, <4>1
      <3>. QED BY <2>1, <3>3, <3>6
    <2>2. ASSUME Resume \/ AskHuman \/ StartEmit \/ StartFinalEmit \/ Timeout
                 \/ ActivityStep \/ AskBeforeRecv \/ Goto("recv", "failed")
          PROVE  UNCHANGED <<event_seq, event_ack, inp, capacity>>
      BY <2>2 DEF Resume, AskHuman, AskBeforeRecv, StartEmit, StartFinalEmit, Timeout, Goto,
         ActivityStep, IssueCommit, CommitFails, ActivityFails, RunCommit
    <2>3. ASSUME ClientStep
          PROVE  UNCHANGED <<event_seq, event_ack, inp, capacity>>
      BY <2>3 DEF ClientStep, Send, Close
    <2>. QED BY <2>1, <2>2, <2>3 DEF Next, WorkflowStep, BeforeRecv, FailsBeforeRecv
  <1>6. CASE UNCHANGED vars
    BY <1>1, <1>6 DEF vars, events, chain
  <1>. QED BY <1>1, <1>2, <1>3, <1>4, <1>5, <1>6

(* The next record is the one after the last that was yielded, or after the*)
(* last that was acked if this handle does not know of it.                 *)
LEMMA NextRecord ==
  ASSUME HandleInv, Unread # {},
         NEW item, item = CHOOSE e \in Unread : \A f \in Unread : e.eseq <= f.eseq
  PROVE  /\ item.eseq \in Nat /\ item.eseq <= seen + 1
         /\ last_eseq < item.eseq /\ item.eseq <= Shown
  <1>1. /\ event_log \in Seq(EventRecord) /\ event_seq \in Nat /\ event_ack \in Nat
        /\ last_eseq \in Nat /\ seen \in Nat
        /\ last_eseq <= seen /\ event_ack <= seen
        /\ DOMAIN event_log = 1..Len(event_log)
    BY DEF HandleInv, IInv, TypeOK, Reading
  <1>2. \A e \in Unread : \E i \in 1..Len(event_log) : e = event_log[i]
    BY <1>1 DEF Unread, Range
  <1>3. Rehydrated /\ Logged(event_log, event_seq, event_ack)
    <2>1. event_log # <<>>
      BY <1>2
    <2>. QED BY <2>1 DEF HandleInv, OutInv, NoOutputYet, LiveOutput
  <1>4. /\ event_ack <= event_seq /\ Len(event_log) = event_seq - event_ack
        /\ \A i \in 1..Len(event_log) : event_log[i].eseq = event_ack + i
    BY <1>3 DEF Logged
  <1>. DEFINE top == IF last_eseq < event_ack THEN event_ack ELSE last_eseq
              next == event_log[top + 1 - event_ack]
  <1>5. PICK some \in Unread : TRUE
    OBVIOUS
  <1>6. PICK j \in 1..Len(event_log) : some = event_log[j]
    BY <1>2, <1>5
  <1>7. some.eseq > last_eseq
    BY <1>5 DEF Unread
  <1>8. top \in Nat /\ event_ack <= top /\ last_eseq <= top /\ top <= seen
    BY <1>1
  <1>9. top + 1 - event_ack \in 1..Len(event_log)
    <2>1. event_ack + j > last_eseq /\ j \in Nat /\ j > 0 /\ j <= Len(event_log)
      BY <1>4, <1>6, <1>7
    <2>. QED BY <1>1, <1>4, <2>1
  <1>10. next.eseq = top + 1
    <2>. HIDE DEF top
    <2>. QED BY <1>1, <1>4, <1>8, <1>9
  <1>11. next \in Unread
    <2>1. next \in Range(event_log)
      BY <1>1, <1>9 DEF Range
    <2>2. next.eseq > last_eseq
      BY <1>1, <1>8, <1>10
    <2>. QED BY <2>1, <2>2 DEF Unread
  <1>. HIDE DEF next, top
  <1>12. \A f \in Unread : next.eseq <= f.eseq
    <2>. TAKE f \in Unread
    <2>1. PICK i \in 1..Len(event_log) : f = event_log[i]
      BY <1>2
    <2>2. f.eseq = event_ack + i /\ f.eseq > last_eseq /\ i \in Nat /\ i > 0
      BY <1>4, <2>1 DEF Unread
    <2>3. top + 1 <= f.eseq
      BY <1>1, <2>2 DEF top
    <2>. QED BY <1>10, <2>3
  <1>13. item \in Unread /\ \A f \in Unread : item.eseq <= f.eseq
    BY <1>11, <1>12, Zenon
  <1>14. PICK i \in 1..Len(event_log) : item = event_log[i]
    BY <1>2, <1>13
  <1>15. item.eseq = event_ack + i /\ item.eseq > last_eseq
         /\ item.eseq <= top + 1 /\ i \in Nat /\ i <= event_seq - event_ack
    <2>1. item.eseq > last_eseq
      BY <1>13 DEF Unread
    <2>2. item.eseq <= top + 1
      BY <1>10, <1>11, <1>13
    <2>3. item.eseq = event_ack + i
      BY <1>4, <1>14
    <2>4. i \in Nat /\ i <= event_seq - event_ack
      BY <1>4, <1>14
    <2>. QED BY <2>1, <2>2, <2>3, <2>4
  <1>16. Shown = event_seq
    BY <1>3 DEF Shown, Rehydrated
  <1>. QED BY <1>1, <1>4, <1>8, <1>15, <1>16

LEMMA NextReading ==
  ASSUME HandleInv, [HandleNext]_allvars
  PROVE  HandleInv' /\ seen' <= seen + 1
  <1>. USE DEF handle
  <1>0. /\ ~Reader /\ IInv /\ OutInv /\ Reading /\ Shown \in Nat
        /\ last_eseq \in Nat /\ last_acked_eseq \in Nat /\ seen \in Nat
        /\ event_ack \in Nat
    BY DEF HandleInv, Reading, IInv, TypeOK, Carried, Shown
  <1>1. ASSUME [Next]_vars PROVE IInv' /\ OutInv'
    BY <1>0, <1>1, NextInv, NextOutput
  <1>2. CASE [Next]_vars /\ UNCHANGED <<last_eseq, last_acked_eseq, seen>>
    <2>1. /\ Shown <= Shown' /\ event_ack' <= seen /\ inp'.event_ack <= seen
      BY <1>0, <1>2, SessionShows DEF Reading
    <2>2. Shown' \in Nat
      BY <1>1, <1>2 DEF IInv, TypeOK, Carried, Shown
    <2>. QED BY <1>0, <1>1, <1>2, <2>1, <2>2 DEF HandleInv, Reading
  <1>3. CASE HandleAck /\ ~ UNCHANGED vars
    <2>1. AckEvents(last_eseq) /\ last_eseq > last_acked_eseq
      BY <1>3 DEF HandleAck
    <2>2. last_eseq \in 1..Shown
      BY <1>0, <2>1 DEF Reading
    <2>3. IInv' /\ OutInv' /\ Shown' = Shown
      BY <1>0, <2>1, <2>2, HandleAcks
    <2>4. /\ last_eseq' = last_eseq /\ last_acked_eseq' = last_eseq
          /\ seen' = seen /\ inp' = inp
      BY <1>3, <2>1 DEF HandleAck, AckEvents, chain
    <2>5. event_ack' <= seen
      <3>1. Max({event_ack, last_eseq}) \in {event_ack, last_eseq}
        <4>1. {event_ack, last_eseq} \subseteq Nat /\ {event_ack, last_eseq} # {}
              /\ \A y \in {event_ack, last_eseq} : y <= seen
          BY <1>0 DEF Reading
        <4>. QED BY <1>0, <4>1, MaxInSet
      <3>. QED BY <1>0, <2>1, <3>1 DEF AckEvents, Reading
    <2>. QED BY <1>0, <2>3, <2>4, <2>5 DEF HandleInv, Reading
  <1>4. CASE HandleYield
    <2>. DEFINE item == CHOOSE e \in Unread : \A f \in Unread : e.eseq <= f.eseq
    <2>1. /\ Unread # {} /\ last_eseq' = item.eseq
          /\ seen' = Max({seen, item.eseq}) /\ UNCHANGED <<vars, last_acked_eseq>>
      BY <1>4 DEF HandleYield
    <2>2. /\ item.eseq \in Nat /\ item.eseq <= seen + 1
          /\ last_eseq < item.eseq /\ item.eseq <= Shown
      BY <2>1, NextRecord
    <2>. HIDE DEF item
    <2>3. seen' \in Nat /\ seen' <= seen + 1 /\ item.eseq <= seen' /\ seen <= seen'
      <3>. DEFINE n == item.eseq
                  S == {seen, n}
      <3>1. n \in Nat /\ n = item.eseq /\ n <= seen + 1 /\ seen' = Max(S)
        BY <2>1, <2>2
      <3>. HIDE DEF n
      <3>2. S \subseteq Nat /\ S # {} /\ seen + 1 \in Nat
            /\ \A y \in S : y <= seen + 1
        BY <1>0, <3>1
      <3>3. seen \in S /\ n \in S
        OBVIOUS
      <3>. HIDE DEF S
      <3>4. Max(S) \in S /\ \A y \in S : Max(S) >= y
        BY <3>2, MaxInSet
      <3>. QED BY <3>1, <3>2, <3>3, <3>4
    <2>4. Shown' = Shown /\ event_ack' = event_ack /\ inp' = inp
      BY <2>1 DEF vars, events, chain, Shown
    <2>5. inp.event_ack \in Nat
      BY <1>0 DEF IInv, TypeOK, Carried
    <2>. QED BY <1>0, <1>1, <2>1, <2>2, <2>3, <2>4, <2>5 DEF HandleInv, Reading
  <1>5. CASE HandleCrash \/ HandleAckLost \/ HandleSleep
             \/ (HandleAck /\ UNCHANGED vars)
    <2>1. /\ UNCHANGED <<vars, seen>> /\ last_eseq' \in {0, last_eseq}
          /\ last_acked_eseq' \in {0, last_eseq, last_acked_eseq}
      BY <1>5 DEF HandleCrash, HandleAckLost, HandleSleep, HandleAck
    <2>2. Shown' = Shown /\ event_ack' = event_ack /\ inp' = inp
      BY <2>1 DEF vars, events, chain, Shown
    <2>. QED BY <1>0, <1>1, <2>1, <2>2 DEF HandleInv, Reading
  <1>. QED BY <1>2, <1>3, <1>4, <1>5
           DEF HandleNext, SessionStep, HandleStep, allvars

(* No consumer is given a record past one that nobody was given            *)
(* (NoEventSkipped), wherever acks were lost or fell into the boot of a    *)
(* segment, and wherever consumers crashed, as long as nobody acks but     *)
(* through events() (~Reader): a client that acks what it was not given    *)
(* takes records away from the others.                                     *)
THEOREM NoRecordSkipped == ~Reader /\ HandleSpec => NoEventSkipped
  <1>1. HandleInv /\ [HandleNext]_allvars => HandleInv'
    BY NextReading
  <1>2. HandleInv /\ [HandleNext]_allvars => [seen' <= seen + 1]_allvars
    BY NextReading
  <1>. QED BY InitReading, <1>1, <1>2, PTL DEF HandleSpec, NoEventSkipped
=============================================================================
