---------------------------- MODULE PollerProofs ----------------------------
(***************************************************************************)
(* Proofs about Poller for any number of sources, workers and handlers.    *)
(***************************************************************************)
EXTENDS Poller, TLAPS

Ref(feeds) == [id: Ids, feed: feeds, etag: Validators]

Op == [pc: {"idle", "ask", "store", "count", "write", "mark"},
       kind: {"none", "poll", "refresh", "cloud", "push"},
       source: Ref(Feeds \cup {None}), age: Nat,
       err: BOOLEAN, etag: Validators, cadence: Nat,
       body: Validators, failures: Nat, interval: Nat, reported: BOOLEAN]

Interval == MinInterval..MaxInterval

Reading(a) == op[a] # Idle

\* The rows keep their types, and intervals their bounds.
Rows ==
  /\ version \in [Feeds -> Versions]
  /\ src \in [Ids -> SourceRow \cup {None}]
  /\ \A i \in Ids : Row(i) => src[i].interval \in Interval
  /\ polled \in [Ids -> 0..MinInterval]

\* An actor that reads has a source and is not late, it writes with an interval
\* it found in a row, and only workers read for the poller.
Ops ==
  /\ op \in [Actors -> Op]
  /\ \A a \in Actors : Reading(a) => op[a].source.feed \in Feeds
  /\ \A a \in Actors : op[a].age <= FetchLimit
  /\ \A a \in Actors : op[a].pc = "write" => op[a].interval \in Interval
  /\ \A h \in Handlers : op[h].kind # "poll"

Batched == batch \subseteq [source: Ref(Feeds), due: Int]

Shape == Rows /\ Ops /\ Batched

\* Outside a sweep no worker reads, and within one no source is twice in the
\* batch or among the workers.
Sweeps ==
  /\ ~sweeping => batch = {} /\ \A w \in Workers : ~Reading(w)
  /\ \A b, c \in batch : b.source.id = c.source.id => b = c
  /\ \A b \in batch, w \in Workers : Reading(w) => op[w].source.id # b.source.id
  /\ OneReader

\* When a row is due, its last read by the poller is long enough ago, which
\* stays true for those in the batch.
LongAgo(i) == polled[i] >= MinInterval - FetchLimit

RowSpaced(i) == polled[i] = MinInterval \/ polled[i] + src[i].due >= MinInterval - FetchLimit

Spaced ==
  /\ \A i \in Ids : Row(i) => RowSpaced(i)
  /\ \A b \in batch : LongAgo(b.source.id)
  /\ Polite

IInv == Shape /\ Sweeps /\ Spaced /\ BacksOff

-----------------------------------------------------------------------------
(* The schedule *)

\* clampInterval keeps to its bounds.
LEMMA ClampBounds ==
  ASSUME NEW n \in Int
  PROVE  ClampInterval(n) \in Interval
  BY PollerAssumption DEF ClampInterval, Least, Interval

\* nextInterval keeps to the bounds whatever the cadence and the failures.
LEMMA NextBounds ==
  ASSUME NEW current \in Nat, NEW cadence \in Nat, NEW failures \in Nat
  PROVE  NextInterval(current, cadence, failures) \in Interval
<1>1. current * 2 \in Int /\ cadence \div 2 \in Int
  OBVIOUS
<1> QED BY <1>1, ClampBounds DEF NextInterval

\* After Patience failures nextInterval gives at least twice the minimum, or
\* the maximum.
LEMMA NextBacksOff ==
  ASSUME NEW current \in Interval, NEW cadence \in Nat, NEW failures \in Nat,
         failures >= Patience
  PROVE  NextInterval(current, cadence, failures) >= Least(2 * MinInterval, MaxInterval)
  BY PollerAssumption DEF NextInterval, ClampInterval, Least, Interval

-----------------------------------------------------------------------------
(* The steps of a Fetch *)

\* Actor a goes on with the same Fetch, or ends it.
Goes(a) ==
  /\ Reading(a)
  /\ \E new \in Op :
       /\ op' = [op EXCEPT ![a] = new]
       /\ \/ new = Idle
          \/ /\ new.source = op[a].source /\ new.kind = op[a].kind /\ new.age = op[a].age
             /\ new.pc \notin {"ask", "idle"}
             /\ new.pc = "write" => new.interval \in Interval

\* Idle is a value of the locals.
LEMMA IdleIsOp == Idle \in Op
  BY PollerAssumption DEF Idle, Op, NoSource, Ref, Ids, Validators

\* The request goes on with the Fetch.
LEMMA AskGoes ==
  ASSUME Rows, Ops, NEW a \in Actors, Ask(a)
  PROVE  Goes(a)
<1> DEFINE current == Current(op[a].source.feed)
<1>1. op[a] \in Op /\ Reading(a) /\ op[a].pc = "ask"
  BY DEF Ops, Ask, Reading, Idle
<1>2. current \in Validators
  BY <1>1 DEF Rows, Ops, Current, Validators, Reading
<1> HIDE DEF current
<1>3. ASSUME NEW new \in Op, op' = [op EXCEPT ![a] = new], new.source = op[a].source,
             new.kind = op[a].kind, new.age = op[a].age, new.pc \in {"count", "store"}
      PROVE  Goes(a)
  BY <1>1, <1>3 DEF Goes
<1>4. ASSUME NEW tag \in {current, None},
             op' = [op EXCEPT ![a] = [op[a] EXCEPT !.etag = tag, !.pc = "count"]]
      PROVE  Goes(a)
  <2>1. [op[a] EXCEPT !.etag = tag, !.pc = "count"] \in Op
    BY <1>1, <1>2 DEF Op, Validators
  <2> QED BY <1>1, <1>3, <1>4, <2>1 DEF Op
<1>5. ASSUME NEW tag \in {current, None},
             op' = [op EXCEPT ![a] = [op[a] EXCEPT !.etag = tag, !.body = current, !.pc = "store"]]
      PROVE  Goes(a)
  <2>1. [op[a] EXCEPT !.etag = tag, !.body = current, !.pc = "store"] \in Op
    BY <1>1, <1>2 DEF Op, Validators
  <2> QED BY <1>1, <1>3, <1>5, <2>1 DEF Op
<1>6. ASSUME op' = [op EXCEPT ![a] = [op[a] EXCEPT !.err = TRUE, !.pc = "count"]]
      PROVE  Goes(a)
  <2>1. [op[a] EXCEPT !.err = TRUE, !.pc = "count"] \in Op
    BY <1>1 DEF Op
  <2> QED BY <1>1, <1>3, <1>6, <2>1 DEF Op
<1> QED BY <1>4, <1>5, <1>6 DEF Ask, current

\* Parse and Ingest go on with the Fetch, or end it.
LEMMA StoreGoes ==
  ASSUME Rows, Ops, NEW a \in Actors, Store(a)
  PROVE  Goes(a)
<1> Idle.pc = "idle"
  BY DEF Idle
<1> op[a].pc = "store"
  BY DEF Store
<1>1. op[a] \in Op /\ Reading(a) /\ op[a].pc = "store"
  BY DEF Ops, Reading
<1>2. ASSUME NEW new \in Op, op' = [op EXCEPT ![a] = new],
             \/ new = Idle
             \/ /\ new.source = op[a].source /\ new.kind = op[a].kind
                /\ new.age = op[a].age /\ new.pc \in {"count", "mark"}
      PROVE  Goes(a)
  BY <1>1, <1>2 DEF Goes
<1>3. ASSUME op' = [op EXCEPT ![a] = Idle]
      PROVE  Goes(a)
  BY <1>2, <1>3, IdleIsOp
<1>4. ASSUME op' = [op EXCEPT ![a] = [op[a] EXCEPT !.err = TRUE, !.pc = "count"]]
      PROVE  Goes(a)
  <2>1. [op[a] EXCEPT !.err = TRUE, !.pc = "count"] \in Op
    BY <1>1 DEF Op
  <2> QED BY <1>1, <1>2, <1>4, <2>1 DEF Op
<1>5. ASSUME NEW cadence \in Nat, NEW pc \in {"count", "mark"},
             op' = [op EXCEPT ![a] = [op[a] EXCEPT !.cadence = cadence, !.pc = pc]]
      PROVE  Goes(a)
  <2>1. [op[a] EXCEPT !.cadence = cadence, !.pc = pc] \in Op
    BY <1>1 DEF Op
  <2> QED BY <1>1, <1>2, <1>5, <2>1 DEF Op
<1>6. ASSUME NEW cadence \in Nat,
             op' = [op EXCEPT ![a] = [op[a] EXCEPT !.cadence = cadence, !.err = TRUE,
                                        !.reported = TRUE, !.pc = "count"]]
      PROVE  Goes(a)
  <2>1. [op[a] EXCEPT !.cadence = cadence, !.err = TRUE, !.reported = TRUE,
           !.pc = "count"] \in Op
    BY <1>1 DEF Op
  <2> QED BY <1>1, <1>2, <1>6, <2>1 DEF Op
<1>7. Cadences \subseteq Nat
  BY PollerAssumption
<1> QED BY <1>3, <1>4, <1>5, <1>6, <1>7 DEF Store

\* The first half of RecordFetch goes on, with an interval within the bounds, or
\* ends the Fetch of a row that has gone.
LEMMA CountGoes ==
  ASSUME Rows, Ops, NEW a \in Actors, Count(a)
  PROVE  Goes(a)
<1> DEFINE i == op[a].source.id
           failures == IF op[a].err THEN src[i].failures + 1 ELSE 0
           new == [op[a] EXCEPT !.failures = failures, !.interval = src[i].interval,
                                !.pc = "write"]
<1>1. op[a] \in Op /\ Reading(a) /\ i \in Ids
  BY DEF Ops, Count, Reading, Idle, Op, Ref
<1>2. CASE ~Row(i)
  BY <1>1, <1>2, IdleIsOp DEF Count, Goes
<1>3. CASE Row(i)
  <2>1. src[i] \in SourceRow /\ src[i].interval \in Interval
    BY <1>1, <1>3 DEF Rows, Row
  <2>2. failures \in Nat /\ src[i].interval \in Nat
    BY <2>1 DEF SourceRow
  <2>3. new \in Op
    BY <1>1, <2>2 DEF Op
  <2>4. /\ new.source = op[a].source /\ new.kind = op[a].kind /\ new.age = op[a].age
        /\ new.pc = "write" /\ new.interval \in Interval
    BY <1>1, <2>1 DEF Op
  <2>5. op' = [op EXCEPT ![a] = new]
    BY <1>3 DEF Count
  <2> QED BY <1>1, <2>3, <2>4, <2>5 DEF Goes
<1> QED BY <1>2, <1>3

\* The second half of RecordFetch ends the Fetch, or leaves it to MarkPushed.
LEMMA WriteGoes ==
  ASSUME Rows, Ops, NEW a \in Actors, Write(a)
  PROVE  Goes(a)
<1> DEFINE new == [op[a] EXCEPT !.pc = "mark"]
<1>1. op[a] \in Op /\ Reading(a)
  BY DEF Ops, Write, Reading, Idle
<1>2. new \in Op /\ new.source = op[a].source /\ new.kind = op[a].kind
        /\ new.age = op[a].age /\ new.pc = "mark"
  BY <1>1 DEF Op
<1>3. op' = [op EXCEPT ![a] = new] \/ op' = [op EXCEPT ![a] = Idle]
  BY DEF Write
<1> QED BY <1>1, <1>2, <1>3, IdleIsOp DEF Goes

\* MarkPushed ends what its handler does.
LEMMA MarkGoes ==
  ASSUME Rows, Ops, NEW a \in Actors, MarkPushed(a)
  PROVE  Goes(a)
<1>1. op[a].pc = "mark" /\ op' = [op EXCEPT ![a] = Idle] /\ Idle.pc = "idle"
  BY DEF MarkPushed, Idle
<1> QED BY <1>1, IdleIsOp DEF Reading, Goes

\* What such a step keeps of Ops.
LEMMA GoesOps ==
  ASSUME Ops, NEW a \in Actors, Goes(a)
  PROVE  Ops'
<1>1. PICK new \in Op :
        /\ op' = [op EXCEPT ![a] = new]
        /\ \/ new = Idle
           \/ /\ new.source = op[a].source /\ new.kind = op[a].kind /\ new.age = op[a].age
              /\ new.pc \notin {"ask", "idle"}
              /\ new.pc = "write" => new.interval \in Interval
  BY DEF Goes
<1>2. /\ op' \in [Actors -> Op] /\ op'[a] = new
      /\ \A b \in Actors : b # a => op'[b] = op[b]
  BY <1>1 DEF Ops
<1>3. Idle.age = 0 /\ Idle.pc = "idle" /\ Idle.kind = "none" /\ FetchLimit \in Nat
  BY PollerAssumption DEF Idle
<1>4. Reading(a)' => op'[a].source.feed \in Feeds
  BY <1>1, <1>2 DEF Ops, Goes, Reading
<1>5. op'[a].age <= FetchLimit
  BY <1>1, <1>2, <1>3 DEF Ops
<1>6. op'[a].pc = "write" => op'[a].interval \in Interval
  BY <1>1, <1>2, <1>3
<1>7. a \in Handlers => op'[a].kind # "poll"
  BY <1>1, <1>2, <1>3 DEF Ops
<1>8. Handlers \subseteq Actors
  BY DEF Actors
<1> QED BY <1>2, <1>4, <1>5, <1>6, <1>7, <1>8 DEF Ops, Reading, Interval, Op

\* What it keeps of Sweeps: no worker begins to read, or changes its source.
LEMMA GoesSweeps ==
  ASSUME Ops, Sweeps, NEW a \in Actors, Goes(a), UNCHANGED <<batch, sweeping>>
  PROVE  /\ Sweeps'
         /\ \A w \in Workers : op'[w].pc = "ask" => w # a /\ op'[w] = op[w]
<1>1. PICK new \in Op :
        /\ op' = [op EXCEPT ![a] = new]
        /\ \/ new = Idle
           \/ /\ new.source = op[a].source /\ new.kind = op[a].kind /\ new.age = op[a].age
              /\ new.pc \notin {"ask", "idle"}
              /\ new.pc = "write" => new.interval \in Interval
  BY DEF Goes
<1>2. /\ op'[a] = new
      /\ \A b \in Actors : b # a => op'[b] = op[b]
  BY <1>1 DEF Ops
<1>3. Workers \subseteq Actors /\ Idle.pc = "idle"
  BY DEF Actors, Idle
<1>4. \A w \in Workers : Reading(w)' => Reading(w) /\ op'[w].source = op[w].source
  BY <1>1, <1>2, <1>3 DEF Reading, Goes
<1>5. Sweeps'
  BY <1>3, <1>4 DEF Sweeps, OneReader, Reading
<1> QED BY <1>1, <1>2, <1>3, <1>5

-----------------------------------------------------------------------------
(* Preservation *)

\* Steps of a Fetch that touch neither rows nor history.
LEMMA QuietStep ==
  ASSUME IInv, NEW a \in Actors, Goes(a),
         UNCHANGED <<version, src, polled, batch, sweeping>>
  PROVE  IInv'
<1>1. Ops' /\ Sweeps'
  BY GoesOps, GoesSweeps DEF IInv, Shape
<1>2. \A w \in Workers : op'[w].pc = "ask" => op'[w] = op[w]
  BY GoesSweeps DEF IInv, Shape
<1>3. Rows' /\ Batched'
  BY DEF IInv, Shape, Rows, Row, Batched
<1>4. Spaced'
  BY <1>2 DEF IInv, Spaced, Polite, LongAgo, RowSpaced, Row
<1>5. BacksOff'
  BY DEF IInv, BacksOff, Row
<1> QED BY <1>1, <1>3, <1>4, <1>5 DEF IInv, Shape

\* MarkPushed.
LEMMA MarkStep ==
  ASSUME IInv, NEW a \in Actors, MarkPushed(a)
  PROVE  IInv'
<1> DEFINE i == op[a].source.id
           row == [src[i] EXCEPT
                     !.failures = 0,
                     !.answered = IF op[a].kind = "push" THEN TRUE ELSE src[i].answered]
<1>1. Goes(a) /\ UNCHANGED <<version, polled, batch, sweeping>>
  BY MarkGoes DEF IInv, Shape, MarkPushed
<1>2. CASE ~Row(i)
  BY <1>1, <1>2, QuietStep DEF MarkPushed
<1>3. CASE Row(i)
  <2>1. i \in Ids /\ src[i] \in SourceRow
    BY <1>3 DEF IInv, Shape, Rows, Ops, Op, Ref, Row
  <2>2. /\ row \in SourceRow /\ row.due = src[i].due /\ row.interval = src[i].interval
        /\ row.failures = 0
    BY <2>1 DEF SourceRow
  <2>3. src' = [src EXCEPT ![i] = row]
    BY <1>3 DEF MarkPushed
  <2>4. src'[i] = row /\ \A j \in Ids : j # i => src'[j] = src[j]
    BY <2>1, <2>3 DEF IInv, Shape, Rows
  <2>5. Rows'
    BY <1>1, <1>3, <2>1, <2>2, <2>3, <2>4 DEF IInv, Shape, Rows, Row, Interval
  <2>6. Ops' /\ Sweeps' /\ Batched'
    BY <1>1, GoesOps, GoesSweeps DEF IInv, Shape, Batched
  <2>7. \A w \in Workers : op'[w].pc = "ask" => op'[w] = op[w]
    BY <1>1, GoesSweeps DEF IInv, Shape
  <2>8. \A j \in Ids : Row(j)' => Row(j) /\ src'[j].due = src[j].due
    BY <1>3, <2>2, <2>4 DEF Row
  <2>9. Spaced'
    BY <1>1, <2>7, <2>8 DEF IInv, Spaced, Polite, LongAgo, RowSpaced
  <2> HIDE DEF row
  <2>10. ~(row.failures >= Patience)
    BY <2>2, PollerAssumption
  <2>11. BacksOff'
    BY <2>4, <2>10 DEF IInv, BacksOff, Row
  <2> QED BY <2>5, <2>6, <2>9, <2>11 DEF IInv, Shape
<1> QED BY <1>2, <1>3

\* The second half of RecordFetch: the interval it writes is within its bounds
\* and belongs to the failures it writes, and next_poll_at is at least that far
\* from the beginning of the Fetch.
LEMMA WriteStep ==
  ASSUME IInv, NEW a \in Actors, Write(a)
  PROVE  IInv'
<1> DEFINE i == op[a].source.id
           interval == NextInterval(op[a].interval, op[a].cadence, op[a].failures)
           Row2(jitter) == [feed |-> src[i].feed, etag |-> op[a].etag,
                   failures |-> op[a].failures,
                   interval |-> interval, due |-> jitter + interval - op[a].age,
                   answered |-> ~op[a].err]
<1>1. Goes(a) /\ UNCHANGED <<version, batch, sweeping>>
  BY WriteGoes DEF IInv, Shape, Write
<1>2. CASE ~Row(i)
  <2>1. UNCHANGED <<src, polled>>
    BY <1>2 DEF Write
  <2> QED BY <1>1, <2>1, QuietStep
<1>3. CASE Row(i)
  <2>1. op[a] \in Op /\ i \in Ids /\ src[i] \in SourceRow
    BY <1>3 DEF IInv, Shape, Rows, Ops, Op, Ref, Row
  <2>2. op[a].age \in Nat /\ op[a].age <= FetchLimit /\ op[a].interval \in Interval
    BY <2>1 DEF IInv, Shape, Ops, Write, Op
  <2>3. op[a].cadence \in Nat /\ op[a].failures \in Nat /\ op[a].interval \in Nat
    BY <2>1 DEF Op
  <2>4. interval \in Interval
    BY <2>3, NextBounds
  <2>5. interval \in Int /\ interval >= MinInterval
    BY <2>4, PollerAssumption DEF Interval
  <2>6. PICK jitter \in 0..MaxJitter : src' = [src EXCEPT ![i] = Row2(jitter)]
    BY <1>3 DEF Write
  <2>7. jitter \in Nat
    BY PollerAssumption
  <2> DEFINE row == Row2(jitter)
  <2>8. row \in SourceRow
    BY <2>1, <2>2, <2>4, <2>5, <2>7, PollerAssumption DEF Op, Validators, SourceRow, Interval
  <2>9. /\ row.interval = interval /\ row.failures = op[a].failures
        /\ row.due = jitter + interval - op[a].age
    OBVIOUS
  <2> HIDE DEF row, interval
  <2>10. src'[i] = row /\ \A j \in Ids : j # i => src'[j] = src[j]
    BY <2>1, <2>6 DEF IInv, Shape, Rows, row
  <2>11. polled' \in [Ids -> 0..MinInterval] /\ \A j \in Ids : j # i => polled'[j] = polled[j]
    BY <2>1, <2>2, PollerAssumption DEF IInv, Shape, Rows, Write, Least
  <2>12. Rows'
    BY <1>1, <1>3, <2>1, <2>4, <2>6, <2>8, <2>9, <2>10, <2>11
    DEF IInv, Shape, Rows, Row, Interval, row
  <2>13. Ops' /\ Sweeps' /\ Batched'
    BY <1>1, GoesOps, GoesSweeps DEF IInv, Shape, Batched
  <2>14. polled'[i] = MinInterval \/ polled'[i] + row.due >= MinInterval - FetchLimit
    <3>1. CASE op[a].kind = "poll"
      <4>1. polled'[i] = Least(op[a].age, MinInterval)
        BY <1>3, <2>1, <3>1 DEF Write, IInv, Shape, Rows
      <4> QED BY <2>2, <2>5, <2>7, <2>9, <4>1, PollerAssumption DEF Least
    <3>2. CASE op[a].kind # "poll"
      <4>1. polled'[i] = polled[i] /\ polled[i] \in Nat
        BY <2>1, <3>2, PollerAssumption DEF Write, IInv, Shape, Rows
      <4> QED BY <2>2, <2>5, <2>7, <2>9, <4>1, PollerAssumption
    <3> QED BY <3>1, <3>2
  <2>15. \A j \in Ids : Row(j)' => RowSpaced(j)'
    BY <2>10, <2>11, <2>14 DEF IInv, Spaced, RowSpaced, Row
  <2>16. polled' # polled => a \in Workers
    BY DEF Write, IInv, Shape, Ops, Actors
  <2>17. Reading(a)
    BY <1>1 DEF Goes
  <2>18. ASSUME NEW b \in batch
         PROVE  LongAgo(b.source.id)'
    <3>1. b.source.id \in Ids
      BY DEF IInv, Shape, Batched, Ref
    <3>2. a \in Workers => b.source.id # i
      BY <2>17 DEF IInv, Sweeps
    <3>3. polled'[b.source.id] = polled[b.source.id]
      BY <2>11, <2>16, <3>1, <3>2
    <3> QED BY <3>3 DEF IInv, Spaced, LongAgo
  <2>19. ASSUME NEW w \in Workers, op'[w].pc = "ask"
         PROVE  LongAgo(op[w].source.id)' /\ op'[w] = op[w]
    <3>1. w # a /\ op'[w] = op[w]
      BY <1>1, <2>19, GoesSweeps DEF IInv, Shape
    <3>2. Reading(w) /\ op[w].source.id \in Ids
      BY <2>19, <3>1 DEF IInv, Shape, Ops, Op, Ref, Reading, Idle, Actors
    <3>3. a \in Workers => op[w].source.id # i
      BY <2>17, <3>1, <3>2 DEF IInv, Sweeps, OneReader, Reading
    <3>4. polled'[op[w].source.id] = polled[op[w].source.id]
      BY <2>11, <2>16, <3>2, <3>3
    <3> QED BY <2>19, <3>1, <3>4 DEF IInv, Spaced, Polite, LongAgo
  <2>20. Polite'
    BY <2>19 DEF Polite, LongAgo
  <2>21. Spaced'
    BY <1>1, <2>15, <2>18, <2>20 DEF Spaced
  <2>22. row.failures >= Patience => row.interval >= Least(2 * MinInterval, MaxInterval)
    BY <2>2, <2>3, <2>9, NextBacksOff DEF interval
  <2>23. BacksOff'
    BY <2>10, <2>22 DEF IInv, BacksOff, Row
  <2> QED BY <2>12, <2>13, <2>21, <2>23 DEF IInv, Shape
<1> QED BY <1>2, <1>3

\* The beginning of a sweep.
LEMMA SweepStep ==
  ASSUME IInv, Sweep
  PROVE  IInv'
<1>1. PICK chosen \in SUBSET {i \in Ids : Due(i)} :
        /\ batch' = {[source |-> Snapshot(i), due |-> src[i].due] : i \in chosen}
        /\ sweeping' = (chosen # {})
  BY DEF Sweep
<1>2. ~sweeping /\ UNCHANGED <<version, src, op, polled>>
  BY DEF Sweep
<1>3. \A w \in Workers : ~Reading(w)
  BY <1>2 DEF IInv, Sweeps
<1>4. \A i \in chosen : i \in Ids /\ Row(i) /\ src[i].due <= 0 /\ src[i] \in SourceRow
  BY DEF Due, IInv, Shape, Rows, Row
<1>5. Rows' /\ Ops' /\ BacksOff'
  BY <1>2 DEF IInv, Shape, Rows, Ops, Reading, BacksOff, Row
<1>6. ASSUME NEW b \in batch'
      PROVE  b \in [source: Ref(Feeds), due: Int] /\ b.source.id \in chosen
  <2>1. PICK i \in chosen : b = [source |-> Snapshot(i), due |-> src[i].due]
    BY <1>1
  <2>2. Snapshot(i) \in Ref(Feeds) /\ Snapshot(i).id = i
    BY <1>4 DEF Snapshot, Ref, SourceRow, Validators
  <2> QED BY <1>4, <2>1, <2>2 DEF SourceRow
<1>7. Batched'
  BY <1>6 DEF Batched
<1>8. Sweeps'
  <2>1. ASSUME NEW b \in batch', NEW c \in batch', b.source.id = c.source.id
        PROVE  b = c
    <3>1. PICK i \in chosen : b = [source |-> Snapshot(i), due |-> src[i].due]
      BY <1>1
    <3>2. PICK j \in chosen : c = [source |-> Snapshot(j), due |-> src[j].due]
      BY <1>1
    <3>3. b.source.id = i /\ c.source.id = j
      BY <3>1, <3>2 DEF Snapshot
    <3> QED BY <2>1, <3>1, <3>2, <3>3
  <2>2. ~sweeping' => batch' = {}
    BY <1>1
  <2>3. \A w \in Workers : ~Reading(w)'
    BY <1>2, <1>3 DEF Reading
  <2> QED BY <2>1, <2>2, <2>3 DEF Sweeps, OneReader, Reading
<1>9. Spaced'
  <2>1. \A i \in chosen : LongAgo(i)
    BY <1>4, PollerAssumption DEF IInv, Shape, Rows, Spaced, RowSpaced, LongAgo, SourceRow
  <2>2. \A b \in batch' : LongAgo(b.source.id)'
    BY <1>2, <1>6, <2>1 DEF LongAgo
  <2> QED BY <1>2, <2>2 DEF IInv, Spaced, RowSpaced, Row, Polite
<1> QED BY <1>5, <1>7, <1>8, <1>9 DEF IInv, Shape

\* A Fetch that begins has the shape of the locals.
LEMMA FetchIsOp ==
  ASSUME NEW kind \in {"poll", "refresh", "cloud", "push"}, NEW source \in Ref(Feeds)
  PROVE  /\ Fetch(kind, source) \in Op
         /\ Fetch(kind, source).source = source /\ Fetch(kind, source).kind = kind
         /\ Fetch(kind, source).age = 0 /\ Fetch(kind, source).pc = "ask"
<1>1. source \in Ref(Feeds \cup {None}) /\ Idle.age = 0
  BY DEF Ref, Idle
<1>2. [Idle EXCEPT !.pc = "ask", !.kind = kind, !.source = source] \in Op
  BY <1>1, IdleIsOp DEF Op
<1> QED BY <1>1, <1>2, IdleIsOp DEF Fetch, Op

\* A worker takes a source from the batch.
LEMMA TakeStep ==
  ASSUME IInv, NEW w \in Workers, Take(w)
  PROVE  IInv'
<1>1. PICK first \in batch :
        batch' = batch \ {first} /\ op' = [op EXCEPT ![w] = Fetch("poll", first.source)]
  BY DEF Take
<1> DEFINE new == Fetch("poll", first.source)
<1>2. UNCHANGED <<version, src, sweeping, polled>>
  BY DEF Take
<1>3. first.source \in Ref(Feeds) /\ first.source.id \in Ids /\ first.source.feed \in Feeds
  BY DEF IInv, Shape, Batched, Ref
<1>4. /\ new \in Op /\ new.source = first.source /\ new.kind = "poll"
      /\ new.age = 0 /\ new.pc = "ask"
  BY <1>3, FetchIsOp
<1> HIDE DEF new
<1>5. w \in Actors /\ w \notin Handlers /\ Handlers \subseteq Actors /\ Workers \subseteq Actors
  BY PollerAssumption DEF Actors
<1>6. op'[w] = new /\ \A a \in Actors : a # w => op'[a] = op[a]
  BY <1>1, <1>5 DEF IInv, Shape, Ops, new
<1>7. op' \in [Actors -> Op]
  BY <1>1, <1>4, <1>5 DEF IInv, Shape, Ops, new
<1>8. Ops'
  BY <1>3, <1>4, <1>5, <1>6, <1>7, PollerAssumption DEF IInv, Shape, Ops, Reading
<1>9. Rows' /\ Batched' /\ BacksOff'
  BY <1>1, <1>2 DEF IInv, Shape, Rows, Batched, BacksOff, Row
<1>10. Sweeps'
  <2>1. sweeping
    BY <1>1 DEF IInv, Sweeps
  <2>2. \A b \in batch' : b \in batch /\ b.source.id # first.source.id
    BY <1>1 DEF IInv, Sweeps
  <2>3. ASSUME NEW v \in Workers, v # w, Reading(v)'
        PROVE  Reading(v) /\ op'[v].source = op[v].source /\ op[v].source.id # first.source.id
    BY <1>1, <1>5, <1>6, <2>3 DEF IInv, Sweeps, Reading
  <2>4. \A b \in batch', v \in Workers : Reading(v)' => op'[v].source.id # b.source.id
    BY <1>4, <1>6, <2>2, <2>3 DEF IInv, Sweeps
  <2>5. OneReader'
    <3>1. ASSUME NEW v \in Workers, NEW u \in Workers, v # u, Reading(v)', Reading(u)'
          PROVE  op'[v].source.id # op'[u].source.id
      <4>1. CASE v = w
        BY <1>4, <1>6, <2>3, <3>1, <4>1
      <4>2. CASE u = w
        BY <1>4, <1>6, <2>3, <3>1, <4>2
      <4>3. CASE v # w /\ u # w
        BY <2>3, <3>1, <4>3 DEF IInv, Sweeps, OneReader, Reading
      <4> QED BY <4>1, <4>2, <4>3
    <3> QED BY <3>1 DEF OneReader, Reading
  <2> QED BY <1>2, <2>1, <2>2, <2>4, <2>5 DEF IInv, Sweeps
<1>11. Spaced'
  <2>1. LongAgo(first.source.id)
    BY <1>1 DEF IInv, Spaced
  <2>2. Polite'
    BY <1>2, <1>4, <1>5, <1>6, <2>1 DEF IInv, Spaced, Polite, LongAgo
  <2> QED BY <1>1, <1>2, <2>2 DEF IInv, Spaced, RowSpaced, LongAgo, Row
<1> QED BY <1>8, <1>9, <1>10, <1>11 DEF IInv, Shape

\* The end of a sweep.
LEMMA EndSweepStep ==
  ASSUME IInv, EndSweep
  PROVE  IInv'
<1>1. UNCHANGED <<version, src, batch, op, polled>>
  BY DEF EndSweep
<1>2. Sweeps'
  BY <1>1 DEF IInv, Sweeps, EndSweep, OneReader, Reading
<1>3. Shape' /\ Spaced' /\ BacksOff'
  BY <1>1 DEF IInv, Shape, Rows, Ops, Batched, Reading, Spaced, RowSpaced, LongAgo, Polite,
              BacksOff, Row
<1> QED BY <1>2, <1>3 DEF IInv

\* A handler that begins to read, or to store what was pushed, leaves the
\* workers alone.
LEMMA BeginStep ==
  ASSUME IInv, NEW h \in Handlers, NEW new \in Op,
         op' = [op EXCEPT ![h] = new], new.source.feed \in Feeds, new.kind # "poll",
         new.age = 0, new.pc # "write", UNCHANGED <<batch, sweeping>>
  PROVE  Ops' /\ Sweeps' /\ Batched' /\ \A w \in Workers : op'[w] = op[w]
<1>1. h \in Actors /\ h \notin Workers /\ Workers \subseteq Actors /\ Handlers \subseteq Actors
  BY PollerAssumption DEF Actors
<1>2. op'[h] = new /\ \A a \in Actors : a # h => op'[a] = op[a]
  BY <1>1 DEF IInv, Shape, Ops
<1>3. op' \in [Actors -> Op]
  BY <1>1 DEF IInv, Shape, Ops
<1>4. Ops'
  BY <1>1, <1>2, <1>3, PollerAssumption DEF IInv, Shape, Ops, Reading
<1>5. Sweeps' /\ Batched'
  BY <1>1, <1>2 DEF IInv, Shape, Batched, Sweeps, OneReader, Reading
<1> QED BY <1>1, <1>2, <1>4, <1>5

\* A handler reads a source, or a hub delivers.
LEMMA HandlerStep ==
  ASSUME IInv, NEW h \in Handlers, NEW i \in Ids, Refresh(h, i) \/ AcceptPush(h, i)
  PROVE  IInv'
<1>1. UNCHANGED <<version, src, polled, batch, sweeping>>
  BY DEF Refresh, AcceptPush
<1>2. src[i] \in SourceRow
  BY DEF Refresh, AcceptPush, IInv, Shape, Rows, Row
<1>3. Snapshot(i) \in Ref(Feeds) /\ Snapshot(i).feed \in Feeds
  BY <1>2 DEF Snapshot, Ref, SourceRow, Validators
<1>4. PICK new \in Op : /\ op' = [op EXCEPT ![h] = new] /\ new.source.feed \in Feeds
                        /\ new.kind # "poll" /\ new.age = 0 /\ new.pc # "write"
  <2>1. CASE Refresh(h, i)
    <3>1. PICK kind \in {"refresh", "cloud"} : op' = [op EXCEPT ![h] = Fetch(kind, Snapshot(i))]
      BY <2>1 DEF Refresh
    <3> QED BY <1>3, <3>1, FetchIsOp
  <2>2. CASE AcceptPush(h, i)
    <3>1. PICK v \in 0..version[src[i].feed] :
            op' = [op EXCEPT ![h] = [Fetch("push", Snapshot(i)) EXCEPT
                                       !.pc = "store", !.body = <<src[i].feed, v>>]]
      BY <2>2 DEF AcceptPush
    <3>2. <<src[i].feed, v>> \in Validators
      <4>1. src[i].feed \in Feeds
        BY <1>2 DEF SourceRow
      <4>2. version[src[i].feed] \in 0..MaxVersion
        BY <4>1 DEF IInv, Shape, Rows, Versions
      <4> QED BY <4>1, <4>2, PollerAssumption DEF Validators, Versions
    <3> DEFINE fetch == Fetch("push", Snapshot(i))
    <3>3. fetch \in Op /\ fetch.source = Snapshot(i) /\ fetch.kind = "push" /\ fetch.age = 0
      BY <1>3, FetchIsOp
    <3> HIDE DEF fetch
    <3>4. [fetch EXCEPT !.pc = "store", !.body = <<src[i].feed, v>>] \in Op
      BY <3>2, <3>3 DEF Op
    <3>5. op' = [op EXCEPT ![h] = [fetch EXCEPT !.pc = "store", !.body = <<src[i].feed, v>>]]
      BY <3>1 DEF fetch
    <3> QED BY <1>3, <3>3, <3>4, <3>5 DEF Op
  <2> QED BY <2>1, <2>2
<1>5. Ops' /\ Sweeps' /\ Batched' /\ \A w \in Workers : op'[w] = op[w]
  BY <1>1, <1>4, BeginStep
<1>6. Rows' /\ Spaced' /\ BacksOff'
  BY <1>1, <1>5 DEF IInv, Shape, Rows, Spaced, RowSpaced, LongAgo, Polite, BacksOff, Row
<1> QED BY <1>5, <1>6 DEF IInv, Shape

\* Somebody subscribes: a row that is due, and was never read.
LEMMA SubscribeStep ==
  ASSUME IInv, NEW h \in Handlers, NEW f \in Feeds, Subscribe(h, f)
  PROVE  IInv'
<1> DEFINE row == [feed |-> f, etag |-> None, failures |-> 0, interval |-> MinInterval, due |-> 0,
                   answered |-> TRUE]
           Source(i) == [NoSource EXCEPT !.id = i, !.feed = f]
<1>1. PICK i \in Ids : /\ src' = [src EXCEPT ![i] = row]
                       /\ polled' = [polled EXCEPT ![i] = MinInterval]
                       /\ op' = [op EXCEPT ![h] = Fetch("refresh", Source(i))]
  BY DEF Subscribe
<1>2. UNCHANGED <<version, batch, sweeping>>
  BY DEF Subscribe
<1>3. row \in SourceRow /\ row.interval \in Interval /\ row.failures = 0
  <2>1. None \in Validators /\ MinInterval \in Nat /\ MinInterval \in Interval
    BY PollerAssumption DEF Validators, Interval
  <2> QED BY <2>1 DEF SourceRow
<1>4. Source(i) \in Ref(Feeds) /\ Source(i).feed \in Feeds
  BY DEF NoSource, Ref, Validators
<1>5. Ops' /\ Sweeps' /\ Batched' /\ \A w \in Workers : op'[w] = op[w]
  <2> DEFINE new == Fetch("refresh", Source(i))
  <2> HIDE DEF Source
  <2>1. /\ new \in Op /\ new.source = Source(i) /\ new.kind = "refresh"
        /\ new.age = 0 /\ new.pc = "ask"
    BY <1>4, FetchIsOp
  <2>2. op' = [op EXCEPT ![h] = new]
    BY <1>1
  <2> HIDE DEF new
  <2> QED BY <1>2, <1>4, <2>1, <2>2, BeginStep
<1> HIDE DEF row
<1>6. /\ src'[i] = row /\ polled'[i] = MinInterval
      /\ \A j \in Ids : j # i => src'[j] = src[j] /\ polled'[j] = polled[j]
  BY <1>1 DEF IInv, Shape, Rows
<1>7. Rows'
  BY <1>1, <1>2, <1>3, <1>6, PollerAssumption DEF IInv, Shape, Rows, Row
<1>8. \A j \in Ids : LongAgo(j) => LongAgo(j)'
  BY <1>6, PollerAssumption DEF LongAgo
<1>9. \A j \in Ids : Row(j)' => RowSpaced(j)'
  BY <1>6 DEF IInv, Spaced, RowSpaced, Row
<1>10. \A b \in batch : b.source.id \in Ids
  BY DEF IInv, Shape, Batched, Ref
<1>11. \A w \in Workers : op[w].source.id \in Ids
  BY DEF IInv, Shape, Ops, Op, Ref, Actors
<1>12. Polite'
  BY <1>5, <1>8, <1>11 DEF IInv, Spaced, Polite, LongAgo
<1>13. Spaced'
  BY <1>2, <1>8, <1>9, <1>10, <1>12 DEF IInv, Spaced
<1>14. BacksOff'
  BY <1>3, <1>6, PollerAssumption DEF IInv, BacksOff, Row
<1> QED BY <1>5, <1>7, <1>13, <1>14 DEF IInv, Shape

\* Somebody unsubscribes.
LEMMA UnsubscribeStep ==
  ASSUME IInv, NEW i \in Ids, Unsubscribe(i)
  PROVE  IInv'
<1>1. UNCHANGED <<version, batch, sweeping, op, polled>> /\ src' = [src EXCEPT ![i] = None]
  BY DEF Unsubscribe
<1>2. \A j \in Ids : Row(j)' => Row(j) /\ src'[j] = src[j]
  BY <1>1 DEF IInv, Shape, Rows, Row
<1>3. Rows'
  BY <1>1, <1>2 DEF IInv, Shape, Rows
<1>4. Ops' /\ Batched' /\ Sweeps'
  BY <1>1 DEF IInv, Shape, Ops, Batched, Sweeps, OneReader, Reading
<1>5. Spaced' /\ BacksOff'
  BY <1>1, <1>2 DEF IInv, Spaced, RowSpaced, LongAgo, Polite, BacksOff
<1> QED BY <1>3, <1>4, <1>5 DEF IInv, Shape

\* The process starts again.
LEMMA CrashStep ==
  ASSUME IInv, Crash
  PROVE  IInv'
<1>1. /\ op' = [a \in Actors |-> Idle] /\ batch' = {}
      /\ UNCHANGED <<version, src, polled>>
  BY DEF Crash
<1>2. \A a \in Actors : op'[a] = Idle
  BY <1>1
<1>3. Idle.pc = "idle" /\ Idle.age = 0 /\ Idle.kind = "none"
  BY DEF Idle
<1>4. Workers \subseteq Actors /\ Handlers \subseteq Actors
  BY DEF Actors
<1>5. Ops'
  BY <1>1, <1>2, <1>3, <1>4, IdleIsOp, PollerAssumption DEF Ops, Reading
<1>6. Sweeps' /\ Batched'
  BY <1>1, <1>2, <1>4 DEF Sweeps, Batched, OneReader, Reading
<1>7. Rows' /\ BacksOff'
  BY <1>1 DEF IInv, Shape, Rows, BacksOff, Row
<1>8. Spaced'
  BY <1>1, <1>2, <1>3, <1>4 DEF IInv, Spaced, RowSpaced, Polite, Row
<1> QED BY <1>5, <1>6, <1>7, <1>8 DEF IInv, Shape

\* A minute passes: what is due comes nearer as fast as the last read recedes.
LEMMA TickStep ==
  ASSUME IInv, Tick
  PROVE  IInv'
<1> DEFINE Aged(a) == [op[a] EXCEPT !.age = op[a].age + 1]
           Nearer(i) == [src[i] EXCEPT !.due = src[i].due - 1]
<1>1. /\ src' = [i \in Ids |-> IF Row(i) THEN Nearer(i) ELSE None]
      /\ op' = [a \in Actors |-> IF op[a] = Idle THEN Idle ELSE Aged(a)]
      /\ polled' = [i \in Ids |-> Least(polled[i] + 1, MinInterval)]
      /\ \A a \in Actors : op[a] # Idle => op[a].age < FetchLimit
      /\ UNCHANGED <<version, batch, sweeping>>
  BY DEF Tick
<1>2. ASSUME NEW a \in Actors
      PROVE  /\ Aged(a) \in Op /\ Aged(a).source = op[a].source /\ Aged(a).pc = op[a].pc
             /\ Aged(a).kind = op[a].kind /\ Aged(a).interval = op[a].interval
             /\ Aged(a).age = op[a].age + 1 /\ op[a].age \in Nat
  <2>1. op[a] \in Op
    BY DEF IInv, Shape, Ops
  <2>2. op[a].age \in Nat /\ op[a].age + 1 \in Nat
    BY <2>1 DEF Op
  <2> QED BY <2>1, <2>2 DEF Op
<1>3. ASSUME NEW i \in Ids, Row(i)
      PROVE  /\ Nearer(i) \in SourceRow /\ Nearer(i).due = src[i].due - 1 /\ src[i].due \in Int
             /\ Nearer(i).interval = src[i].interval /\ Nearer(i).failures = src[i].failures
  <2>1. src[i] \in SourceRow
    BY <1>3 DEF IInv, Shape, Rows, Row
  <2> QED BY <2>1 DEF SourceRow
<1> HIDE DEF Aged, Nearer
<1>4. \A a \in Actors : op'[a] = IF op[a] = Idle THEN Idle ELSE Aged(a)
  BY <1>1
<1>5. Workers \subseteq Actors /\ Handlers \subseteq Actors
  BY DEF Actors
<1>6. \A a \in Actors : /\ Reading(a)' => Reading(a)
                        /\ op'[a].source = op[a].source /\ op'[a].pc = op[a].pc
                        /\ op'[a].kind = op[a].kind /\ op'[a].interval = op[a].interval
  BY <1>2, <1>4 DEF Reading
<1>7. \A a \in Actors : op'[a].age <= FetchLimit
  <2>1. Idle.age = 0 /\ FetchLimit \in Nat
    BY PollerAssumption DEF Idle
  <2> QED BY <1>1, <1>2, <1>4, <2>1
<1>8. op' \in [Actors -> Op]
  BY <1>1, <1>2, IdleIsOp
<1>9. Ops'
  BY <1>5, <1>6, <1>7, <1>8 DEF IInv, Shape, Ops
<1>10. Sweeps' /\ Batched'
  BY <1>1, <1>5, <1>6 DEF IInv, Shape, Batched, Sweeps, OneReader, Reading
<1>11. \A i \in Ids : /\ polled[i] \in 0..MinInterval /\ polled'[i] \in 0..MinInterval
                      /\ polled'[i] = MinInterval \/ polled'[i] = polled[i] + 1
                      /\ polled'[i] >= polled[i]
  BY <1>1, PollerAssumption DEF IInv, Shape, Rows, Least
<1>12. \A i \in Ids : Row(i)' => Row(i) /\ src'[i] = Nearer(i)
  BY <1>1 DEF Row
<1>13. Rows'
  <2>1. src' \in [Ids -> SourceRow \cup {None}]
    BY <1>1, <1>3
  <2>2. polled' \in [Ids -> 0..MinInterval]
    BY <1>1, <1>11
  <2> QED BY <1>1, <1>3, <1>12, <2>1, <2>2 DEF IInv, Shape, Rows
<1>14. BacksOff'
  BY <1>3, <1>12 DEF IInv, BacksOff
<1>15. \A i \in Ids : LongAgo(i) => LongAgo(i)'
  BY <1>11, PollerAssumption DEF LongAgo
<1>16. ASSUME NEW i \in Ids, Row(i)'
       PROVE  RowSpaced(i)'
  <2>1. Row(i) /\ src'[i].due = src[i].due - 1 /\ src[i].due \in Int /\ RowSpaced(i)
    BY <1>3, <1>12, <1>16 DEF IInv, Spaced
  <2> QED BY <1>11, <2>1, PollerAssumption DEF RowSpaced
<1>17. \A b \in batch : b.source.id \in Ids
  BY DEF IInv, Shape, Batched, Ref
<1>18. \A w \in Workers : op[w].source.id \in Ids
  BY DEF IInv, Shape, Ops, Op, Ref, Actors
<1>19. Polite'
  BY <1>5, <1>6, <1>15, <1>18 DEF IInv, Spaced, Polite, LongAgo
<1>20. Spaced'
  BY <1>1, <1>15, <1>16, <1>17, <1>19 DEF IInv, Spaced
<1> QED BY <1>9, <1>10, <1>13, <1>14, <1>20 DEF IInv, Shape

\* A feed changes.
LEMMA PublishStep ==
  ASSUME IInv, NEW f \in Feeds, Publish(f)
  PROVE  IInv'
<1>1. UNCHANGED <<src, polled, batch, sweeping, op>>
  BY DEF Publish
<1>2. version' \in [Feeds -> Versions]
  <2>1. version[f] \in 0..MaxVersion /\ version[f] < MaxVersion
    BY DEF Publish, IInv, Shape, Rows, Versions
  <2>2. version[f] + 1 \in Versions
    BY <2>1, PollerAssumption DEF Versions
  <2> QED BY <2>2 DEF Publish, IInv, Shape, Rows
<1>3. Shape'
  BY <1>1, <1>2 DEF IInv, Shape, Rows, Ops, Batched, Reading, Row
<1>4. Sweeps' /\ Spaced' /\ BacksOff'
  BY <1>1 DEF IInv, Sweeps, OneReader, Reading, Spaced, RowSpaced, LongAgo, Polite, BacksOff, Row
<1> QED BY <1>3, <1>4 DEF IInv

-----------------------------------------------------------------------------
(* Theorems *)

\* The invariant holds at the start.
LEMMA InitIInv == Init => IInv
<1> SUFFICES ASSUME Init PROVE IInv
  OBVIOUS
<1>1. \A i \in Ids : ~Row(i)
  BY DEF Init, Row
<1>2. \A a \in Actors : op[a] = Idle
  BY DEF Init
<1>3. Idle.pc = "idle" /\ Idle.age = 0 /\ Idle.kind = "none"
  BY DEF Idle
<1>4. Workers \subseteq Actors /\ Handlers \subseteq Actors
  BY DEF Actors
<1>5. Rows
  BY <1>1, PollerAssumption DEF Init, Rows, Versions
<1>6. Ops
  BY <1>2, <1>3, <1>4, IdleIsOp, PollerAssumption DEF Init, Ops, Reading
<1>7. Batched /\ Sweeps
  BY <1>2, <1>4 DEF Init, Batched, Sweeps, OneReader, Reading
<1>8. Spaced /\ BacksOff
  BY <1>1, <1>2, <1>3, <1>4 DEF Init, Spaced, Polite, BacksOff
<1> QED BY <1>5, <1>6, <1>7, <1>8 DEF IInv, Shape

\* Every step keeps the invariant.
LEMMA NextIInv == IInv /\ [Next]_vars => IInv'
<1> SUFFICES ASSUME IInv, [Next]_vars PROVE IInv'
  OBVIOUS
<1>1. CASE UNCHANGED vars
  BY <1>1 DEF vars, IInv, Shape, Rows, Ops, Batched, Sweeps, OneReader, Reading, Spaced,
              RowSpaced, LongAgo, Polite, BacksOff, Row
<1>2. ASSUME NEW a \in Actors, Step(a)
      PROVE  IInv'
  <2>1. CASE Ask(a)
    <3>1. UNCHANGED <<version, src, polled, batch, sweeping>>
      BY <2>1 DEF Ask
    <3> QED BY <2>1, <3>1, AskGoes, QuietStep DEF IInv, Shape
  <2>2. CASE Store(a)
    <3>1. UNCHANGED <<version, src, polled, batch, sweeping>>
      BY <2>2 DEF Store
    <3> QED BY <2>2, <3>1, StoreGoes, QuietStep DEF IInv, Shape
  <2>3. CASE Count(a)
    <3>1. UNCHANGED <<version, src, polled, batch, sweeping>>
      BY <2>3 DEF Count
    <3> QED BY <2>3, <3>1, CountGoes, QuietStep DEF IInv, Shape
  <2>4. CASE Write(a)
    BY <2>4, WriteStep
  <2>5. CASE MarkPushed(a)
    BY <2>5, MarkStep
  <2> QED BY <1>2, <2>1, <2>2, <2>3, <2>4, <2>5 DEF Step
<1> QED BY <1>1, <1>2, SweepStep, EndSweepStep, TickStep, CrashStep, TakeStep, HandlerStep,
           SubscribeStep, UnsubscribeStep, PublishStep DEF Next

\* The inductive invariant: shapes, sweeps, spacing and back-off together.
THEOREM Invariance == Spec => []IInv
  BY InitIInv, NextIInv, PTL DEF Spec

\* Rows keep their types and intervals their bounds, whatever reads overlap.
THEOREM TypeCorrect == Spec => []TypeOK
<1>1. IInv => TypeOK
  BY DEF IInv, Shape, Rows, Ops, Op, Batched, Ref, TypeOK, Row, Interval
<1> QED BY <1>1, Invariance, PTL

\* No two of the poller's workers read the same source, for any number of
\* workers and any length of a sweep.
THEOREM SingleReader == Spec => []OneReader
<1>1. IInv => OneReader
  BY DEF IInv, Sweeps
<1> QED BY <1>1, Invariance, PTL

\* The poller leaves MinInterval, less the longest Fetch, between its reads of a
\* source, whatever others write to the row.
THEOREM Politeness == Spec => []Polite
<1>1. IInv => Polite
  BY DEF IInv, Spaced
<1> QED BY <1>1, Invariance, PTL

\* Overlapping RecordFetches never leave a failing source at the interval of a
\* healthy one.
THEOREM BackOff == Spec => []BacksOff
<1>1. IInv => BacksOff
  BY DEF IInv
<1> QED BY <1>1, Invariance, PTL

=============================================================================
