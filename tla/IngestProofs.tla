---------------------------- MODULE IngestProofs ----------------------------
(***************************************************************************)
(* For any number of concurrent operations, sources, documents and keys:   *)
(* however the statements of Ingest, Converge, RemoveSource and the upkeep *)
(* interleave and wherever they are cut off, a listed item points at an    *)
(* observation of a followed source, and every observation keeps the bytes *)
(* it was parsed from (IInv).  WinnerStands is not inductive: it needs     *)
(* that an observation never outlives its source, because Upsert checks    *)
(* the observation alone.                                                  *)
(*                                                                         *)
(* Under the same interleavings, the row and the index of a settled key    *)
(* say what Converge makes of its observations (ApartInv), excepted the    *)
(* keys that two operations had in hand at once.  That the loop of         *)
(* Converge ends at a row none beats is BestLeads of ConvergenceProofs,    *)
(* for the rows in order.                                                  *)
(***************************************************************************)
EXTENDS Ingest, FiniteSetTheorems, SequenceTheorems, FunctionTheorems, TLAPS

\* The tables as functions, and the cascade of source to observation.
Shape ==
  /\ obs = [i \in Ids |-> obs[i]]
  /\ items = [k \in Keys |-> items[k]]
  /\ \A k \in Keys : items[k].winner # 0 => items[k].winner \in Ids

SourceStands == \A i \in Ids : Row(i) => obs[i].src \in sources

IInv == Shape /\ SourceStands /\ WinnerStands /\ EvidenceKept

\* A step that leaves the tables alone, or only adds sources and payloads,
\* keeps all of it.
LEMMA Grows ==
  ASSUME IInv, obs' = obs, items' = items,
         sources \subseteq sources', payloads \subseteq payloads'
  PROVE  IInv'
BY DEF IInv, Shape, SourceStands, WinnerStands, EvidenceKept, Row

\* Recording an observation takes a free id, so no winner changes under it.
LEMMA RecordKeeps ==
  ASSUME IInv, NEW a \in Actors, RecordObservation(a)
  PROVE  IInv'
<1>1. CASE obs' = obs
  BY <1>1, Grows DEF RecordObservation
<1>2. ASSUME NEW i \in Ids, NEW row,
             ~Row(i), row.src \in sources, row.doc \in payloads,
             obs' = [obs EXCEPT ![i] = row]
      PROVE  IInv'
  <2>1. sources' = sources /\ payloads' = payloads /\ items' = items
    BY DEF RecordObservation
  <2>2. obs'[i] = row /\ \A j \in Ids : j # i => obs'[j] = obs[j]
    BY <1>2 DEF IInv, Shape
  <2>3. Shape'
    BY <1>2, <2>1 DEF IInv, Shape
  <2>4. SourceStands' /\ EvidenceKept'
    BY <1>2, <2>1, <2>2 DEF IInv, SourceStands, EvidenceKept, Row
  <2>5. WinnerStands'
    BY <1>2, <2>1, <2>2 DEF IInv, WinnerStands, Row
  <2> QED BY <2>3, <2>4, <2>5 DEF IInv
<1> DEFINE item == op[a].doc.items[op[a].at]
           row == [src |-> op[a].src, key |-> item.key,
                   cand |-> item.cand, doc |-> op[a].doc]
<1>3. \/ obs' = obs
      \/ \E i \in Ids : /\ ~Row(i) /\ op[a].src \in sources /\ op[a].doc \in payloads
                         /\ obs' = [obs EXCEPT ![i] = row]
  BY DEF RecordObservation, NextId
<1>4. row.src = op[a].src /\ row.doc = op[a].doc
  OBVIOUS
<1> HIDE DEF row
<1> QED BY <1>1, <1>2, <1>3, <1>4

\* The upsert checks that the winner exists, and an observation that exists has
\* its source.
LEMMA UpsertKeeps ==
  ASSUME IInv, NEW a \in Actors, Upsert(a)
  PROVE  IInv'
<1>1. sources' = sources /\ payloads' = payloads /\ obs' = obs
  BY DEF Upsert
<1>2. CASE items' = items
  BY <1>1, <1>2, Grows
<1>3. CASE items' # items
  <2> DEFINE k == op[a].key
             row == [winner |-> op[a].winner, reason |-> op[a].reason]
  <2>1. Row(op[a].winner) /\ items' = [items EXCEPT ![k] = row]
    BY <1>3 DEF Upsert
  <2>2. row.winner = op[a].winner /\ row.winner \in Ids
    BY <2>1 DEF Row
  <2>3. /\ items' = [j \in Keys |-> items'[j]]
        /\ \A j \in Keys : items'[j] = IF j = k THEN row ELSE items[j]
    BY <2>1 DEF IInv, Shape
  <2> HIDE DEF k, row
  <2>4. Shape'
    BY <1>1, <2>2, <2>3 DEF IInv, Shape
  <2>5. SourceStands' /\ EvidenceKept'
    BY <1>1 DEF IInv, SourceStands, EvidenceKept, Row
  <2>6. WinnerStands'
    BY <1>1, <2>1, <2>2, <2>3 DEF IInv, WinnerStands, SourceStands, Row
  <2> QED BY <2>4, <2>5, <2>6 DEF IInv
<1> QED BY <1>2, <1>3

\* Detaching only takes items away.
LEMMA DetachKeeps ==
  ASSUME IInv, NEW a \in Actors, Detach(a)
  PROVE  IInv'
<1>1. sources' = sources /\ payloads' = payloads /\ obs' = obs
  BY DEF Detach
<1>2. /\ items' = [k \in Keys |-> items'[k]]
      /\ \A k \in Keys : items'[k] = items[k] \/ items'[k].winner = 0
  BY DEF Detach, NoItem
<1> QED BY <1>1, <1>2 DEF IInv, Shape, SourceStands, WinnerStands, EvidenceKept, Row

\* The foreign key of logical_item keeps a source whose observation has won
\* again since the detaching.
LEMMA DropKeeps ==
  ASSUME IInv, NEW a \in Actors, Drop(a)
  PROVE  IInv'
<1>1. payloads' = payloads /\ items' = items
  BY DEF Drop
<1>2. CASE sources' = sources /\ obs' = obs
  BY <1>1, <1>2, Grows
<1>3. CASE ~(sources' = sources /\ obs' = obs)
  <2> DEFINE s == op[a].src
  <2>1. /\ WonBy(s) = {}
        /\ sources' = sources \ {s}
        /\ obs' = [i \in Ids |-> IF Row(i) /\ obs[i].src = s THEN None ELSE obs[i]]
    BY <1>3 DEF Drop
  <2> HIDE DEF s
  <2>2. \A i \in Ids : Row(i)' => Row(i) /\ obs'[i] = obs[i] /\ obs[i].src # s
    BY <2>1 DEF Row
  <2>3. \A k \in Keys : items[k].winner # 0 =>
          /\ items[k].winner \in Ids
          /\ obs[items[k].winner].src # s
          /\ obs'[items[k].winner] = obs[items[k].winner]
    BY <2>1 DEF WonBy, IInv, Shape
  <2>4. Shape'
    BY <1>1, <2>1 DEF IInv, Shape
  <2>5. SourceStands' /\ EvidenceKept'
    BY <1>1, <2>1, <2>2 DEF IInv, SourceStands, EvidenceKept
  <2>6. WinnerStands'
    BY <1>1, <2>1, <2>3 DEF IInv, WinnerStands, Row
  <2> QED BY <2>4, <2>5, <2>6 DEF IInv
<1> QED BY <1>2, <1>3

\* The purge spares what an observation points at.
LEMMA PurgeKeeps ==
  ASSUME IInv, PurgeExpiredPayloads
  PROVE  IInv'
<1>1. /\ sources' = sources /\ obs' = obs /\ items' = items
      /\ payloads' = payloads \ Purgeable
  BY DEF PurgeExpiredPayloads
<1>2. EvidenceKept'
  BY <1>1 DEF IInv, EvidenceKept, Purgeable, Row
<1> QED BY <1>1, <1>2 DEF IInv, Shape, SourceStands, WinnerStands, Row

LEMMA InvInit == Init => IInv
<1> SUFFICES ASSUME Init PROVE IInv
  OBVIOUS
<1>1. /\ obs = [i \in Ids |-> None] /\ items = [k \in Keys |-> NoItem]
      /\ NoItem.winner = 0
  BY DEF Init, NoItem
<1>2. (\A i \in Ids : ~Row(i)) /\ \A k \in Keys : items[k].winner = 0
  BY <1>1 DEF Row
<1>3. Shape
  BY <1>1, <1>2 DEF Shape
<1> QED BY <1>2, <1>3 DEF IInv, SourceStands, WinnerStands, EvidenceKept

LEMMA InvStep ==
  ASSUME IInv, [Next]_vars
  PROVE  IInv'
<1>1. ASSUME NEW a \in Actors, Ingesting(a) \/ Converging(a) \/ Removing(a) \/ Abort(a)
      PROVE  IInv'
  <2>1. CASE RecordObservation(a)
    BY <2>1, RecordKeeps
  <2>2. CASE Upsert(a)
    BY <2>2, UpsertKeeps
  <2>3. CASE Detach(a)
    BY <2>3, DetachKeeps
  <2>4. CASE Drop(a)
    BY <2>4, DropKeeps
  <2>5. ASSUME ~RecordObservation(a), ~Upsert(a), ~Detach(a), ~Drop(a)
        PROVE  /\ obs' = obs /\ items' = items /\ sources' = sources
               /\ payloads \subseteq payloads'
    <3>1. CASE Ingesting(a)
      BY <2>5, <3>1 DEF Ingesting, StorePayload, BeginConverging
    <3>2. CASE Converging(a)
      BY <2>5, <3>2 DEF Converging, ReadCandidates, ReadColumns, ReadText,
           DeleteText, InsertText
    <3>3. CASE Removing(a)
      BY <2>5, <3>3 DEF Removing, ReadOrphans, ReadForget, Forget
    <3>4. CASE Abort(a)
      BY <3>4 DEF Abort
    <3> QED BY <1>1, <3>1, <3>2, <3>3, <3>4
  <2> QED BY <2>1, <2>2, <2>3, <2>4, <2>5, Grows
<1>2. ASSUME NEW s \in Sources, AddSource(s)
      PROVE  IInv'
  BY <1>2, Grows DEF AddSource
<1>3. ASSUME NEW d \in Docs, Expire(d)
      PROVE  IInv'
  BY <1>3, Grows DEF Expire
<1>4. CASE PurgeExpiredPayloads
  BY <1>4, PurgeKeeps
<1>5. CASE UNCHANGED vars
  BY <1>5, Grows DEF vars
<1> QED BY <1>1, <1>2, <1>3, <1>4, <1>5 DEF Next, Step

LEMMA Invariance == Spec => []IInv
BY InvInit, InvStep, PTL DEF Spec

\* No interleaving of readings, removals and crashes leaves the timeline with
\* an item whose observation or whose source is gone.
THEOREM WinnersStand == Spec => []WinnerStands
BY Invariance, PTL DEF IInv

\* No purge takes the bytes of an observation away, whenever it comes.
THEOREM EvidenceIsKept == Spec => []EvidenceKept
BY Invariance, PTL DEF IInv

-----------------------------------------------------------------------------
(* The order of the rows, and where the loop ends *)

Loop == INSTANCE ConvergenceProofs WITH Top <- 0, MaxReadings <- 0, candidates <- <<>>

\* The loop here is the one of ConvergenceProofs.
LEMMA SameLoop ==
  ASSUME NEW cs
  PROVE  Best(cs) = Loop!Best(cs)
BY DEF Best, Loop!Best, Beats, Loop!Beats

\* It ends at the first of those that none beats.
LEMMA Led ==
  ASSUME NEW cs \in Seq(Candidate), cs # <<>>
  PROVE  /\ Best(cs) \in 1..Len(cs)
         /\ \A n \in 1..Len(cs) : /\ ~Beats(cs[n], cs[Best(cs)])
                                  /\ n < Best(cs) => Beats(cs[Best(cs)], cs[n])
<1>1. Loop!Leads(cs, Loop!Best(cs), Len(cs))
  BY Loop!BestLeads DEF Candidate, Loop!Candidate
<1>2. QED
  BY <1>1, SameLoop DEF Loop!Leads, Beats, Loop!Beats

Rises(s, n) == \A i, j \in 1..n : i < j => s[i] < s[j]

\* Numbers have an order.
LEMMA OrderUpto ==
  \A N \in Nat : \A ids \in SUBSET (1..N) :
    \E s \in [1..Cardinality(ids) -> ids] : Rises(s, Cardinality(ids))
<1> DEFINE Has(ids) == \E s \in [1..Cardinality(ids) -> ids] : Rises(s, Cardinality(ids))
           T == {N \in Nat : \E ids \in SUBSET (1..N) : ~Has(ids)}
<1>1. SUFFICES ASSUME T # {} PROVE FALSE
  OBVIOUS
<1>2. T \in SUBSET Nat
  OBVIOUS
<1>3. PICK N \in T : \A n \in T : N <= n
  <2> HIDE DEF T
  <2> QED
    BY <1>1, <1>2, Loop!Smallest
<1>4. PICK ids \in SUBSET (1..N) : ~Has(ids)
  OBVIOUS
<1>5. N \in Nat /\ IsFiniteSet(ids)
  <2>1. N \in Nat /\ 1 \in Int /\ N \in Int
    OBVIOUS
  <2>2. IsFiniteSet(1..N)
    BY <2>1, FS_Interval
  <2> QED
    BY <2>1, <2>2, FS_Subset
<1>6. N # 0
  <2>1. SUFFICES ASSUME ids = {} PROVE Has(ids)
    BY <1>4
  <2>2. Cardinality(ids) = 0
    BY <2>1, FS_EmptySet
  <2>3. [i \in 1..0 |-> i] \in [1..0 -> ids]
    OBVIOUS
  <2> QED
    BY <2>2, <2>3 DEF Rises
<1>7. ids \ {N} \in SUBSET (1..(N - 1)) /\ N - 1 \in Nat
  BY <1>5, <1>6
<1>8. Has(ids \ {N})
  <2>1. N - 1 \notin T
    <3> HIDE DEF T
    <3> QED
      BY <1>3, <1>5, <1>7
  <2> QED
    BY <1>7, <2>1
<1>9. N \in ids
  <2>1. ids \ {N} = ids => FALSE
    BY <1>4, <1>8
  <2> QED
    BY <2>1
<1> DEFINE n == Cardinality(ids \ {N})
<1>10. Cardinality(ids) = n + 1 /\ n \in Nat
  BY <1>5, <1>9, FS_RemoveElement, FS_CardinalityType, FS_Subset
<1>11. PICK s \in [1..n -> ids \ {N}] : Rises(s, n)
  BY <1>8
<1> HIDE DEF n
<1> DEFINE r == [i \in 1..(n + 1) |-> IF i = n + 1 THEN N ELSE s[i]]
<1>12. r \in [1..(n + 1) -> ids]
  BY <1>9, <1>10, <1>11
<1>13. ASSUME NEW i \in 1..(n + 1), NEW j \in 1..(n + 1), i < j PROVE r[i] < r[j]
  <2>1. i \in 1..n /\ i # n + 1
    BY <1>10, <1>13
  <2>4. r[i] = s[i] /\ s[i] \in ids \ {N}
    BY <1>11, <2>1
  <2>5. s[i] \in 1..(N - 1)
    BY <1>7, <2>4
  <2>2. CASE j = n + 1
    BY <1>5, <2>2, <2>4, <2>5
  <2>3. CASE j # n + 1
    BY <1>10, <1>11, <1>13, <2>1, <2>3, <2>4 DEF Rises
  <2> QED
    BY <2>2, <2>3
<1> HIDE DEF r
<1>14. Has(ids)
  BY <1>10, <1>12, <1>13 DEF Rises
<1> QED
  BY <1>4, <1>14

\* Every id of a key has a place in the order.
LEMMA OrderedAll ==
  ASSUME NEW ids \in SUBSET Ids
  PROVE  /\ Cardinality(ids) \in Nat /\ (ids # {} => Cardinality(ids) # 0)
         /\ Ordered(ids) \in [1..Cardinality(ids) -> ids]
         /\ Rises(Ordered(ids), Cardinality(ids))
         /\ \A i \in ids : \E n \in 1..Cardinality(ids) : Ordered(ids)[n] = i
<1> DEFINE n == Cardinality(ids)
           s == Ordered(ids)
           R == {s[i] : i \in 1..n}
<1>1. IsFiniteSet(ids) /\ n \in Nat /\ (ids # {} => n # 0)
  <2>1. IsFiniteSet(1..MaxObs)
    <3>1. MaxObs \in Int /\ 1 \in Int
      BY IngestAssumption
    <3> QED
      BY <3>1, FS_Interval
  <2>2. IsFiniteSet(ids)
    BY <2>1, FS_Subset DEF Ids
  <2> QED
    BY <2>2, FS_CardinalityType, FS_EmptySet
<1>2. \E o \in [1..n -> ids] : Rises(o, n)
  BY OrderUpto, IngestAssumption DEF Ids
<1>3. s \in [1..n -> ids] /\ Rises(s, n)
  BY <1>2 DEF Ordered, Rises
<1>4. \A i \in ids : i \in Int
  BY IngestAssumption DEF Ids
<1>5. s \in Bijection(1..n, R)
  <2>1. s \in [1..n -> R]
    BY <1>3
  <2>2. \A i, j \in 1..n : s[i] = s[j] => i = j
    BY <1>3, <1>4 DEF Rises
  <2>3. s \in Injection(1..n, R) /\ s \in Surjection(1..n, R)
    BY <2>1, <2>2, Fun_IsInj, Fun_IsSurj
  <2> QED
    BY <2>3 DEF Bijection
<1>6. R \subseteq ids /\ Cardinality(R) = n /\ IsFiniteSet(R)
  <2>1. IsFiniteSet(1..n) /\ Cardinality(1..n) = n
    BY <1>1, FS_Interval
  <2>2. R \subseteq ids
    BY <1>3
  <2> HIDE DEF R, s
  <2> QED
    BY <1>1, <1>5, <2>1, <2>2, FS_Bijection DEF ExistsBijection
<1> HIDE DEF s
<1>7. R = ids
  <2> HIDE DEF R
  <2> QED
    BY <1>1, <1>6, FS_Subset
<1>8. ASSUME NEW i \in ids PROVE \E m \in 1..n : s[m] = i
  BY <1>7, <1>8
<1> QED
  BY <1>1, <1>3, <1>8 DEF s

-----------------------------------------------------------------------------
(* Keys that one operation has in hand *)

Reasons == {"", "only candidate", "author origin", "newer", "fidelity", "attachments", "hash"}
Texts == {None} \cup [key : Keys, hash : Nat]
Obs == [src : Sources, key : Keys, cand : Candidate, doc : Docs]
Item == [winner : Ids \cup {0}, reason : Reasons]
AtKey == {"columns", "upsert", "text", "unindex", "index", "forget", "unlist"}
Op == [pc : {"idle", "observe", "candidates", "detach", "drop"} \cup AtKey,
       doc : Docs \cup {None}, src : Sources \cup {None}, at : Nat, todo : SUBSET Keys, key : Keys \cup {None},
       winner : Ids \cup {0}, reason : Reasons, text : Texts]

Tables ==
  /\ sources \subseteq Sources
  /\ expired \subseteq payloads /\ payloads \subseteq Docs
  /\ obs \in [Ids -> Obs \cup {None}]
  /\ items \in [Keys -> Item]
  /\ search = [k \in Keys |-> search[k]]
  /\ op \in [Actors -> Op]
  /\ unsettled \subseteq Keys /\ crossed \subseteq Keys

\* What Decide comes to: no row of the key beats this one, and it beats those
\* that came before it.
Wins(k, w) ==
  /\ w \in IdsOf(k)
  /\ \A i \in IdsOf(k) : /\ ~Beats(obs[i].cand, obs[w].cand)
                         /\ i < w => Beats(obs[w].cand, obs[i].cand)

Listed(k) == IF IdsOf(k) = {} THEN items[k].winner = 0 ELSE Wins(k, items[k].winner)
Mirrored(k) == search[k] = IF items[k].winner = 0 THEN <<>> ELSE <<Text(items[k].winner)>>

\* A listed item shows one of its own readings.
Own(k) == items[k].winner # 0 => items[k].winner \in IdsOf(k)

\* How far an operation has got with its key.
Reached(q) ==
  /\ q.pc \in {"columns", "upsert"} => Wins(q.key, q.winner)
  /\ q.pc \in {"text", "unindex", "index"} => Wins(q.key, items[q.key].winner)
  /\ q.pc \in {"unindex", "index"} => q.text = Text(items[q.key].winner)
  /\ q.pc = "index" => search[q.key] = <<>>
  /\ q.pc \in {"forget", "unlist"} => Listed(q.key)
  /\ q.pc = "forget" /\ items[q.key].winner # 0 => Mirrored(q.key)
  /\ q.pc = "unlist" => items[q.key].winner = 0

\* What an operation was called with.
Shaped(q) ==
  /\ q.pc = "idle" => q.todo = {}
  /\ q.pc = "observe" => q.doc \in Docs /\ q.src \in Sources /\ q.at # 0
  /\ q.pc \in {"detach", "drop"} => q.src \in Sources
  /\ q.pc \in {"detach", "drop", "forget", "unlist"} => q.doc = None
  /\ q.pc \in AtKey => q.key \in q.todo

\* What an operation knows of a key that no other one has in hand.
Ready(q, k) ==
  /\ q.pc \in AtKey /\ q.key = k => Reached(q)
  /\ k \in q.todo /\ q.doc # None => IdsOf(k) # {}
  /\ q.pc = "detach" /\ k \in WonBy(q.src) => k \in q.todo

Sound(k) ==
  /\ Own(k)
  /\ Settled(k) => Listed(k) /\ Mirrored(k)
  /\ \A a \in Actors : Ready(op[a], k)

ApartInv ==
  /\ Tables
  /\ \A a \in Actors : Shaped(op[a])
  /\ Crossing \subseteq crossed
  /\ \A k \in Keys \ crossed : Sound(k)

\* The reasons Resolve gives are the rules it has.
LEMMA ReasonFits ==
  ASSUME NEW cs
  PROVE  Resolve(cs).reason \in Reasons
<1>1. \A a, b : Reason(a, b) \in Reasons
  BY DEF Reason, Reasons
<1> DEFINE other == Without(cs, Best(cs))
<1>2. Resolve(cs).reason = IF Len(cs) = 1 THEN "only candidate" ELSE Reason(cs[Best(cs)], other[Best(other)])
  BY DEF Resolve
<1> HIDE DEF other
<1>3. "only candidate" \in Reasons
  BY DEF Reasons
<1> QED
  BY <1>1, <1>2, <1>3

\* A row of observation has its columns.
LEMMA RowFits ==
  ASSUME Tables, NEW i, Row(i)
  PROVE  i \in Ids /\ obs[i] \in Obs /\ obs[i].cand \in Candidate
BY DEF Tables, Row, Obs

\* The loop of Converge comes to the winner.
LEMMA Decided ==
  ASSUME Tables, NEW k \in Keys, IdsOf(k) # {}
  PROVE  Wins(k, Decide(k).winner) /\ Decide(k).winner \in Ids /\ Decide(k).reason \in Reasons
<1> DEFINE ids == IdsOf(k)
           rows == Ordered(ids)
           n == Cardinality(ids)
           cs == [m \in DOMAIN rows |-> obs[rows[m]].cand]
           b == Best(cs)
<1>1. ids \in SUBSET Ids /\ ids # {}
  BY DEF IdsOf
<1>2. /\ n \in Nat /\ n # 0 /\ rows \in [1..n -> ids] /\ Rises(rows, n)
      /\ \A i \in ids : \E m \in 1..n : rows[m] = i
  <2> HIDE DEF ids
  <2> QED
    BY <1>1, OrderedAll
<1>3. \A i \in ids : obs[i].cand \in Candidate
  BY RowFits DEF IdsOf
<1>4. /\ Decide(k).winner = rows[b]
      /\ Decide(k).reason = Resolve(cs).reason
  BY DEF Decide, Resolve
<1> HIDE DEF ids, rows, n
<1>5. cs = [m \in 1..n |-> obs[rows[m]].cand] /\ \A m \in 1..n : cs[m] = obs[rows[m]].cand
  BY <1>2
<1>6. cs \in Seq(Candidate) /\ Len(cs) = n /\ cs # <<>>
  <2>1. cs \in [1..n -> Candidate]
    BY <1>2, <1>3, <1>5
  <2> HIDE DEF cs
  <2>2. cs \in Seq(Candidate) /\ Len(cs) = n
    BY <1>2, <2>1, SeqDef, LenProperties
  <2> QED
    BY <1>2, <2>2, EmptySeq
<1> HIDE DEF cs
<1>7. /\ b \in 1..n
      /\ \A m \in 1..n : ~Beats(cs[m], cs[b]) /\ (m < b => Beats(cs[b], cs[m]))
  BY <1>6, Led
<1> HIDE DEF b
<1>8. rows[b] \in ids
  BY <1>2, <1>7
<1>9. ASSUME NEW i \in ids
      PROVE  ~Beats(obs[i].cand, obs[rows[b]].cand) /\ (i < rows[b] => Beats(obs[rows[b]].cand, obs[i].cand))
  <2>1. PICK m \in 1..n : rows[m] = i
    BY <1>2
  <2>2. cs[m] = obs[i].cand /\ cs[b] = obs[rows[b]].cand
    BY <1>5, <1>7, <2>1
  <2>3. i < rows[b] => m < b
    <3>1. rows[m] \in Int /\ rows[b] \in Int /\ m \in Int /\ b \in Int
      BY <1>1, <1>2, <1>7, <2>1, IngestAssumption DEF Ids
    <3>2. b < m => rows[b] < rows[m]
      BY <1>2, <1>7 DEF Rises
    <3> QED
      BY <2>1, <3>1, <3>2
  <2> QED
    BY <1>7, <2>2, <2>3
<1> QED
  BY <1>1, <1>4, <1>8, <1>9, ReasonFits DEF Wins, ids

\* No two rows of a key win.
LEMMA OneWins ==
  ASSUME NEW k, NEW v, NEW w, Wins(k, v), Wins(k, w)
  PROVE  v = w
<1>1. v \in Int /\ w \in Int
  BY IngestAssumption DEF Wins, IdsOf, Ids
<1> QED
  BY <1>1 DEF Wins

-----------------------------------------------------------------------------
(* Steps *)

\* An actor at rest fits its type, as one between two keys does.
LEMMA IdleFits == Idle \in Op /\ Idle.pc = "idle" /\ Idle.todo = {}
BY IngestAssumption DEF Idle, Op, Reasons, Texts

LEMMA BetweenFits ==
  ASSUME NEW a \in Actors, op[a] \in Op, NEW pc \in {"candidates", "forget"}, NEW key \in Keys \cup {None}, NEW todo \in SUBSET Keys
  PROVE  /\ Between(a, pc, key, todo) \in Op
         /\ Between(a, pc, key, todo).pc = pc /\ Between(a, pc, key, todo).doc = op[a].doc
         /\ Between(a, pc, key, todo).key = key /\ Between(a, pc, key, todo).todo = todo
<1> DEFINE x1 == [Idle EXCEPT !.pc = pc]
           x2 == [x1 EXCEPT !.doc = op[a].doc]
           x3 == [x2 EXCEPT !.src = op[a].src]
           x4 == [x3 EXCEPT !.at = op[a].at]
           x5 == [x4 EXCEPT !.key = key]
           x6 == [x5 EXCEPT !.todo = todo]
<1>1. x1 \in Op /\ x1.pc = pc
  BY IdleFits DEF Op, AtKey
<1>2. Between(a, pc, key, todo) = x6
  BY DEF Between
<1> HIDE DEF x1
<1>3. x2 \in Op /\ x2.pc = pc /\ x2.doc = op[a].doc
  BY <1>1 DEF Op
<1> HIDE DEF x2
<1>4. x3 \in Op /\ x3.pc = pc /\ x3.doc = op[a].doc
  BY <1>3 DEF Op
<1> HIDE DEF x3
<1>5. x4 \in Op /\ x4.pc = pc /\ x4.doc = op[a].doc
  BY <1>4 DEF Op
<1> HIDE DEF x4
<1>6. x5 \in Op /\ x5.pc = pc /\ x5.doc = op[a].doc /\ x5.key = key
  BY <1>5 DEF Op
<1> HIDE DEF x5
<1>7. x6 \in Op /\ x6.pc = pc /\ x6.doc = op[a].doc /\ x6.key = key /\ x6.todo = todo
  BY <1>6 DEF Op
<1> HIDE DEF x6
<1> QED
  BY <1>2, <1>7

\* What every step of an operation may rely on, and what it knows of a key that
\* was not crossed.
LEMMA Mine ==
  ASSUME ApartInv, NEW a \in Actors
  PROVE  /\ op[a] \in Op /\ Shaped(op[a])
         /\ op[a].todo \subseteq Keys /\ (op[a].key \in op[a].todo => op[a].key \in Keys)
         /\ sources \subseteq Sources /\ expired \subseteq payloads /\ payloads \subseteq Docs /\ unsettled \subseteq Keys
BY DEF ApartInv, Tables, Op

LEMMA Known ==
  ASSUME ApartInv, NEW a \in Actors, NEW k \in Keys, k \notin crossed
  PROVE  Own(k) /\ Ready(op[a], k)
BY DEF ApartInv, Sound

\* The step in question leaves the rows, the item and the index of a key alone.
Untouched(k) ==
  /\ IdsOf(k)' = IdsOf(k) /\ \A i \in IdsOf(k) : obs'[i] = obs[i]
  /\ items'[k] = items[k] /\ search'[k] = search[k]

\* The step is one of the history.
Marked == crossed' = (crossed \ Restarted) \cup Crossing'

\* Then what is said of the key stays true.
LEMMA KeyStays ==
  ASSUME NEW k \in Keys, Own(k), Untouched(k)
  PROVE  /\ Own(k)' /\ (Listed(k) => Listed(k)') /\ (Mirrored(k) => Mirrored(k)')
         /\ \A w : Wins(k, w) => Wins(k, w)'
         /\ \A s : k \in WonBy(s)' => k \in WonBy(s)
<1>1. \A w : Wins(k, w) => Wins(k, w)'
  BY DEF Wins, Untouched
<1>2. Own(k)'
  BY DEF Own, Untouched
<1>3. Listed(k) => Listed(k)'
  BY <1>1 DEF Listed, Untouched
<1>4. items[k].winner # 0 => Text(items[k].winner)' = Text(items[k].winner)
  BY DEF Own, Text, Untouched
<1>5. Mirrored(k) => Mirrored(k)'
  BY <1>4 DEF Mirrored, Untouched
<1>6. \A s : k \in WonBy(s)' => k \in WonBy(s)
  BY DEF WonBy, Own, Untouched
<1> QED
  BY <1>1, <1>2, <1>3, <1>5, <1>6

LEMMA ReadyStays ==
  ASSUME NEW k \in Keys, Own(k), Untouched(k), NEW q \in Op, Ready(q, k)
  PROVE  Ready(q, k)'
<1>1. /\ (Listed(k) => Listed(k)') /\ (Mirrored(k) => Mirrored(k)')
      /\ \A w : Wins(k, w) => Wins(k, w)'
      /\ \A s : k \in WonBy(s)' => k \in WonBy(s)
  BY KeyStays
<1>2. \A w : Wins(k, w) => Text(w)' = Text(w)
  BY DEF Wins, Text, Untouched
<1>3. items'[k] = items[k] /\ search'[k] = search[k] /\ IdsOf(k)' = IdsOf(k)
  BY DEF Untouched
<1>4. ASSUME q.pc \in AtKey, q.key = k PROVE Reached(q)'
  <2>1. Reached(q)
    BY <1>4 DEF Ready
  <2> QED
    BY <1>1, <1>2, <1>3, <1>4, <2>1 DEF Reached
<1> QED
  BY <1>1, <1>3, <1>4 DEF Ready

\* An operation that has not got the key in hand knows all it has to know.
LEMMA Absent ==
  ASSUME NEW b \in Actors, NEW q \in Op, op'[b] = q, Shaped(q), NEW k \in Keys, k \notin InHand(b)'
  PROVE  Ready(q, k)'
BY DEF InHand, Shaped, Ready

\* Only the operation that makes the step starts over with a key.
LEMMA RestartedBy ==
  ASSUME ApartInv, NEW a \in Actors, NEW q \in Op, op' = [op EXCEPT ![a] = q], NEW k \in Restarted
  PROVE  k \in Keys /\ Own(k) /\ op[a].pc = "candidates" /\ q.pc = "columns" /\ q.key = k
<1>1. PICK b \in Actors : op[b].pc = "candidates" /\ op'[b].pc = "columns" /\ op'[b].key = k
  BY DEF Restarted
<1>2. b = a
  BY <1>1 DEF ApartInv, Tables
<1> QED
  BY <1>1, <1>2 DEF Restarted, Own, ApartInv, Tables

\* A settled key that the operation had not to do was settled before.
LEMMA OthersStay ==
  ASSUME ApartInv, NEW a \in Actors, NEW q \in Op, op' = [op EXCEPT ![a] = q],
         NEW k \in Keys, k \notin crossed, Settled(k)', k \notin unsettled, k \notin op[a].todo
  PROVE  Listed(k) /\ Mirrored(k)
<1>1. \A b \in Actors : b # a => op'[b] = op[b]
  BY DEF ApartInv, Tables
<1>2. Settled(k)
  BY <1>1 DEF Settled
<1> QED
  BY <1>2 DEF ApartInv, Sound

\* A step of one operation: it says what becomes of the keys that it has in
\* hand before or after; the others have nothing to fear from it.
LEMMA OneStep ==
  ASSUME ApartInv, NEW a \in Actors, NEW q \in Op, op' = [op EXCEPT ![a] = q], Tables', Shaped(q), Marked,
         \A k \in Keys : k \in InHand(a) \/ k \in InHand(a)' \/ Untouched(k),
         \A k \in Keys, s \in Sources \cup {None} :
           (k \notin InHand(a)' /\ Own(k) /\ k \in WonBy(s)') => k \in WonBy(s),
         \A k \in Keys : (k \in unsettled /\ k \notin unsettled') => k \in op[a].todo,
         \A k \in Keys \ crossed : (k \in InHand(a) \/ k \in InHand(a)') =>
           Own(k)' /\ Ready(q, k)' /\ (Settled(k)' => Listed(k)' /\ Mirrored(k)'),
         \A k \in Restarted : Own(k)' /\ Ready(q, k)'
  PROVE  ApartInv'
<1>1. op'[a] = q /\ \A b \in Actors : b # a => op'[b] = op[b]
  BY DEF ApartInv, Tables
<1>2. \A b \in Actors : Shaped(op[b])'
  BY <1>1 DEF ApartInv, Shaped
<1>3. Crossing' \subseteq crossed'
  BY DEF Marked
<1>4. ASSUME NEW k \in Restarted PROVE k \in q.todo /\ k \in InHand(a)'
  <2>1. q.pc = "columns" /\ q.key = k
    BY RestartedBy
  <2>2. k \in q.todo
    BY <2>1 DEF Shaped, AtKey
  <2> QED
    BY <1>1, <2>2 DEF InHand
<1>5. ASSUME NEW k \in Keys, k \notin crossed', NEW b \in Actors, b # a PROVE Ready(op[b], k)'
  <2>1. PICK r : r = op[b]
    OBVIOUS
  <2>2. op'[b] = r /\ r \in Op /\ Shaped(r)
    BY <1>1, <1>5, <2>1 DEF ApartInv, Tables
  <2>3. CASE k \in InHand(a)'
    <3>1. k \notin InHand(b)'
      BY <1>3, <1>5, <2>3 DEF Crossing
    <3>2. Ready(r, k)'
      BY <2>2, <3>1, Absent
    <3> QED
      BY <2>2, <3>2
  <2>4. CASE k \notin InHand(a)'
    <3>1. k \notin crossed
      BY <1>4, <1>5, <2>4 DEF Marked
    <3>2. Own(k) /\ Ready(r, k)
      BY <2>1, <3>1, Known
    <3>3. CASE k \in InHand(a)
      <4>1. k \notin InHand(b)
        BY <1>5, <3>1, <3>3 DEF Crossing, ApartInv
      <4>2. k \notin r.todo /\ (r.pc = "detach" => k \notin WonBy(r.src)) /\ r.src \in Sources \cup {None}
        BY <2>1, <2>2, <4>1 DEF InHand, Op
      <4>3. r.pc = "detach" => k \notin WonBy(r.src)'
        BY <2>4, <3>2, <4>2
      <4>4. Ready(r, k)'
        BY <2>2, <4>2, <4>3 DEF Ready, Shaped
      <4> QED
        BY <2>2, <4>4
    <3>4. CASE k \notin InHand(a)
      <4>1. Ready(r, k)'
        BY <2>2, <2>4, <3>2, <3>4, ReadyStays
      <4> QED
        BY <2>2, <4>1
    <3> QED
      BY <3>3, <3>4
  <2> QED
    BY <2>3, <2>4
<1>6. ASSUME NEW k \in Keys, k \notin crossed'
      PROVE  Own(k)' /\ Ready(q, k)' /\ (Settled(k)' => Listed(k)' /\ Mirrored(k)')
  <2>1. CASE k \in Restarted
    <3>1. ~Settled(k)'
      BY <1>1, <1>4, <2>1 DEF Settled
    <3> QED
      BY <2>1, <3>1
  <2>2. CASE k \notin Restarted
    <3>1. k \notin crossed
      BY <1>6, <2>2 DEF Marked
    <3>2. CASE k \in InHand(a) \/ k \in InHand(a)'
      BY <3>1, <3>2
    <3>3. CASE k \notin InHand(a) /\ k \notin InHand(a)'
      <4>1. Untouched(k) /\ Own(k)
        BY <3>1, <3>3, Known
      <4>2. Own(k)' /\ (Listed(k) => Listed(k)') /\ (Mirrored(k) => Mirrored(k)')
        BY <4>1, KeyStays
      <4>3. Ready(q, k)'
        BY <1>1, <3>3, Absent
      <4>4. k \notin op[a].todo
        BY <3>3 DEF InHand
      <4>5. Settled(k)' => Listed(k) /\ Mirrored(k)
        BY <3>1, <4>4, OthersStay DEF Settled
      <4> QED
        BY <4>2, <4>3, <4>5
    <3> QED
      BY <3>2, <3>3
  <2> QED
    BY <2>1, <2>2
<1>7. ASSUME NEW k \in Keys, k \notin crossed', NEW b \in Actors PROVE Ready(op[b], k)'
  <2>1. CASE b = a
    BY <1>1, <1>6, <1>7, <2>1
  <2> QED
    BY <1>5, <1>7, <2>1
<1>8. \A k \in (Keys \ crossed)' : Sound(k)'
  BY <1>6, <1>7 DEF Sound
<1> QED
  BY <1>2, <1>3, <1>8 DEF ApartInv

\* Without a change of observation the winners stay.
LEMMA SameRows ==
  ASSUME UNCHANGED obs
  PROVE  \A k : IdsOf(k)' = IdsOf(k) /\ \A w : Wins(k, w)' = Wins(k, w)
BY DEF IdsOf, Row, Wins

\* A step that keeps the tables of the feed keeps what is said of them.
LEMMA SameTables ==
  ASSUME UNCHANGED <<obs, items, search>>
  PROVE  /\ \A k : IdsOf(k)' = IdsOf(k) /\ Listed(k)' = Listed(k) /\ Mirrored(k)' = Mirrored(k) /\ Own(k)' = Own(k)
         /\ \A s : WonBy(s)' = WonBy(s)
         /\ \A q, k : Ready(q, k)' = Ready(q, k)
<1>1. \A k : IdsOf(k)' = IdsOf(k) /\ \A w : Wins(k, w)' = Wins(k, w)
  BY SameRows
<1>2. \A k : Listed(k)' = Listed(k) /\ Mirrored(k)' = Mirrored(k) /\ Own(k)' = Own(k)
  BY <1>1 DEF Listed, Mirrored, Text, Own
<1>3. \A s : WonBy(s)' = WonBy(s)
  BY DEF WonBy
<1>4. \A q : Reached(q)' = Reached(q)
  BY <1>1, <1>2 DEF Reached, Text
<1>5. \A q, k : Ready(q, k)' = Ready(q, k)
  BY <1>1, <1>3, <1>4 DEF Ready
<1> QED
  BY <1>1, <1>2, <1>3, <1>5

\* A step that leaves what is recorded, listed and indexed alone.
LEMMA OpAlone ==
  ASSUME ApartInv, NEW a \in Actors, NEW q \in Op, op' = [op EXCEPT ![a] = q], Marked,
         UNCHANGED <<obs, items, search>>,
         sources' \subseteq Sources, expired' \subseteq payloads', payloads' \subseteq Docs, unsettled' \subseteq Keys,
         Shaped(q),
         \A k \in Keys : (k \in unsettled /\ k \notin unsettled') => k \in op[a].todo,
         \A k \in Keys : (k \notin crossed \/ (q.pc = "columns" /\ q.key = k)) => Ready(q, k),
         \A k \in Keys \ crossed : (k \in op[a].todo /\ k \notin unsettled' /\ k \notin q.todo) => Listed(k) /\ Mirrored(k)
  PROVE  ApartInv'
<1>1. Tables'
  <2>1. crossed' \subseteq Keys
    BY DEF Marked, Crossing, ApartInv, Tables
  <2> QED
    BY <2>1 DEF ApartInv, Tables
<1>2. \A k \in Keys : Untouched(k)
  BY SameTables DEF Untouched
<1>3. \A k \in Keys, s \in Sources \cup {None} : k \in WonBy(s)' => k \in WonBy(s)
  BY SameTables
<1>4. op'[a] = q
  BY DEF ApartInv, Tables
<1>5. ASSUME NEW k \in Keys, k \notin crossed
      PROVE  Own(k)' /\ Ready(q, k)' /\ (Settled(k)' => Listed(k)' /\ Mirrored(k)')
  <2>1. Own(k)' /\ Ready(q, k)'
    BY <1>5, Known, SameTables
  <2>2. ASSUME Settled(k)' PROVE Listed(k) /\ Mirrored(k)
    <3>1. k \notin unsettled' /\ k \notin q.todo
      BY <1>4, <2>2 DEF Settled
    <3> QED
      BY <1>5, <2>2, <3>1, OthersStay
  <2> QED
    BY <2>1, <2>2, SameTables
<1>6. ASSUME NEW k \in Restarted PROVE Own(k)' /\ Ready(q, k)'
  <2>1. k \in Keys /\ Own(k) /\ q.pc = "columns" /\ q.key = k
    BY RestartedBy
  <2>2. Ready(q, k)
    BY <2>1
  <2> QED
    BY <2>1, <2>2, SameTables
<1> QED
  BY <1>1, <1>2, <1>3, <1>5, <1>6, OneStep

\* A step of nobody's operation.
LEMMA Around ==
  ASSUME ApartInv, UNCHANGED <<obs, items, search, op, unsettled>>, Marked \/ UNCHANGED crossed,
         sources' \subseteq Sources, expired' \subseteq payloads', payloads' \subseteq Docs
  PROVE  ApartInv'
<1>1. Restarted = {}
  BY DEF Restarted
<1>2. Crossing' = Crossing
  BY DEF Crossing, InHand, WonBy, IdsOf, Row
<1>3. crossed' = crossed
  BY <1>1, <1>2 DEF Marked, ApartInv
<1>4. Tables'
  BY <1>3 DEF ApartInv, Tables
<1>5. ASSUME NEW k \in Keys \ crossed PROVE Sound(k)'
  <2>1. Own(k)' /\ (Settled(k)' => Listed(k)' /\ Mirrored(k)')
    BY SameTables DEF ApartInv, Sound, Settled
  <2>2. ASSUME NEW a \in Actors PROVE Ready(op[a], k)'
    <3>1. PICK q : q = op[a]
      OBVIOUS
    <3>2. op'[a] = q /\ Ready(q, k)
      BY <1>5, <3>1 DEF ApartInv, Sound
    <3>3. Ready(q, k)'
      BY <3>2, SameTables
    <3> QED
      BY <3>2, <3>3
  <2> QED
    BY <2>1, <2>2 DEF Sound
<1> QED
  BY <1>2, <1>3, <1>4, <1>5 DEF ApartInv, Shaped

\* An actor at rest owes nothing.
LEMMA IdleDone == Shaped(Idle) /\ \A k : Ready(Idle, k)
BY IdleFits DEF Shaped, Ready, AtKey, Idle

\* What an operation that fails had still to do is unsettled from then on.
LEMMA FailKeeps ==
  ASSUME ApartInv, NEW a \in Actors, Fail(a), Marked, UNCHANGED <<sources, payloads, expired, obs, items, search>>
  PROVE  ApartInv'
<1>1. op' = [op EXCEPT ![a] = Idle] /\ unsettled' = unsettled \cup op[a].todo
  BY DEF Fail, Leave
<1>2. op[a].todo \subseteq Keys /\ unsettled \subseteq Keys /\ sources \subseteq Sources /\ expired \subseteq payloads /\ payloads \subseteq Docs
  BY Mine
<1> QED
  BY <1>1, <1>2, IdleFits, IdleDone, OpAlone

\* A step that touches one of the keys the operation has to do, and no other.
Touches(a, q, k) ==
  /\ op' = [op EXCEPT ![a] = q]
  /\ UNCHANGED obs
  /\ \A j \in Keys : j # k =>
       /\ items'[j] = items[j] /\ search'[j] = search[j]
       /\ j \in q.todo <=> j \in op[a].todo
       /\ j \in unsettled => j \in unsettled'
  /\ items' = items \/ k \in q.todo
  /\ q.pc \notin {"columns", "detach"} /\ (q.pc \in AtKey => q.key = k)
  /\ q.doc \in {None, op[a].doc}

LEMMA AtOneKey ==
  ASSUME ApartInv, NEW a \in Actors, NEW q \in Op, NEW k \in op[a].todo, Touches(a, q, k),
         Tables', Shaped(q), Marked,
         k \notin crossed => Own(k)' /\ Ready(q, k)' /\ (Settled(k)' => Listed(k)' /\ Mirrored(k)')
  PROVE  ApartInv'
<1>0. /\ op' = [op EXCEPT ![a] = q] /\ UNCHANGED obs /\ (items' = items \/ k \in q.todo)
      /\ \A j \in Keys : j # k => /\ items'[j] = items[j] /\ search'[j] = search[j]
                                  /\ j \in q.todo <=> j \in op[a].todo
                                  /\ j \in unsettled => j \in unsettled'
      /\ q.pc \notin {"columns", "detach"} /\ (q.pc \in AtKey => q.key = k) /\ q.doc \in {None, op[a].doc}
  BY DEF Touches
<1>1. op'[a] = q /\ k \in Keys
  BY <1>0, Mine DEF ApartInv, Tables
<1>2. \A j : IdsOf(j)' = IdsOf(j)
  BY <1>0, SameRows
<1>3. \A j \in Keys : j # k => Untouched(j)
  BY <1>0, <1>2 DEF Untouched
<1>4. k \in InHand(a) /\ (k \in q.todo => k \in InHand(a)')
  BY <1>1 DEF InHand
<1>5. ASSUME NEW j \in Keys, NEW s, j \notin InHand(a)', j \in WonBy(s)' PROVE j \in WonBy(s)
  <2>1. items'[j] = items[j]
    BY <1>0, <1>4, <1>5
  <2> QED
    BY <1>0, <1>5, <2>1 DEF WonBy
<1>6. ASSUME NEW j \in Keys, j \notin crossed
      PROVE  Own(j)' /\ Ready(q, j)' /\ (Settled(j)' => Listed(j)' /\ Mirrored(j)')
  <2>1. CASE j = k
    BY <1>6, <2>1
  <2>2. CASE j # k
    <3>1. Own(j) /\ Ready(op[a], j) /\ Untouched(j)
      BY <1>3, <1>6, <2>2, Known
    <3>2. Own(j)' /\ (Listed(j) => Listed(j)') /\ (Mirrored(j) => Mirrored(j)')
      BY <3>1, KeyStays
    <3>3. Ready(q, j)'
      BY <1>0, <1>2, <2>2, <3>1 DEF Ready
    <3>4. Settled(j)' => j \notin unsettled /\ j \notin op[a].todo
      BY <1>0, <1>1, <2>2 DEF Settled
    <3>5. Settled(j)' => Listed(j) /\ Mirrored(j)
      BY <1>0, <1>6, <3>4, OthersStay
    <3> QED
      BY <3>2, <3>3, <3>5
  <2> QED
    BY <2>1, <2>2
<1>7. Restarted = {}
  BY <1>0, RestartedBy
<1>8. \A j \in Keys : (j \in unsettled /\ j \notin unsettled') => j \in op[a].todo
  BY <1>0
<1>9. \A j \in Keys : j \in InHand(a) \/ j \in InHand(a)' \/ Untouched(j)
  BY <1>3, <1>4
<1> QED
  BY <1>0, <1>5, <1>6, <1>7, <1>8, <1>9, OneStep

\* Going on to another statement changes the program counter alone.
LEMMA GotoFits ==
  ASSUME NEW q \in Op, NEW pc \in {"candidates", "drop"} \cup AtKey
  PROVE  LET r == [q EXCEPT !.pc = pc] IN
         /\ r \in Op /\ r.pc = pc /\ r.doc = q.doc /\ r.src = q.src /\ r.at = q.at /\ r.todo = q.todo /\ r.key = q.key
         /\ r.winner = q.winner /\ r.reason = q.reason /\ r.text = q.text
BY DEF Op, AtKey

\* A step that only goes on to the next statement.
LEMMA GotoIs ==
  ASSUME ApartInv, NEW a \in Actors, NEW pc \in {"candidates", "drop"} \cup AtKey, Goto(a, pc)
  PROVE  \E r \in Op : /\ op' = [op EXCEPT ![a] = r]
                       /\ r.pc = pc /\ r.doc = op[a].doc /\ r.src = op[a].src /\ r.todo = op[a].todo
                       /\ r.key = op[a].key /\ r.winner = op[a].winner /\ r.text = op[a].text
<1> DEFINE r == [op[a] EXCEPT !.pc = pc]
<1>1. /\ r \in Op /\ r.pc = pc /\ r.doc = op[a].doc /\ r.src = op[a].src /\ r.todo = op[a].todo
      /\ r.key = op[a].key /\ r.winner = op[a].winner /\ r.text = op[a].text
  BY Mine, GotoFits
<1>2. op' = [op EXCEPT ![a] = r]
  BY DEF Goto, ApartInv, Tables
<1> HIDE DEF r
<1> QED
  BY <1>1, <1>2

\* What is left of an operation after a key.
LEMMA NextKeyIs ==
  ASSUME ApartInv, NEW a \in Actors, NEW k, NextKey(a, k)
  PROVE  \E r \in Op : /\ op' = [op EXCEPT ![a] = r]
                       /\ r.pc \in {"idle", "candidates"} /\ r.todo = op[a].todo \ {k}
                       /\ r.doc \in {None, op[a].doc} /\ (r.pc = "idle" => r.todo = {})
<1>1. op[a] \in Op /\ op[a].todo \ {k} \in SUBSET Keys
  BY Mine
<1>2. CASE op[a].todo = {k}
  <2>1. op' = [op EXCEPT ![a] = Idle]
    BY <1>2 DEF NextKey
  <2>2. Idle.doc = None
    BY DEF Idle
  <2> QED
    BY <1>2, <2>1, <2>2, IdleFits
<1>3. CASE op[a].todo # {k}
  <2>1. PICK r : r = Between(a, "candidates", None, op[a].todo \ {k})
    OBVIOUS
  <2>2. op' = [op EXCEPT ![a] = r]
    BY <1>3, <2>1 DEF NextKey
  <2>3. r \in Op /\ r.pc = "candidates" /\ r.doc = op[a].doc /\ r.todo = op[a].todo \ {k}
    BY <1>1, <2>1, BetweenFits
  <2> QED
    BY <2>2, <2>3
<1> QED
  BY <1>2, <1>3

\* Storing a payload starts an operation that owes nothing yet.
LEMMA StoreKeeps ==
  ASSUME ApartInv, NEW a \in Actors, NEW d \in Docs, StorePayload(a, d), Marked
  PROVE  ApartInv'
<1> DEFINE x1 == [Idle EXCEPT !.pc = "observe"]
           x2 == [x1 EXCEPT !.doc = d]
           x3 == [x2 EXCEPT !.src = d.src]
           x4 == [x3 EXCEPT !.at = 1]
<1>1. /\ op' = [op EXCEPT ![a] = x4] /\ payloads' = payloads \cup {d} /\ op[a] = Idle
      /\ UNCHANGED <<sources, expired, obs, items, search, unsettled>> /\ d.src \in sources
  BY DEF StorePayload
<1>2. sources \subseteq Sources /\ expired \subseteq payloads /\ payloads \subseteq Docs /\ unsettled \subseteq Keys
  BY Mine
<1>3. x1 \in Op /\ x1.pc = "observe" /\ x1.todo = {}
  BY IdleFits DEF Op
<1> HIDE DEF x1
<1>4. x2 \in Op /\ x2.pc = "observe" /\ x2.todo = {} /\ x2.doc = d
  BY <1>3 DEF Op
<1> HIDE DEF x2
<1>5. x3 \in Op /\ x3.pc = "observe" /\ x3.todo = {} /\ x3.doc = d /\ x3.src = d.src
  BY <1>1, <1>2, <1>4 DEF Op
<1> HIDE DEF x3
<1>6. x4 \in Op /\ x4.pc = "observe" /\ x4.todo = {} /\ x4.doc = d /\ x4.src = d.src /\ x4.at = 1
  BY <1>5 DEF Op
<1> HIDE DEF x4
<1>7. PICK q \in Op : q = x4
  BY <1>6
<1>8. Shaped(q) /\ \A k : Ready(q, k)
  BY <1>1, <1>2, <1>6, <1>7 DEF Shaped, Ready, AtKey
<1>9. \A k \in Keys : k \notin op[a].todo
  BY <1>1, IdleFits
<1> QED
  BY <1>1, <1>2, <1>6, <1>7, <1>8, <1>9, OpAlone

LEMMA BeginKeeps ==
  ASSUME ApartInv, NEW a \in Actors, BeginConverging(a), Marked
  PROVE  ApartInv'
<1>1. /\ UNCHANGED <<sources, payloads, expired, obs, items, search, unsettled>>
      /\ op[a].pc = "observe" /\ (IF op[a].todo = {} THEN Leave(a) ELSE Goto(a, "candidates"))
  BY DEF BeginConverging
<1>2. CASE op[a].todo = {}
  BY <1>1, <1>2, Mine, IdleFits, IdleDone, OpAlone DEF Leave
<1>3. CASE op[a].todo # {}
  <2>1. PICK r \in Op : /\ op' = [op EXCEPT ![a] = r]
                        /\ r.pc = "candidates" /\ r.doc = op[a].doc /\ r.todo = op[a].todo
    BY <1>1, <1>3, GotoIs
  <2>2. Shaped(r)
    BY <2>1 DEF Shaped, AtKey
  <2>3. \A k \in Keys \ crossed : Ready(r, k)
    BY <2>1, Known DEF Ready, AtKey
  <2> QED
    BY <1>1, <2>1, <2>2, <2>3, Mine, OpAlone
<1> QED
  BY <1>2, <1>3

\* The winner that is read is the best row of its key, crossed or not.
LEMMA CandidatesKeep ==
  ASSUME ApartInv, NEW a \in Actors, NEW k \in Keys, ReadCandidates(a, k), Marked
  PROVE  ApartInv'
<1>1. /\ UNCHANGED <<sources, payloads, expired, obs, items, search>>
      /\ op[a].pc = "candidates" /\ k \in op[a].todo
  BY DEF ReadCandidates
<1>2. /\ op[a] \in Op /\ op[a].todo \subseteq Keys
      /\ sources \subseteq Sources /\ expired \subseteq payloads /\ payloads \subseteq Docs /\ unsettled \subseteq Keys
  BY Mine
<1>3. CASE IdsOf(k) = {} /\ Converged(a, k) /\ op[a].doc = None
  <2>1. PICK r : r = Between(a, "forget", k, op[a].todo)
    OBVIOUS
  <2>2. op' = [op EXCEPT ![a] = r] /\ unsettled' = unsettled \ {k}
    BY <1>3, <2>1 DEF Converged
  <2>3. r \in Op /\ r.pc = "forget" /\ r.doc = None /\ r.key = k /\ r.todo = op[a].todo
    BY <1>2, <1>3, <2>1, BetweenFits
  <2>4. k \notin crossed => items[k].winner = 0 /\ Listed(k)
    BY <1>3, Known DEF Own, Listed
  <2>5. Shaped(r) /\ \A j \in Keys \ crossed : Ready(r, j)
    BY <1>1, <2>3, <2>4 DEF Shaped, Ready, Reached, AtKey
  <2> QED
    BY <1>1, <1>2, <2>2, <2>3, <2>5, OpAlone
<1>4. CASE IdsOf(k) = {} /\ Converged(a, k) /\ op[a].doc # None
  <2>1. k \in crossed
    BY <1>1, <1>4, Known DEF Ready
  <2>2. NextKey(a, k) /\ unsettled' = unsettled \ {k}
    BY <1>4 DEF Converged
  <2>3. PICK r \in Op : /\ op' = [op EXCEPT ![a] = r]
                        /\ r.pc \in {"idle", "candidates"} /\ r.todo = op[a].todo \ {k} /\ r.doc \in {None, op[a].doc}
                        /\ (r.pc = "idle" => r.todo = {})
    BY <2>2, NextKeyIs
  <2>4. Shaped(r)
    BY <2>3 DEF Shaped, AtKey
  <2>5. \A j \in Keys \ crossed : Ready(r, j)
    BY <2>3, Known DEF Ready, AtKey
  <2> QED
    BY <1>1, <1>2, <2>1, <2>2, <2>3, <2>4, <2>5, OpAlone
<1>5. CASE IdsOf(k) # {} /\ ~(IdsOf(k) = {} /\ Converged(a, k))
  <2> DEFINE w == Decide(k).winner
             x1 == [op[a] EXCEPT !.key = k]
             x2 == [x1 EXCEPT !.pc = "columns"]
             x3 == [x2 EXCEPT !.winner = w]
             x4 == [x3 EXCEPT !.reason = Decide(k).reason]
  <2>1. op' = [op EXCEPT ![a] = x4] /\ UNCHANGED unsettled
    BY <1>5 DEF ReadCandidates, ApartInv, Tables
  <2>2. Wins(k, w) /\ w \in Ids /\ Decide(k).reason \in Reasons
    BY <1>5, Decided DEF ApartInv
  <2> HIDE DEF w
  <2>3. x1 \in Op /\ x1.key = k /\ x1.todo = op[a].todo /\ x1.doc = op[a].doc
    BY <1>2 DEF Op
  <2> HIDE DEF x1
  <2>4. x2 \in Op /\ x2.pc = "columns" /\ x2.key = k /\ x2.todo = op[a].todo /\ x2.doc = op[a].doc
    BY <2>3 DEF Op, AtKey
  <2> HIDE DEF x2
  <2>5. x3 \in Op /\ x3.pc = "columns" /\ x3.key = k /\ x3.todo = op[a].todo /\ x3.doc = op[a].doc /\ x3.winner = w
    BY <2>2, <2>4 DEF Op
  <2> HIDE DEF x3
  <2>6. x4 \in Op /\ x4.pc = "columns" /\ x4.key = k /\ x4.todo = op[a].todo /\ x4.doc = op[a].doc /\ x4.winner = w
    BY <2>2, <2>5 DEF Op
  <2> HIDE DEF x4
  <2>7. PICK q \in Op : q = x4
    BY <2>6
  <2>8. Shaped(q) /\ Reached(q)
    BY <1>1, <2>2, <2>6, <2>7 DEF Shaped, Reached, AtKey
  <2>9. ASSUME NEW j \in Keys, j \notin crossed \/ q.key = j PROVE Ready(q, j)
    <3>1. CASE j = k
      BY <1>5, <2>6, <2>7, <2>8, <3>1 DEF Ready
    <3>2. CASE j # k
      <4>1. Ready(op[a], j)
        BY <2>6, <2>7, <2>9, <3>2, Known
      <4> QED
        BY <2>6, <2>7, <3>2, <4>1 DEF Ready
    <3> QED
      BY <3>1, <3>2
  <2> QED
    BY <1>1, <1>2, <2>1, <2>6, <2>7, <2>8, <2>9, OpAlone
<1> QED
  BY <1>3, <1>4, <1>5 DEF ReadCandidates

LEMMA ColumnsKeep ==
  ASSUME ApartInv, NEW a \in Actors, ReadColumns(a), Marked
  PROVE  ApartInv'
<1>1. UNCHANGED <<sources, payloads, expired, obs, items, search>> /\ op[a].pc = "columns"
  BY DEF ReadColumns
<1>2. CASE Fail(a)
  BY <1>1, <1>2, FailKeeps
<1>3. CASE Goto(a, "upsert") /\ UNCHANGED unsettled
  <2>1. PICK r \in Op : /\ op' = [op EXCEPT ![a] = r]
                        /\ r.pc = "upsert" /\ r.doc = op[a].doc /\ r.src = op[a].src /\ r.todo = op[a].todo
                        /\ r.key = op[a].key /\ r.winner = op[a].winner
    BY <1>3, GotoIs DEF AtKey
  <2>2. Shaped(r)
    BY <1>1, <2>1, Mine DEF Shaped, AtKey
  <2>3. \A k \in Keys \ crossed : Ready(r, k)
    BY <1>1, <2>1, Known DEF Ready, Reached, AtKey
  <2> QED
    BY <1>1, <1>3, <2>1, <2>2, <2>3, Mine, OpAlone
<1> QED
  BY <1>2, <1>3 DEF ReadColumns

\* The text read back has a row, since every winner has.
LEMMA ReadTextKeeps ==
  ASSUME ApartInv, WinnerStands, NEW a \in Actors, ReadText(a), Marked
  PROVE  ApartInv'
<1> DEFINE k == op[a].key
           i == items[k].winner
           x1 == [op[a] EXCEPT !.pc = "unindex"]
           x2 == [x1 EXCEPT !.text = Text(i)]
<1>1. UNCHANGED <<sources, payloads, expired, obs, items, search>> /\ op[a].pc = "text"
  BY DEF ReadText
<1>2. op[a] \in Op /\ k \in op[a].todo /\ k \in Keys
  BY <1>1, Mine DEF Shaped, AtKey
<1>3. CASE i = 0
  BY <1>1, <1>3, FailKeeps DEF ReadText
<1>4. CASE i # 0
  <2>1. Row(i)
    BY <1>2, <1>4 DEF WinnerStands
  <2>2. op' = [op EXCEPT ![a] = x2] /\ UNCHANGED unsettled
    BY <1>4 DEF ReadText, ApartInv, Tables
  <2>3. Text(i) \in Texts
    BY <2>1, RowFits DEF ApartInv, Text, Texts, Obs, Candidate
  <2>4. /\ x1 \in Op /\ x1.pc = "unindex" /\ x1.key = k /\ x1.todo = op[a].todo /\ x1.doc = op[a].doc
    BY <1>2 DEF Op, AtKey
  <2> HIDE DEF x1
  <2>5. /\ x2 \in Op /\ x2.pc = "unindex" /\ x2.key = k /\ x2.todo = op[a].todo /\ x2.doc = op[a].doc /\ x2.text = Text(i)
    BY <2>3, <2>4 DEF Op
  <2> HIDE DEF x2
  <2>6. PICK q \in Op : q = x2
    BY <2>5
  <2>7. Shaped(q)
    BY <1>2, <2>5, <2>6 DEF Shaped, AtKey
  <2>8. ASSUME NEW j \in Keys, j \notin crossed PROVE Ready(q, j)
    <3>1. Ready(op[a], j)
      BY <2>8, Known
    <3>2. j = k => Wins(k, i)
      BY <1>1, <3>1 DEF Ready, Reached, AtKey
    <3> QED
      BY <2>5, <2>6, <3>1, <3>2 DEF Ready, Reached, AtKey
  <2> QED
    BY <1>1, <2>2, <2>5, <2>6, <2>7, <2>8, Mine, OpAlone
<1> QED
  BY <1>3, <1>4

\* RemoveSource has to do every key the source wins.
LEMMA OrphansKeep ==
  ASSUME ApartInv, NEW a \in Actors, NEW s \in Sources, ReadOrphans(a, s), Marked
  PROVE  ApartInv'
<1> DEFINE x1 == [Idle EXCEPT !.pc = "detach"]
           x2 == [x1 EXCEPT !.src = s]
           x3 == [x2 EXCEPT !.todo = WonBy(s)]
<1>1. /\ op' = [op EXCEPT ![a] = x3] /\ op[a] = Idle
      /\ UNCHANGED <<sources, payloads, expired, obs, items, search, unsettled>>
  BY DEF ReadOrphans
<1>2. x1 \in Op /\ x1.pc = "detach" /\ x1.doc = None
  BY IdleFits DEF Op, Idle
<1> HIDE DEF x1
<1>3. x2 \in Op /\ x2.pc = "detach" /\ x2.doc = None /\ x2.src = s
  BY <1>2 DEF Op
<1> HIDE DEF x2
<1>4. x3 \in Op /\ x3.pc = "detach" /\ x3.doc = None /\ x3.src = s /\ x3.todo = WonBy(s)
  BY <1>3 DEF Op, WonBy
<1> HIDE DEF x3
<1>5. PICK q \in Op : q = x3
  BY <1>4
<1>6. Shaped(q) /\ \A k : Ready(q, k)
  BY <1>4, <1>5 DEF Shaped, Ready, AtKey
<1>7. \A k \in Keys : k \notin op[a].todo
  BY <1>1, IdleFits
<1> QED
  BY <1>1, <1>4, <1>5, <1>6, <1>7, Mine, OpAlone

LEMMA ReadForgetKeeps ==
  ASSUME ApartInv, NEW a \in Actors, ReadForget(a), Marked
  PROVE  ApartInv'
<1>1. PICK k : k = op[a].key
  OBVIOUS
<1>2. UNCHANGED <<sources, payloads, expired, obs, items, search, unsettled>> /\ op[a].pc = "forget"
  BY DEF ReadForget
<1>3. op[a].doc = None /\ k \in op[a].todo /\ k \in Keys
  BY <1>1, <1>2, Mine DEF Shaped, AtKey
<1>4. k \notin crossed => Listed(k) /\ (items[k].winner # 0 => Mirrored(k))
  BY <1>1, <1>2, <1>3, Known DEF Ready, Reached, AtKey
<1>5. CASE items[k].winner # 0
  <2>1. NextKey(a, k)
    BY <1>1, <1>5 DEF ReadForget
  <2>2. PICK r \in Op : /\ op' = [op EXCEPT ![a] = r]
                        /\ r.pc \in {"idle", "candidates"} /\ r.todo = op[a].todo \ {k} /\ r.doc \in {None, op[a].doc}
                        /\ (r.pc = "idle" => r.todo = {})
    BY <2>1, NextKeyIs
  <2>3. Shaped(r) /\ \A j : Ready(r, j)
    BY <1>3, <2>2 DEF Shaped, Ready, AtKey
  <2> QED
    BY <1>2, <1>4, <1>5, <2>2, <2>3, Mine, OpAlone
<1>6. CASE items[k].winner = 0
  <2>1. Goto(a, "unlist")
    BY <1>1, <1>6 DEF ReadForget
  <2>2. PICK r \in Op : /\ op' = [op EXCEPT ![a] = r]
                        /\ r.pc = "unlist" /\ r.doc = op[a].doc /\ r.todo = op[a].todo /\ r.key = op[a].key
    BY <2>1, GotoIs DEF AtKey
  <2>3. Shaped(r) /\ \A j \in Keys \ crossed : Ready(r, j)
    BY <1>1, <1>3, <1>4, <1>6, <2>2 DEF Shaped, Ready, Reached, AtKey
  <2> QED
    BY <1>2, <2>2, <2>3, Mine, OpAlone
<1> QED
  BY <1>5, <1>6

\* A recorded observation unsettles its key, which the operation has to do.
LEMMA RecordKeepsAll ==
  ASSUME ApartInv, NEW a \in Actors, RecordObservation(a), Marked
  PROVE  ApartInv'
<1> DEFINE d == op[a].doc
           item == d.items[op[a].at]
           x1 == [op[a] EXCEPT !.at = op[a].at + 1]
           x2 == [x1 EXCEPT !.todo = x1.todo \cup {item.key}]
<1>1. /\ op[a].pc = "observe" /\ op[a].at <= Len(d.items)
      /\ UNCHANGED <<sources, payloads, expired, items, search>>
  BY DEF RecordObservation
<1>2. op[a] \in Op /\ d \in Docs /\ op[a].src \in Sources /\ op[a].at # 0
  BY <1>1, Mine DEF Shaped
<1>3. item.key \in Keys /\ item.cand \in Candidate
  <2>1. d.items \in Seq([key : Keys, cand : Candidate]) /\ op[a].at \in Nat
    BY <1>2, IngestAssumption DEF Op
  <2>2. op[a].at \in 1..Len(d.items)
    BY <1>1, <1>2, <2>1
  <2>3. item \in [key : Keys, cand : Candidate]
    <3>1. PICK s, n : s = d.items /\ n = op[a].at
      OBVIOUS
    <3>2. s \in Seq([key : Keys, cand : Candidate]) /\ n \in 1..Len(s)
      BY <2>1, <2>2, <3>1
    <3>3. s[n] \in [key : Keys, cand : Candidate]
      BY <3>2, ElementOfSeq
    <3> QED
      BY <3>1, <3>3
  <2> QED
    BY <2>3
<1>4. [op EXCEPT ![a].at = @ + 1, ![a].todo = @ \cup {item.key}] = [op EXCEPT ![a] = x2]
  BY DEF ApartInv, Tables
<1>5. /\ x1 \in Op /\ x1.pc = "observe" /\ x1.doc = d /\ x1.src = op[a].src /\ x1.at # 0 /\ x1.todo = op[a].todo
  <2>1. op[a].at + 1 \in Nat /\ op[a].at + 1 # 0
    BY <1>2 DEF Op
  <2> QED
    BY <1>1, <1>2, <2>1 DEF Op
<1>6. PICK key, cand : key = item.key /\ cand = item.cand
  OBVIOUS
<1> HIDE DEF x1
<1>7. /\ x2 \in Op /\ x2.pc = "observe" /\ x2.doc = d /\ x2.src = op[a].src /\ x2.at # 0
      /\ x2.todo = op[a].todo \cup {key}
  BY <1>3, <1>5, <1>6 DEF Op
<1> HIDE DEF x2
<1>8. PICK q \in Op : q = x2
  BY <1>7
<1>9. Shaped(q)
  BY <1>2, <1>7, <1>8 DEF Shaped, AtKey
<1>10. CASE Fail(a) /\ UNCHANGED obs
  BY <1>1, <1>10, FailKeeps
<1>11. CASE Seen(a, item) /\ op' = [op EXCEPT ![a] = x2] /\ UNCHANGED <<obs, unsettled>>
  <2>1. IdsOf(key) # {}
    BY <1>6, <1>11 DEF Seen, IdsOf
  <2>2. \A k \in Keys \ crossed : Ready(q, k)
    BY <1>7, <1>8, <2>1, Known DEF Ready, AtKey
  <2> QED
    BY <1>1, <1>7, <1>8, <1>9, <1>11, <2>2, Mine, OpAlone
<1>12. ASSUME NEW i \in Ids, NextId(i), op[a].src \in sources, op' = [op EXCEPT ![a] = x2], UNCHANGED unsettled,
              obs' = [obs EXCEPT ![i] = [src |-> op[a].src, key |-> item.key, cand |-> item.cand, doc |-> d]]
       PROVE  ApartInv'
  <2> DEFINE row == [src |-> op[a].src, key |-> item.key, cand |-> item.cand, doc |-> d]
  <2>1. row \in Obs /\ row.key = key /\ row # None
    BY <1>2, <1>3, <1>6, IngestAssumption DEF Obs
  <2> HIDE DEF row
  <2>2. obs' = [obs EXCEPT ![i] = row] /\ ~Row(i)
    BY <1>12 DEF NextId, row
  <2>3. obs' \in [Ids -> Obs \cup {None}] /\ obs'[i] = row /\ \A j \in Ids : j # i => obs'[j] = obs[j]
    BY <2>1, <2>2 DEF ApartInv, Tables
  <2>4. /\ \A k : IdsOf(k)' = IF k = key THEN IdsOf(k) \cup {i} ELSE IdsOf(k)
        /\ \A k : \A j \in IdsOf(k) : obs'[j] = obs[j]
    BY <2>1, <2>2, <2>3 DEF IdsOf, Row
  <2>5. Tables'
    <3>1. crossed' \subseteq Keys
      BY DEF Marked, Crossing, ApartInv, Tables
    <3> QED
      BY <1>1, <1>12, <1>7, <2>3, <3>1 DEF ApartInv, Tables
  <2>6. op'[a] = q
    BY <1>8, <1>12 DEF ApartInv, Tables
  <2>7. \A k \in Keys : k # key => Untouched(k)
    BY <1>1, <2>4 DEF Untouched
  <2>8. InHand(a) = op[a].todo /\ InHand(a)' = op[a].todo \cup {key}
    BY <1>1, <1>7, <1>8, <2>6 DEF InHand
  <2>9. ASSUME NEW k \in Keys, NEW s, k \notin InHand(a)', Own(k), k \in WonBy(s)' PROVE k \in WonBy(s)
    BY <2>7, <2>8, <2>9, KeyStays
  <2>10. ASSUME NEW k \in Keys, k \notin crossed, k \in op[a].todo \cup {key}
         PROVE  Own(k)' /\ Ready(q, k)' /\ ~Settled(k)'
    <3>1. Own(k)'
      BY <1>1, <2>4, <2>10, Known DEF Own
    <3>2. IdsOf(k)' # {}
      <4>1. k # key => IdsOf(k) # {}
        BY <1>1, <1>2, <2>10, Known, IngestAssumption DEF Ready
      <4> QED
        BY <2>4, <4>1
    <3>3. Ready(q, k)'
      BY <1>7, <1>8, <3>2 DEF Ready, AtKey
    <3>4. ~Settled(k)'
      BY <1>7, <1>8, <2>6, <2>10 DEF Settled
    <3> QED
      BY <3>1, <3>3, <3>4
  <2>11. Restarted = {}
    BY <1>1, <1>8, <1>12, RestartedBy
  <2> QED
    BY <1>8, <1>9, <1>12, <2>5, <2>7, <2>8, <2>9, <2>10, <2>11, OneStep
<1> QED
  BY <1>4, <1>10, <1>11, <1>12 DEF RecordObservation

\* The upsert writes the winner, since no observation came between.
LEMMA UpsertKeepsAll ==
  ASSUME ApartInv, NEW a \in Actors, Upsert(a), Marked
  PROVE  ApartInv'
<1>1. PICK k, w : k = op[a].key /\ w = op[a].winner
  OBVIOUS
<1>2. UNCHANGED <<sources, payloads, expired, obs, search>> /\ op[a].pc = "upsert"
  BY DEF Upsert
<1>3. op[a] \in Op /\ k \in op[a].todo /\ k \in Keys
  BY <1>1, <1>2, Mine DEF Shaped, AtKey
<1> DEFINE row == [winner |-> w, reason |-> op[a].reason]
<1>4. CASE ~Row(w)
  BY <1>1, <1>2, <1>4, FailKeeps DEF Upsert
<1>5. CASE Row(w)
  <2>1. /\ items' = IF items[k].winner = w THEN items ELSE [items EXCEPT ![k] = row]
        /\ Goto(a, "text") /\ UNCHANGED unsettled
    BY <1>1, <1>5 DEF Upsert
  <2>2. row \in Item /\ row.winner = w
    BY <1>3, <1>5 DEF Item, Op, Row
  <2> HIDE DEF row
  <2>3. items' \in [Keys -> Item] /\ items'[k].winner = w /\ \A j \in Keys : j # k => items'[j] = items[j]
    BY <1>3, <2>1, <2>2 DEF ApartInv, Tables
  <2>4. PICK r \in Op : /\ op' = [op EXCEPT ![a] = r]
                        /\ r.pc = "text" /\ r.doc = op[a].doc /\ r.todo = op[a].todo /\ r.key = k
    BY <1>1, <2>1, GotoIs DEF AtKey
  <2>5. \A j : IdsOf(j)' = IdsOf(j) /\ \A v : Wins(j, v)' = Wins(j, v)
    BY <1>2, SameRows
  <2>6. Tables' /\ Shaped(r)
    <3>1. crossed' \subseteq Keys
      BY DEF Marked, Crossing, ApartInv, Tables
    <3>2. Tables'
      BY <1>2, <2>1, <2>3, <2>4, <3>1 DEF ApartInv, Tables
    <3> QED
      BY <1>3, <2>4, <3>2 DEF Shaped, AtKey
  <2>7. ASSUME k \notin crossed PROVE Own(k)' /\ Ready(r, k)'
    <3>1. Wins(k, w) /\ Ready(op[a], k)
      BY <1>1, <1>2, <1>3, <2>7, Known DEF Ready, Reached, AtKey
    <3>2. Own(k)'
      BY <2>3, <2>5, <3>1 DEF Own, Wins
    <3>3. Ready(r, k)'
      BY <2>3, <2>4, <2>5, <3>1 DEF Ready, Reached, AtKey
    <3> QED
      BY <3>2, <3>3
  <2>8. Touches(a, r, k)
    BY <1>2, <1>3, <2>1, <2>3, <2>4 DEF Touches
  <2>9. ~Settled(k)'
    BY <1>3, <2>4 DEF Settled, ApartInv, Tables
  <2> QED
    BY <1>3, <2>6, <2>7, <2>8, <2>9, AtOneKey
<1> QED
  BY <1>4, <1>5

LEMMA DeleteKeeps ==
  ASSUME ApartInv, NEW a \in Actors, DeleteText(a), Marked
  PROVE  ApartInv'
<1>1. PICK k : k = op[a].key
  OBVIOUS
<1>2. /\ UNCHANGED <<sources, payloads, expired, obs, items, unsettled>> /\ op[a].pc = "unindex"
      /\ search' = [search EXCEPT ![k] = <<>>] /\ Goto(a, "index")
  BY <1>1 DEF DeleteText
<1>3. k \in op[a].todo /\ k \in Keys
  BY <1>1, <1>2, Mine DEF Shaped, AtKey
<1>4. search' = [j \in Keys |-> search'[j]] /\ search'[k] = <<>> /\ \A j \in Keys : j # k => search'[j] = search[j]
  BY <1>2, <1>3 DEF ApartInv, Tables
<1>5. PICK r \in Op : /\ op' = [op EXCEPT ![a] = r]
                      /\ r.pc = "index" /\ r.doc = op[a].doc /\ r.todo = op[a].todo /\ r.key = k /\ r.text = op[a].text
  BY <1>1, <1>2, GotoIs DEF AtKey
<1>6. \A j : IdsOf(j)' = IdsOf(j) /\ \A v : Wins(j, v)' = Wins(j, v)
  BY <1>2, SameRows
<1>7. Tables' /\ Shaped(r)
  <2>1. crossed' \subseteq Keys
    BY DEF Marked, Crossing, ApartInv, Tables
  <2>2. Tables'
    BY <1>2, <1>4, <1>5, <2>1 DEF ApartInv, Tables
  <2> QED
    BY <1>3, <1>5, <2>2 DEF Shaped, AtKey
<1>8. ASSUME k \notin crossed PROVE Own(k)' /\ Ready(r, k)'
  <2>1. /\ Own(k) /\ Ready(op[a], k)
        /\ Wins(k, items[k].winner) /\ op[a].text = Text(items[k].winner)
    BY <1>1, <1>2, <1>3, <1>8, Known DEF Ready, Reached, AtKey
  <2>2. Own(k)'
    BY <1>2, <1>6, <2>1 DEF Own
  <2>3. Ready(r, k)'
    BY <1>2, <1>4, <1>5, <1>6, <2>1 DEF Ready, Reached, AtKey, Text
  <2> QED
    BY <2>2, <2>3
<1>9. Touches(a, r, k)
  BY <1>2, <1>3, <1>4, <1>5 DEF Touches
<1>10. ~Settled(k)'
  BY <1>3, <1>5 DEF Settled, ApartInv, Tables
<1> QED
  BY <1>3, <1>7, <1>8, <1>9, <1>10, AtOneKey

LEMMA InsertKeeps ==
  ASSUME ApartInv, NEW a \in Actors, InsertText(a), Marked
  PROVE  ApartInv'
<1>1. PICK k, text : k = op[a].key /\ text = op[a].text
  OBVIOUS
<1>2. /\ UNCHANGED <<sources, payloads, expired, obs, items>> /\ op[a].pc = "index"
      /\ search' = [search EXCEPT ![k] = Append(search[k], text)] /\ Converged(a, k)
  BY <1>1 DEF InsertText
<1>3. op[a] \in Op /\ k \in op[a].todo /\ k \in Keys /\ op[a].todo \subseteq Keys
  BY <1>1, <1>2, Mine DEF Shaped, AtKey
<1>4. PICK longer : longer = Append(search[k], text)
  OBVIOUS
<1>5. search' = [j \in Keys |-> search'[j]] /\ search'[k] = longer /\ \A j \in Keys : j # k => search'[j] = search[j]
  <2>1. search' = [search EXCEPT ![k] = longer]
    BY <1>2, <1>4
  <2>2. search = [j \in Keys |-> search[j]]
    BY DEF ApartInv, Tables
  <2> QED
    BY <1>3, <2>1, <2>2
<1>6. \A j : IdsOf(j)' = IdsOf(j) /\ \A v : Wins(j, v)' = Wins(j, v)
  BY <1>2, SameRows
<1>7. unsettled' = unsettled \ {k} /\ unsettled' \subseteq Keys /\ crossed' \subseteq Keys
  <2>1. crossed' \subseteq Keys
    BY DEF Marked, Crossing, ApartInv, Tables
  <2> QED
    BY <1>2, <2>1, Mine DEF Converged
<1>8. ASSUME k \notin crossed PROVE Own(k)' /\ Listed(k)' /\ Mirrored(k)'
  <2>1. /\ Own(k) /\ Wins(k, items[k].winner) /\ text = Text(items[k].winner) /\ search[k] = <<>>
    BY <1>1, <1>2, <1>3, <1>8, Known DEF Ready, Reached, AtKey
  <2>2. longer = <<text>>
    <3>1. Append(<<>>, text) = <<text>>
      OBVIOUS
    <3> QED
      BY <1>4, <2>1, <3>1
  <2>3. IdsOf(k) # {} /\ items[k].winner # 0
    BY <2>1, IngestAssumption DEF Wins, IdsOf, Ids
  <2>4. Listed(k)'
    BY <1>2, <1>6, <2>1, <2>3 DEF Listed
  <2>5. Mirrored(k)'
    BY <1>2, <1>5, <2>1, <2>2, <2>3 DEF Mirrored, Text
  <2>6. Own(k)'
    BY <1>2, <1>6, <2>1 DEF Own
  <2> QED
    BY <2>4, <2>5, <2>6
<1>9. CASE op[a].doc = None
  <2>1. PICK r : r = Between(a, "forget", k, op[a].todo)
    OBVIOUS
  <2>2. op' = [op EXCEPT ![a] = r]
    BY <1>2, <1>9, <2>1 DEF Converged
  <2>3. r \in Op /\ r.pc = "forget" /\ r.doc = None /\ r.key = k /\ r.todo = op[a].todo
    BY <1>3, <1>9, <2>1, BetweenFits
  <2>4. Shaped(r)
    BY <1>3, <2>3 DEF Shaped, AtKey
  <2>5. ASSUME k \notin crossed PROVE Ready(r, k)'
    BY <1>8, <2>3, <2>5 DEF Ready, Reached, AtKey
  <2>6. Tables'
    BY <1>2, <1>5, <1>7, <2>2, <2>3 DEF ApartInv, Tables
  <2>7. Touches(a, r, k)
    BY <1>2, <1>3, <1>5, <1>7, <2>2, <2>3 DEF Touches
  <2>8. k \notin crossed => Own(k)' /\ Ready(r, k)' /\ (Settled(k)' => Listed(k)' /\ Mirrored(k)')
    BY <1>8, <2>5
  <2>9. k \in op[a].todo /\ r \in Op
    BY <1>3, <2>3
  <2> QED
    BY <2>4, <2>6, <2>7, <2>8, <2>9, AtOneKey
<1>10. CASE op[a].doc # None
  <2>1. NextKey(a, k)
    BY <1>2, <1>10 DEF Converged
  <2>2. PICK r \in Op : /\ op' = [op EXCEPT ![a] = r]
                        /\ r.pc \in {"idle", "candidates"} /\ r.todo = op[a].todo \ {k} /\ r.doc \in {None, op[a].doc}
                        /\ (r.pc = "idle" => r.todo = {})
    BY <2>1, NextKeyIs
  <2>3. Shaped(r) /\ Ready(r, k)'
    BY <2>2 DEF Shaped, Ready, AtKey
  <2>4. Tables'
    BY <1>2, <1>5, <1>7, <2>2 DEF ApartInv, Tables
  <2>5. Touches(a, r, k)
    BY <1>2, <1>5, <1>7, <2>2 DEF Touches, AtKey
  <2> QED
    BY <1>3, <1>8, <2>3, <2>4, <2>5, AtOneKey
<1> QED
  BY <1>9, <1>10

\* The keys that are detached are those the operation wrote down.
LEMMA DetachKeepsAll ==
  ASSUME ApartInv, NEW a \in Actors, Detach(a), Marked
  PROVE  ApartInv'
<1>1. PICK s : s = op[a].src
  OBVIOUS
<1>2. /\ UNCHANGED <<sources, payloads, expired, obs, search, unsettled>> /\ op[a].pc = "detach"
      /\ items' = [k \in Keys |-> IF k \in WonBy(s) THEN NoItem ELSE items[k]] /\ Goto(a, "drop")
  BY <1>1 DEF Detach
<1>3. op[a].doc = None /\ op[a].src \in Sources
  BY <1>1, <1>2, Mine DEF Shaped
<1>4. NoItem \in Item /\ NoItem.winner = 0
  BY DEF NoItem, Item, Reasons
<1>5. items' \in [Keys -> Item] /\ \A k \in Keys : items'[k] = items[k] \/ (k \in WonBy(s) /\ items'[k].winner = 0)
  BY <1>2, <1>4 DEF ApartInv, Tables
<1>6. PICK r \in Op : /\ op' = [op EXCEPT ![a] = r]
                      /\ r.pc = "drop" /\ r.doc = op[a].doc /\ r.src = op[a].src /\ r.todo = op[a].todo
  BY <1>2, GotoIs
<1>7. \A j : IdsOf(j)' = IdsOf(j)
  BY <1>2, SameRows
<1>8. Tables'
  <2>1. crossed' \subseteq Keys
    BY DEF Marked, Crossing, ApartInv, Tables
  <2> QED
    BY <1>2, <1>5, <1>6, <2>1 DEF ApartInv, Tables
<1>9. Shaped(r) /\ \A k : Ready(r, k)'
  BY <1>3, <1>6 DEF Shaped, Ready, AtKey
<1>10. \A k \in Keys : k \notin WonBy(s) => Untouched(k)
  BY <1>2, <1>5, <1>7 DEF Untouched
<1>11. \A k \in WonBy(s) : k \in InHand(a)
  BY <1>1, <1>2 DEF InHand
<1>12. ASSUME NEW k \in Keys, NEW t, k \in WonBy(t)' PROVE k \in WonBy(t)
  BY <1>2, <1>5, <1>12 DEF WonBy
<1>13. ASSUME NEW k \in Keys, k \notin crossed
       PROVE  Own(k)' /\ (Settled(k)' => Listed(k)' /\ Mirrored(k)')
  <2>1. Own(k) /\ Ready(op[a], k)
    BY <1>13, Known
  <2>2. Own(k)'
    BY <1>5, <1>7, <2>1 DEF Own
  <2>3. ASSUME Settled(k)' PROVE Listed(k)' /\ Mirrored(k)'
    <3>1. op'[a] = r
      BY <1>6 DEF ApartInv, Tables
    <3>2. k \notin unsettled /\ k \notin op[a].todo
      BY <1>2, <1>6, <2>3, <3>1 DEF Settled
    <3>3. Untouched(k)
      BY <1>1, <1>2, <1>10, <2>1, <3>2 DEF Ready
    <3>4. Listed(k) /\ Mirrored(k)
      BY <1>6, <1>13, <2>3, <3>2, OthersStay
    <3> QED
      BY <2>1, <3>3, <3>4, KeyStays
  <2> QED
    BY <2>2, <2>3
<1>14. Restarted = {}
  BY <1>6, RestartedBy
<1> QED
  BY <1>2, <1>6, <1>8, <1>9, <1>10, <1>11, <1>12, <1>13, <1>14, OneStep

\* The cascade leaves the other keys their rows.
LEMMA DropKeepsAll ==
  ASSUME ApartInv, NEW a \in Actors, Drop(a), Marked
  PROVE  ApartInv'
<1>1. PICK s : s = op[a].src
  OBVIOUS
<1>2. UNCHANGED <<payloads, expired, items, search>> /\ op[a].pc = "drop"
  BY DEF Drop
<1>3. CASE Fail(a) /\ UNCHANGED <<sources, obs>>
  BY <1>2, <1>3, FailKeeps
<1>4. CASE ~(Fail(a) /\ UNCHANGED <<sources, obs>>)
  <2>1. /\ WonBy(s) = {} /\ sources' = sources \ {s}
        /\ obs' = [i \in Ids |-> IF Row(i) /\ obs[i].src = s THEN None ELSE obs[i]]
        /\ IF op[a].todo = {} THEN Leave(a) ELSE Goto(a, "candidates")
        /\ UNCHANGED unsettled
    BY <1>1, <1>4 DEF Drop
  <2>2. op[a].doc = None
    BY <1>2, Mine DEF Shaped
  <2>3. PICK r \in Op : /\ op' = [op EXCEPT ![a] = r]
                        /\ r.pc \in {"idle", "candidates"} /\ r.doc = None /\ r.todo = op[a].todo
                        /\ (r.pc = "idle" => r.todo = {})
    <3>1. CASE op[a].todo = {}
      BY <2>1, <3>1, IdleFits DEF Leave, Idle
    <3>2. CASE op[a].todo # {}
      BY <2>1, <2>2, <3>2, GotoIs
    <3> QED
      BY <3>1, <3>2
  <2>4. \A i \in Ids : obs'[i] = IF Row(i) /\ obs[i].src = s THEN None ELSE obs[i]
    BY <2>1
  <2>5. Tables'
    <3>1. crossed' \subseteq Keys
      BY DEF Marked, Crossing, ApartInv, Tables
    <3>2. obs' \in [Ids -> Obs \cup {None}]
      BY <2>1 DEF ApartInv, Tables
    <3> QED
      BY <1>2, <2>1, <2>3, <3>1, <3>2 DEF ApartInv, Tables
  <2>6. \A k : IdsOf(k)' = {i \in IdsOf(k) : obs[i].src # s} /\ \A i \in IdsOf(k)' : obs'[i] = obs[i]
    BY <2>4 DEF IdsOf, Row
  <2>7. \A k \in Keys : items[k].winner # 0 =>
          items[k].winner \in Ids /\ obs[items[k].winner].src # s /\ obs'[items[k].winner] = obs[items[k].winner]
    <3>1. \A k \in Keys : items[k].winner # 0 => items[k].winner \in Ids
      BY DEF ApartInv, Tables, Item
    <3> QED
      BY <2>1, <2>4, <3>1 DEF WonBy
  <2>8. Shaped(r) /\ \A k : Ready(r, k)'
    BY <2>3 DEF Shaped, Ready, AtKey
  <2>9. ASSUME NEW k \in Keys PROVE k \in InHand(a) \/ Untouched(k)
    <3>1. SUFFICES ASSUME k \notin InHand(a) PROVE Untouched(k)
      OBVIOUS
    <3>2. \A i \in IdsOf(k) : obs[i].src # s
      BY <1>1, <1>2, <3>1 DEF InHand
    <3> QED
      BY <1>2, <2>6, <3>2 DEF Untouched
  <2>10. ASSUME NEW k \in Keys, NEW t, k \in WonBy(t)' PROVE k \in WonBy(t)
    BY <1>2, <2>7, <2>10 DEF WonBy
  <2>11. ASSUME NEW k \in Keys, k \notin crossed
         PROVE  Own(k)' /\ (Settled(k)' => Listed(k)' /\ Mirrored(k)')
    <3>1. Own(k)
      BY <2>11, Known
    <3>2. Own(k)'
      BY <1>2, <2>6, <2>7, <3>1 DEF Own
    <3>3. ASSUME Settled(k)' PROVE Listed(k)' /\ Mirrored(k)'
      <4>1. op'[a] = r
        BY <2>3 DEF ApartInv, Tables
      <4>2. k \notin unsettled /\ k \notin op[a].todo
        BY <2>1, <2>3, <3>3, <4>1 DEF Settled
      <4>3. Listed(k) /\ Mirrored(k)
        BY <2>3, <2>11, <3>3, <4>2, OthersStay
      <4>4. CASE items[k].winner = 0
        <5>1. IdsOf(k) = {}
          BY <4>3, <4>4, IngestAssumption DEF Listed, Wins, IdsOf, Ids
        <5> QED
          BY <1>2, <2>6, <4>3, <4>4, <5>1 DEF Listed, Mirrored
      <4>5. CASE items[k].winner # 0
        <5>1. PICK w : w = items[k].winner
          OBVIOUS
        <5>2. Wins(k, w) /\ w \in IdsOf(k)' /\ obs'[w] = obs[w]
          BY <2>6, <2>7, <3>1, <4>3, <4>5, <5>1 DEF Listed, Own
        <5>3. Wins(k, w)'
          BY <2>6, <5>2 DEF Wins
        <5>4. items'[k].winner = w /\ Text(w)' = Text(w)
          BY <1>2, <5>1, <5>2 DEF Text
        <5>5. Listed(k)'
          BY <5>2, <5>3, <5>4 DEF Listed, Wins
        <5>6. Mirrored(k)'
          BY <1>2, <4>3, <4>5, <5>1, <5>4 DEF Mirrored
        <5> QED
          BY <5>5, <5>6
      <4> QED
        BY <4>4, <4>5
    <3> QED
      BY <3>2, <3>3
  <2>12. Restarted = {}
    BY <2>3, RestartedBy
  <2> QED
    BY <2>1, <2>3, <2>5, <2>8, <2>9, <2>10, <2>11, <2>12, OneStep
<1> QED
  BY <1>3, <1>4

LEMMA ForgetKeeps ==
  ASSUME ApartInv, NEW a \in Actors, Forget(a), Marked
  PROVE  ApartInv'
<1>1. PICK k : k = op[a].key
  OBVIOUS
<1>2. /\ UNCHANGED <<sources, payloads, expired, obs, items, unsettled>> /\ op[a].pc = "unlist"
      /\ search' = [search EXCEPT ![k] = <<>>] /\ NextKey(a, k)
  BY <1>1 DEF Forget
<1>3. k \in op[a].todo /\ k \in Keys
  BY <1>1, <1>2, Mine DEF Shaped, AtKey
<1>4. search' = [j \in Keys |-> search'[j]] /\ search'[k] = <<>> /\ \A j \in Keys : j # k => search'[j] = search[j]
  BY <1>2, <1>3 DEF ApartInv, Tables
<1>5. PICK r \in Op : /\ op' = [op EXCEPT ![a] = r]
                      /\ r.pc \in {"idle", "candidates"} /\ r.todo = op[a].todo \ {k} /\ r.doc \in {None, op[a].doc}
                      /\ (r.pc = "idle" => r.todo = {})
  BY <1>2, NextKeyIs
<1>6. \A j : IdsOf(j)' = IdsOf(j) /\ \A v : Wins(j, v)' = Wins(j, v)
  BY <1>2, SameRows
<1>7. Tables'
  <2>1. crossed' \subseteq Keys
    BY DEF Marked, Crossing, ApartInv, Tables
  <2> QED
    BY <1>2, <1>4, <1>5, <2>1 DEF ApartInv, Tables
<1>8. Shaped(r) /\ Ready(r, k)'
  BY <1>5 DEF Shaped, Ready, AtKey
<1>9. ASSUME k \notin crossed PROVE Own(k)' /\ Listed(k)' /\ Mirrored(k)'
  <2>1. Own(k) /\ Listed(k) /\ items[k].winner = 0
    BY <1>1, <1>2, <1>3, <1>9, Known DEF Ready, Reached, AtKey
  <2> QED
    BY <1>2, <1>4, <1>6, <2>1 DEF Own, Listed, Mirrored
<1>10. Touches(a, r, k)
  BY <1>2, <1>4, <1>5 DEF Touches, AtKey
<1> QED
  BY <1>3, <1>7, <1>8, <1>9, <1>10, AtOneKey

LEMMA ApartInit ==
  ASSUME Init
  PROVE  ApartInv
<1>1. NoItem \in Item /\ NoItem.winner = 0
  BY DEF NoItem, Item, Reasons
<1>2. \A k : IdsOf(k) = {}
  BY DEF Init, IdsOf, Row
<1>3. Tables
  BY <1>1, IdleFits DEF Init, Tables
<1>4. \A k \in Keys : Own(k) /\ Listed(k) /\ Mirrored(k)
  BY <1>1, <1>2 DEF Init, Own, Listed, Mirrored
<1>5. \A a \in Actors : op[a] = Idle
  BY DEF Init
<1>6. Crossing = {}
  BY <1>5, IdleFits DEF Crossing, InHand
<1>7. \A k \in Keys : Sound(k)
  BY <1>4, <1>5, IdleDone DEF Sound
<1> QED
  BY <1>3, <1>5, <1>6, <1>7, IdleDone DEF ApartInv

LEMMA ApartStep ==
  ASSUME ApartInv, WinnerStands, [Next]_vars
  PROVE  ApartInv'
<1>1. sources \subseteq Sources /\ expired \subseteq payloads /\ payloads \subseteq Docs
  BY DEF ApartInv, Tables
<1>2. CASE UNCHANGED vars
  BY <1>1, <1>2, Around DEF vars
<1>3. CASE Next
  <2>1. Step /\ Marked
    BY <1>3 DEF Next, Marked
  <2>2. ASSUME NEW a \in Actors, Ingesting(a)
        PROVE  ApartInv'
    BY <2>1, <2>2, StoreKeeps, RecordKeepsAll, BeginKeeps DEF Ingesting
  <2>3. ASSUME NEW a \in Actors, Converging(a)
        PROVE  ApartInv'
    BY <2>1, <2>3, CandidatesKeep, ColumnsKeep, UpsertKeepsAll, ReadTextKeeps, DeleteKeeps, InsertKeeps DEF Converging
  <2>4. ASSUME NEW a \in Actors, Removing(a)
        PROVE  ApartInv'
    BY <2>1, <2>4, OrphansKeep, DetachKeepsAll, DropKeepsAll, ReadForgetKeeps, ForgetKeeps DEF Removing
  <2>5. ASSUME NEW a \in Actors, Abort(a)
        PROVE  ApartInv'
    BY <2>1, <2>5, FailKeeps DEF Abort
  <2>6. ASSUME NEW s \in Sources, AddSource(s)
        PROVE  ApartInv'
    BY <1>1, <2>1, <2>6, Around DEF AddSource
  <2>7. ASSUME NEW d \in Docs, Expire(d)
        PROVE  ApartInv'
    BY <1>1, <2>1, <2>7, Around DEF Expire
  <2>8. CASE PurgeExpiredPayloads
    BY <1>1, <2>1, <2>8, Around DEF PurgeExpiredPayloads
  <2> QED
    BY <2>1, <2>2, <2>3, <2>4, <2>5, <2>6, <2>7, <2>8 DEF Step
<1> QED
  BY <1>2, <1>3

\* Holds from the start and at every step of every operation, cut off or not,
\* whatever the others do in between.
LEMMA ApartAlways == Spec => []ApartInv
<1>1. Init => ApartInv
  BY ApartInit
<1>2. ApartInv /\ WinnerStands /\ [Next]_vars => ApartInv'
  BY ApartStep
<1> QED
  BY <1>1, <1>2, WinnersStand, PTL DEF Spec

\* Under every interleaving the logical_item of a settled key is what Converge
\* (internal/ingest/ingest.go) makes of all its observations: it points at the
\* best of them, and there is none without observations.  Excepted are the keys
\* two operations had in hand at once, until one has run over them alone.
THEOREM BestIsListed == Spec => []ListedIsBest
<1>1. ASSUME ApartInv PROVE ListedIsBest
  <2>1. TypeOK
    BY <1>1, RowFits DEF ApartInv, Tables, TypeOK, Item, Op, Obs
  <2>2. ASSUME NEW k \in Keys \ crossed, Settled(k)
        PROVE  items[k].winner = IF IdsOf(k) = {} THEN 0 ELSE Decide(k).winner
    BY <1>1, <2>2, Decided, OneWins DEF ApartInv, Sound, Listed
  <2> QED
    BY <2>1, <2>2 DEF ListedIsBest
<1> QED
  BY <1>1, ApartAlways, PTL

\* Under every interleaving item_search has one row for a listed key, with the
\* winner's text, and none for any other; with the same exception.
THEOREM IndexMirrors == Spec => []SearchMirrors
<1>1. ApartInv => SearchMirrors
  BY DEF ApartInv, Sound, Mirrored, SearchMirrors
<1> QED
  BY <1>1, ApartAlways, PTL

\* No late poll hides an edit and no removal takes an item from the timeline
\* that another source carries, unless two operations had its key in hand at
\* once and none has started over with it alone since.
THEOREM OnlyCrossingsLose == Spec => [](crossed = {} => EditStays /\ KeptIfCarried)
<1>1. ASSUME ApartInv, crossed = {} PROVE EditStays /\ KeptIfCarried
  <2>1. \A k \in Keys : Own(k) /\ (Settled(k) => Listed(k))
    BY <1>1 DEF ApartInv, Sound
  <2>2. EditStays
    BY <1>1, <2>1 DEF EditStays, Listed, Wins, Own
  <2>3. KeptIfCarried
    BY <2>1, IngestAssumption DEF KeptIfCarried, Listed, Wins, IdsOf, Ids
  <2> QED
    BY <2>2, <2>3
<1> QED
  BY <1>1, ApartAlways, PTL

=============================================================================
