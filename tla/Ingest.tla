------------------------------- MODULE Ingest -------------------------------
(***************************************************************************)
(* internal/ingest: the bytes of a feed become a raw payload, observations *)
(* (one per source, item and content) and, per item key, a logical item    *)
(* that points at the winning observation, with a row in the search index. *)
(* Removing a source takes its observations along.                         *)
(*                                                                         *)
(* Nothing here runs in a transaction.  The poller's workers, the push     *)
(* endpoints, publishing, the ActivityPub inbox and the subscription page  *)
(* call these functions concurrently, each from a goroutine of its own, an *)
(* Actor here.  Every SQL statement is one atomic action; between two      *)
(* statements an actor keeps in op[a] what the code keeps in locals.       *)
(*                                                                         *)
(* A document stands for the bytes of one feed and the items parsed from   *)
(* it.  DescribeFeed and the columns copied from the winner are left out.  *)
(***************************************************************************)
EXTENDS Convergence, FiniteSets

CONSTANTS
  Actors,
  Sources,    \* subscriptions: neither local feeds nor federated actors
  Keys,       \* item keys: the guid, or else the link
  Docs,       \* [src |-> the source, items |-> a sequence of [key, cand]]
  None,       \* nothing: an idle actor's document, an id that is no row
  MaxObs,     \* bound: largest observation id
  MaxReadds,  \* bound: how often a removed source is added again
  MaxAborts   \* bound: operations cut off by a crash or an error

ASSUME IngestAssumption ==
  /\ \A d \in Docs : d.src \in Sources /\ d.items \in Seq([key : Keys, cand : Candidate])
  /\ None \notin Docs
  /\ None \notin [src : Sources, key : Keys, cand : Candidate, doc : Docs]
  /\ MaxObs \in Nat /\ MaxReadds \in Nat /\ MaxAborts \in Nat

VARIABLES
  sources,   \* rows of source
  payloads,  \* rows of raw_payload, by document
  expired,   \* those whose keep_until has passed
  obs,       \* rows of observation, by id
  items,     \* rows of logical_item: the winner's id (0: no row) and the reason
  search,    \* rows of item_search: a sequence, since nothing makes them unique
  op,        \* what each actor is in the middle of
  unsettled, \* history: keys an operation left behind when it was cut off
  crossed,   \* history: keys that two operations had in hand at once
  readds, aborts

vars == <<sources, payloads, expired, obs, items, search, op, unsettled, crossed, readds, aborts>>

Ids == 1..MaxObs
Row(i) == i \in Ids /\ obs[i] # None
NoItem == [winner |-> 0, reason |-> ""]

\* pc names the statement the actor executes next.  todo: the keys it touched
\* and has still to converge; key, winner, reason, text: locals of Converge
\* and index.
Idle == [pc |-> "idle", doc |-> None, src |-> None, at |-> 0, todo |-> {},
         key |-> None, winner |-> 0, reason |-> "", text |-> None]

IdsOf(k) == {i \in Ids : Row(i) /\ obs[i].key = k}

\* The rows of a key in order of id, as Converge selects them.
Ordered(ids) ==
  CHOOSE s \in [1..Cardinality(ids) -> ids] :
    \A m, n \in 1..Cardinality(ids) : m < n => s[m] < s[n]

Decide(k) ==
  LET rows == Ordered(IdsOf(k))
      resolved == Resolve([n \in DOMAIN rows |-> obs[rows[n]].cand])
  IN  [winner |-> rows[resolved.at], reason |-> resolved.reason]

\* What the search index holds of an observation.
Text(i) == [key |-> obs[i].key, hash |-> obs[i].cand.hash]

\* SQLite gives a new row the id after the largest one in use.
NextId(i) == ~Row(i) /\ \A j \in Ids : (Row(j) => j < i) /\ (j = i - 1 => Row(j))

-----------------------------------------------------------------------------
\* An operation that returns, with an error or without.
Leave(a) == op' = [op EXCEPT ![a] = Idle]

\* An error cuts the operation off: what it touched stays as it is.
Fail(a) == Leave(a) /\ unsettled' = unsettled \cup op[a].todo

Goto(a, pc) == op' = [op EXCEPT ![a].pc = pc]

\* Between two keys an operation keeps only what it was called with and todo.
Between(a, pc, key, todo) ==
  [Idle EXCEPT !.pc = pc, !.doc = op[a].doc, !.src = op[a].src, !.at = op[a].at,
               !.key = key, !.todo = todo]

\* On to the next key, or the end of the operation.
NextKey(a, k) ==
  op' = [op EXCEPT ![a] = IF op[a].todo = {k} THEN Idle
                          ELSE Between(a, "candidates", None, op[a].todo \ {k})]

\* Converge returns.  RemoveSource goes on to forget the key.
Converged(a, k) ==
  /\ unsettled' = unsettled \ {k}
  /\ IF op[a].doc = None
     THEN op' = [op EXCEPT ![a] = Between(a, "forget", k, op[a].todo)]
     ELSE NextKey(a, k)

-----------------------------------------------------------------------------
(* Ingest and IngestItem *)

\* AddSource: a source that is there already is returned as it is.
AddSource(s) ==
  /\ s \notin sources /\ readds < MaxReadds
  /\ sources' = sources \cup {s}
  /\ readds' = readds + 1
  /\ UNCHANGED <<payloads, expired, obs, items, search, op, unsettled, aborts>>

\* storePayload.  Bytes seen before keep their row and its keep_until.
StorePayload(a, d) ==
  /\ op[a] = Idle
  /\ d.src \in sources
  /\ payloads' = payloads \cup {d}
  /\ op' = [op EXCEPT ![a] = [Idle EXCEPT !.pc = "observe", !.doc = d,
                                          !.src = d.src, !.at = 1]]
  /\ UNCHANGED <<sources, expired, obs, items, search, unsettled, readds, aborts>>

\* The unique index observation_once: same source, same item, same content.
Seen(a, item) ==
  \E i \in Ids : Row(i) /\ obs[i].src = op[a].src /\ obs[i].key = item.key
                        /\ obs[i].cand.hash = item.cand.hash

\* recordObservation for the next item of the document.  Its foreign keys ask
\* for the source and the payload.
RecordObservation(a) ==
  /\ op[a].pc = "observe" /\ op[a].at <= Len(op[a].doc.items)
  /\ LET item == op[a].doc.items[op[a].at]
         next == [op EXCEPT ![a].at = @ + 1, ![a].todo = @ \cup {item.key}]
     IN  \/ /\ Seen(a, item)
            /\ op' = next
            /\ UNCHANGED <<obs, unsettled>>
         \/ /\ ~Seen(a, item)
            /\ op[a].src \in sources /\ op[a].doc \in payloads
            /\ \E i \in Ids :
                 /\ NextId(i)
                 /\ obs' = [obs EXCEPT ![i] = [src |-> op[a].src, key |-> item.key,
                                               cand |-> item.cand, doc |-> op[a].doc]]
            /\ op' = next
            /\ UNCHANGED unsettled
         \/ /\ ~Seen(a, item)
            /\ op[a].src \notin sources \/ op[a].doc \notin payloads
            /\ Fail(a)
            /\ UNCHANGED obs
  /\ UNCHANGED <<sources, payloads, expired, items, search, readds, aborts>>

\* Every item is recorded; the touched keys are converged in any order.
BeginConverging(a) ==
  /\ op[a].pc = "observe" /\ op[a].at > Len(op[a].doc.items)
  /\ IF op[a].todo = {} THEN Leave(a) ELSE Goto(a, "candidates")
  /\ UNCHANGED <<sources, payloads, expired, obs, items, search, unsettled, readds, aborts>>

-----------------------------------------------------------------------------
(* Converge and index *)

\* The first select, and Resolve on what it returned; if that is nothing,
\* Converge returns.
ReadCandidates(a, k) ==
  /\ op[a].pc = "candidates" /\ k \in op[a].todo
  /\ \/ IdsOf(k) = {} /\ Converged(a, k)
     \/ /\ IdsOf(k) # {}
        /\ op' = [op EXCEPT ![a].key = k, ![a].pc = "columns",
                            ![a].winner = Decide(k).winner, ![a].reason = Decide(k).reason]
        /\ UNCHANGED unsettled
  /\ UNCHANGED <<sources, payloads, expired, obs, items, search, readds, aborts>>

\* The second select, of the winner's own columns: an error if it has gone.
ReadColumns(a) ==
  /\ op[a].pc = "columns"
  /\ IF Row(op[a].winner) THEN Goto(a, "upsert") /\ UNCHANGED unsettled ELSE Fail(a)
  /\ UNCHANGED <<sources, payloads, expired, obs, items, search, readds, aborts>>

\* Mutant: the first winner stays, as with "on conflict do nothing".
UpsertOnce(a) ==
  /\ op[a].pc = "upsert" /\ Row(op[a].winner)
  /\ items' = IF items[op[a].key].winner # 0 THEN items
              ELSE [items EXCEPT ![op[a].key] =
                      [winner |-> op[a].winner, reason |-> op[a].reason]]
  /\ Goto(a, "text")
  /\ UNCHANGED <<sources, payloads, expired, obs, search, unsettled, readds, aborts>>

\* Mutant: foreign keys are not enforced.
UpsertUnchecked(a) ==
  /\ op[a].pc = "upsert"
  /\ items' = [items EXCEPT ![op[a].key] =
                 [winner |-> op[a].winner, reason |-> op[a].reason]]
  /\ Goto(a, "text")
  /\ UNCHANGED <<sources, payloads, expired, obs, search, unsettled, readds, aborts>>

\* The upsert.  It writes what was resolved from an earlier read, and only if
\* the winner is another one than the row has.
Upsert(a) ==
  /\ op[a].pc = "upsert"
  /\ \/ /\ Row(op[a].winner)
        /\ items' = IF items[op[a].key].winner = op[a].winner THEN items
                    ELSE [items EXCEPT ![op[a].key] =
                            [winner |-> op[a].winner, reason |-> op[a].reason]]
        /\ Goto(a, "text")
        /\ UNCHANGED unsettled
     \/ /\ ~Row(op[a].winner)
        /\ Fail(a)
        /\ UNCHANGED items
  /\ UNCHANGED <<sources, payloads, expired, obs, search, readds, aborts>>

\* index reads the row back, whoever wrote it.
ReadText(a) ==
  /\ op[a].pc = "text"
  /\ LET i == items[op[a].key].winner IN
     IF i # 0
     THEN /\ op' = [op EXCEPT ![a].pc = "unindex", ![a].text = Text(i)]
          /\ UNCHANGED unsettled
     ELSE Fail(a)
  /\ UNCHANGED <<sources, payloads, expired, obs, items, search, readds, aborts>>

\* Mutant: the old row of the index is left in place.
DeleteNoText(a) ==
  /\ op[a].pc = "unindex"
  /\ Goto(a, "index")
  /\ UNCHANGED <<sources, payloads, expired, obs, items, search, unsettled, readds, aborts>>

DeleteText(a) ==
  /\ op[a].pc = "unindex"
  /\ search' = [search EXCEPT ![op[a].key] = <<>>]
  /\ Goto(a, "index")
  /\ UNCHANGED <<sources, payloads, expired, obs, items, unsettled, readds, aborts>>

InsertText(a) ==
  /\ op[a].pc = "index"
  /\ search' = [search EXCEPT ![op[a].key] = Append(@, op[a].text)]
  /\ Converged(a, op[a].key)
  /\ UNCHANGED <<sources, payloads, expired, obs, items, readds, aborts>>

-----------------------------------------------------------------------------
(* RemoveSource *)

WonBy(s) == {k \in Keys : items[k].winner # 0 /\ obs[items[k].winner].src = s}

\* itemsWinningOn: the keys that lose their winner, as of now.
ReadOrphans(a, s) ==
  /\ op[a] = Idle
  /\ s \in sources
  /\ op' = [op EXCEPT ![a] = [Idle EXCEPT !.pc = "detach", !.src = s, !.todo = WonBy(s)]]
  /\ UNCHANGED <<sources, payloads, expired, obs, items, search, unsettled, readds, aborts>>

Detach(a) ==
  /\ op[a].pc = "detach"
  /\ items' = [k \in Keys |-> IF k \in WonBy(op[a].src) THEN NoItem ELSE items[k]]
  /\ Goto(a, "drop")
  /\ UNCHANGED <<sources, payloads, expired, obs, search, unsettled, readds, aborts>>

\* Deleting the source cascades to its observations, which the foreign key of
\* logical_item refuses as long as one of them is a winner.
Drop(a) ==
  /\ op[a].pc = "drop"
  /\ \/ /\ WonBy(op[a].src) = {}
        /\ sources' = sources \ {op[a].src}
        /\ obs' = [i \in Ids |-> IF Row(i) /\ obs[i].src = op[a].src THEN None ELSE obs[i]]
        /\ IF op[a].todo = {} THEN Leave(a) ELSE Goto(a, "candidates")
        /\ UNCHANGED unsettled
     \/ /\ WonBy(op[a].src) # {}
        /\ Fail(a)
        /\ UNCHANGED <<sources, obs>>
  /\ UNCHANGED <<payloads, expired, items, search, readds, aborts>>

\* forget: a key nobody carries any more leaves the index too.
ReadForget(a) ==
  /\ op[a].pc = "forget"
  /\ IF items[op[a].key].winner # 0 THEN NextKey(a, op[a].key) ELSE Goto(a, "unlist")
  /\ UNCHANGED <<sources, payloads, expired, obs, items, search, unsettled, readds, aborts>>

Forget(a) ==
  /\ op[a].pc = "unlist"
  /\ search' = [search EXCEPT ![op[a].key] = <<>>]
  /\ NextKey(a, op[a].key)
  /\ UNCHANGED <<sources, payloads, expired, obs, items, unsettled, readds, aborts>>

-----------------------------------------------------------------------------
(* Upkeep and failure *)

\* Thirty days go by for a payload.
Expire(d) ==
  /\ d \in payloads \ expired
  /\ expired' = expired \cup {d}
  /\ UNCHANGED <<sources, payloads, obs, items, search, op, unsettled, readds, aborts>>

\* Mutant: a payload is purged although observations point at it.
PurgeableAll == expired

Purgeable == {d \in expired : \A i \in Ids : Row(i) => obs[i].doc # d}

PurgeExpiredPayloads ==
  /\ Purgeable # {}
  /\ payloads' = payloads \ Purgeable
  /\ expired' = expired \ Purgeable
  /\ UNCHANGED <<sources, obs, items, search, op, unsettled, readds, aborts>>

\* The process dies, the request is cancelled or a statement fails.
Abort(a) ==
  /\ op[a] # Idle /\ aborts < MaxAborts
  /\ aborts' = aborts + 1
  /\ Fail(a)
  /\ UNCHANGED <<sources, payloads, expired, obs, items, search, readds>>

-----------------------------------------------------------------------------
Init ==
  /\ sources = Sources
  /\ payloads = {} /\ expired = {}
  /\ obs = [i \in Ids |-> None]
  /\ items = [k \in Keys |-> NoItem]
  /\ search = [k \in Keys |-> <<>>]
  /\ op = [a \in Actors |-> Idle]
  /\ unsettled = {} /\ crossed = {}
  /\ readds = 0 /\ aborts = 0

Ingesting(a) ==
  \/ \E d \in Docs : StorePayload(a, d)
  \/ RecordObservation(a)
  \/ BeginConverging(a)

Converging(a) ==
  \/ \E k \in Keys : ReadCandidates(a, k)
  \/ ReadColumns(a)
  \/ Upsert(a)
  \/ ReadText(a)
  \/ DeleteText(a)
  \/ InsertText(a)

Removing(a) ==
  \/ \E s \in Sources : ReadOrphans(a, s)
  \/ Detach(a)
  \/ Drop(a)
  \/ ReadForget(a)
  \/ Forget(a)

Step ==
  \/ \E a \in Actors : Ingesting(a) \/ Converging(a) \/ Removing(a) \/ Abort(a)
  \/ \E s \in Sources : AddSource(s)
  \/ \E d \in Docs : Expire(d)
  \/ PurgeExpiredPayloads

\* What an operation has in hand: the keys it has still to converge and, while
\* it removes a source, those that show or carry a reading of it.
InHand(a) ==
  op[a].todo \cup
  IF op[a].pc \in {"detach", "drop"}
  THEN WonBy(op[a].src) \cup {k \in Keys : \E i \in IdsOf(k) : obs[i].src = op[a].src}
  ELSE {}

Crossing == {k \in Keys : \E a, b \in Actors : a # b /\ k \in InHand(a) \cap InHand(b)}

\* The keys an operation begins to converge in this step, from all that is
\* recorded of them; not those whose row shows a reading of another key.
Restarted ==
  {k \in Keys :
     /\ items[k].winner # 0 => items[k].winner \in IdsOf(k)
     /\ \E a \in Actors : op[a].pc = "candidates" /\ op'[a].pc = "columns" /\ op'[a].key = k}

\* The history: a crossed key is so until an operation that has it alone in
\* hand starts over with it.
Next == Step /\ crossed' = (crossed \ Restarted) \cup Crossing'

Spec == Init /\ [][Next]_vars

-----------------------------------------------------------------------------
(* Properties *)

\* Every table and every local keeps its type: what is still to do are keys.
TypeOK ==
  /\ sources \subseteq Sources
  /\ expired \subseteq payloads /\ payloads \subseteq Docs
  /\ \A i \in Ids : Row(i) =>
       obs[i] \in [src: Sources, key: Keys, cand: Candidate, doc: Docs]
  /\ \A k \in Keys : items[k].winner \in Ids \cup {0}
  /\ \A a \in Actors : op[a].todo \subseteq Keys /\ op[a].key \in Keys \cup {None}
  /\ unsettled \subseteq Keys /\ crossed \subseteq Keys

\* No operation has this key before it, and none that was cut off left it.
Settled(k) == k \notin unsettled /\ \A a \in Actors : k \notin op[a].todo

\* The row of a settled key is what Resolve makes of the observations that are
\* there: no winner without observations, and the best one otherwise.  Holds
\* however operations interleave, except for a key that two of them had in hand
\* at once, and for that again once the next one has run over it alone.
ListedIsBest ==
  /\ TypeOK
  /\ \A k \in Keys \ crossed : Settled(k) =>
       items[k].winner = IF IdsOf(k) = {} THEN 0 ELSE Decide(k).winner

\* The index has one row for a listed key, the winner's text, and none for
\* any other; under the same conditions.
SearchMirrors ==
  \A k \in Keys \ crossed : Settled(k) =>
    search[k] = IF items[k].winner = 0 THEN <<>> ELSE <<Text(items[k].winner)>>

\* Whatever runs at the same time, a listed item points at an observation that
\* exists, of a source that is still followed.
WinnerStands ==
  \A k \in Keys : items[k].winner # 0 =>
    Row(items[k].winner) /\ obs[items[k].winner].src \in sources

\* The bytes an observation was parsed from outlast every purge, also one that
\* comes between storing the payload and recording the observation.
EvidenceKept == \A i \in Ids : Row(i) => obs[i].doc \in payloads

\* A late poll of the old version does not overwrite an edit: no observation
\* of a settled key beats the one that is shown.
EditStays ==
  \A k \in Keys : Settled(k) /\ items[k].winner # 0 =>
    \A i \in IdsOf(k) : ~Beats(obs[i].cand, obs[items[k].winner].cand)

\* Removing a source keeps what another source still carries: once nothing
\* runs any more, a key with observations is listed.
KeptIfCarried ==
  (\A a \in Actors : op[a] = Idle) =>
    \A k \in Keys : Settled(k) /\ IdsOf(k) # {} => items[k].winner # 0

=============================================================================
