------------------------------- MODULE Poller -------------------------------
(***************************************************************************)
(* When feeds are read: internal/poller and the scheduling columns of the  *)
(* source table (Due, RecordFetch, MarkPushed), driven by the poller's     *)
(* sweeps, by people who press "read now" or subscribe, by clouds that     *)
(* ping and by hubs that push.                                             *)
(*                                                                         *)
(* A feed is a sequence of versions; a feed and a version stand for the    *)
(* bytes and for the validator the server sends with them.  What Ingest    *)
(* does with the bytes is the subject of module Ingest; here it keeps them *)
(* or fails.                                                               *)
(* A refused request (4xx, 5xx; a 410 is like any other) has no validator  *)
(* and no body that parses.                                                *)
(*                                                                         *)
(* The unit of time is SweepInterval.  Times are relative to the present:  *)
(* due is next_poll_at minus now.                                          *)
(***************************************************************************)
EXTENDS Integers, FiniteSets

CONSTANTS
  MaxId,        \* bound: largest id of a source row
  Feeds,
  MaxVersion,   \* bound: versions of a feed
  Broken,       \* versions that do not parse
  IngestFails,  \* whether Ingest may fail
  Workers,      \* the poller's goroutines
  Handlers,     \* HTTP handlers and the command line
  None,         \* no row, no version, no validator
  Batch,        \* DefaultBatch
  MinInterval, MaxInterval,
  Patience,     \* MaxFailuresBeforeBackoff
  Cadences,     \* what cadence may find in a feed; 0: nothing
  MaxJitter,
  FetchLimit,   \* longest duration of a Fetch
  MaxLate,      \* bound: how long a source is due
  MaxFaults,    \* bound: reads that fail
  MaxCrashes,   \* bound
  MaxSubscriptions,  \* bound: how often somebody subscribes to a feed
  MaxPushes     \* bound: deliveries by a hub

ASSUME PollerAssumption ==
  /\ MaxId \in Nat \ {0} /\ MaxVersion \in Nat
  /\ Workers \cap Handlers = {}
  /\ IngestFails \in BOOLEAN
  /\ None \notin Feeds \cup Int
  /\ MinInterval \in Nat /\ MaxInterval \in Nat /\ MinInterval <= MaxInterval
  /\ Batch \in Nat /\ Patience \in Nat \ {0}
  /\ Cadences \subseteq Nat /\ MaxJitter \in Nat
  /\ FetchLimit \in Nat /\ MaxLate \in Nat
  /\ MaxFaults \in Nat /\ MaxCrashes \in Nat /\ MaxSubscriptions \in Nat /\ MaxPushes \in Nat

VARIABLES
  version,   \* the current version of each feed, at its server
  src,       \* rows of source
  stored,    \* the feed and version of every payload observed under an id
  batch,     \* what the sweep has still to hand to a worker
  sweeping,
  ticked,    \* the ticker's channel
  op,        \* what each goroutine is doing
  polled,    \* history: time since the poller's last recorded read, up to MinInterval
  faults, crashes, subscriptions, pushes

vars == <<version, src, stored, batch, sweeping, ticked, op, polled,
          faults, crashes, subscriptions, pushes>>

Ids == 1..MaxId
Versions == 0..MaxVersion
Validators == (Feeds \X Versions) \cup {None}
Actors == Workers \cup Handlers
Row(i) == src[i] # None

\* failures is failure_count; answered is history: whether the read that was
\* recorded last went well.
SourceRow ==
  [feed: Feeds, etag: Validators, failures: Nat, interval: Nat, due: Int,
   answered: BOOLEAN]

\* What Due and SourceByID return of a row.
Snapshot(i) == [id |-> i, feed |-> src[i].feed, etag |-> src[i].etag]

\* The locals of a Fetch.  pc names the next step; source is the snapshot it
\* was given; err, etag and cadence are its FetchOutcome; body is what
\* was received; failures and interval are what RecordFetch read; reported
\* says that Fetch will return an error to its caller.
NoSource == [id |-> 1, feed |-> None, etag |-> None]
Idle == [pc |-> "idle", kind |-> "none", source |-> NoSource, age |-> 0, err |-> FALSE,
         etag |-> None, cadence |-> 0, body |-> None,
         failures |-> 0, interval |-> 0, reported |-> FALSE]

Fetch(kind, source) == [Idle EXCEPT !.pc = "ask", !.kind = kind, !.source = source]

-----------------------------------------------------------------------------
(* The schedule *)

Least(a, b) == IF a < b THEN a ELSE b

\* Mutant: the back-off is not capped.
ClampUncapped(interval) == IF interval < MinInterval THEN MinInterval ELSE interval

\* Mutant: a lively feed may be read as often as it publishes.
ClampNoFloor(interval) == Least(interval, MaxInterval)

ClampInterval(interval) ==
  IF interval < MinInterval THEN MinInterval ELSE Least(interval, MaxInterval)

\* Mutant: the cadence overrides the back-off.
NextIntervalCadence(current, cadence, failures) ==
  ClampInterval(IF cadence > 0 THEN cadence \div 2
                ELSE IF failures >= Patience THEN current * 2 ELSE current)

\* Half the cadence of the feed, or twice as long as now if it keeps failing.
NextInterval(current, cadence, failures) ==
  ClampInterval(IF failures >= Patience THEN current * 2
                ELSE IF cadence > 0 THEN cadence \div 2 ELSE current)

Due(i) == Row(i) /\ src[i].due <= 0

-----------------------------------------------------------------------------
(* The sweep *)

\* Mutant: the batch is the sources with the smallest ids.
BatchById(chosen) ==
  /\ Cardinality(chosen) = Least(Batch, Cardinality({i \in Ids : Due(i)}))
  /\ \A i \in chosen, j \in Ids \ chosen : Due(j) => i <= j

\* Those that have waited longest, at most Batch of them.
IsBatch(chosen) ==
  /\ Cardinality(chosen) = Least(Batch, Cardinality({i \in Ids : Due(i)}))
  /\ \A i \in chosen, j \in Ids \ chosen : Due(j) => src[i].due <= src[j].due

\* Mutant: the ticker's goroutine sweeps although the last sweep goes on.
SweepAnyTime ==
  /\ ticked
  /\ ticked' = FALSE
  /\ \E chosen \in SUBSET {i \in Ids : Due(i)} :
       /\ IsBatch(chosen)
       /\ batch' = {[source |-> Snapshot(i), due |-> src[i].due] : i \in chosen}
       /\ sweeping' = (chosen # {})
  /\ UNCHANGED <<version, src, stored, op, polled, faults, crashes, subscriptions, pushes>>

\* Once: a sweep begins with the rows as they are now.
Sweep ==
  /\ ticked /\ ~sweeping
  /\ ticked' = FALSE
  /\ \E chosen \in SUBSET {i \in Ids : Due(i)} :
       /\ IsBatch(chosen)
       /\ batch' = {[source |-> Snapshot(i), due |-> src[i].due] : i \in chosen}
       /\ sweeping' = (chosen # {})
  /\ UNCHANGED <<version, src, stored, op, polled, faults, crashes, subscriptions, pushes>>

\* A worker takes the next source of the batch from the channel.
Take(w) ==
  /\ op[w] = Idle
  /\ \E first \in batch :
       /\ \A other \in batch : first.due <= other.due
       /\ batch' = batch \ {first}
       /\ op' = [op EXCEPT ![w] = Fetch("poll", first.source)]
  /\ UNCHANGED <<version, src, stored, sweeping, ticked, polled,
                 faults, crashes, subscriptions, pushes>>

\* Every worker has finished: the sweep is over.
EndSweep ==
  /\ sweeping /\ batch = {} /\ \A w \in Workers : op[w] = Idle
  /\ sweeping' = FALSE
  /\ UNCHANGED <<version, src, stored, batch, ticked, op, polled,
                 faults, crashes, subscriptions, pushes>>

-----------------------------------------------------------------------------
(* The other callers of Fetch and Ingest *)

\* refreshSource, "sources read", and cloudCallback: a row is read now.
Refresh(h, i) ==
  /\ op[h] = Idle /\ Row(i)
  /\ \E kind \in {"refresh", "cloud"} :
       op' = [op EXCEPT ![h] = Fetch(kind, Snapshot(i))]
  /\ UNCHANGED <<version, src, stored, batch, sweeping, ticked, polled,
                 faults, crashes, subscriptions, pushes>>

\* acceptPush: a hub delivers a version, perhaps one that is no longer current.
AcceptPush(h, i) ==
  /\ op[h] = Idle /\ Row(i) /\ pushes < MaxPushes
  /\ pushes' = pushes + 1
  /\ \E v \in 0..version[src[i].feed] :
       op' = [op EXCEPT ![h] = [Fetch("push", Snapshot(i)) EXCEPT
                                  !.pc = "store", !.body = <<src[i].feed, v>>]]
  /\ UNCHANGED <<version, src, stored, batch, sweeping, ticked, polled,
                 faults, crashes, subscriptions>>

\* SQLite gives a new row the id after the largest one in use.
NextId(i) == ~Row(i) /\ \A j \in Ids : (Row(j) => j < i) /\ (j = i - 1 => Row(j))

\* subscribe: AddSource, due at once, and readNow.
Subscribe(h, f) ==
  /\ op[h] = Idle /\ subscriptions[f] < MaxSubscriptions
  /\ \A i \in Ids : Row(i) => src[i].feed # f
  /\ \E i \in Ids :
       /\ NextId(i)
       /\ src' = [src EXCEPT ![i] =
            [feed |-> f, etag |-> None, failures |-> 0, interval |-> MinInterval, due |-> 0,
             answered |-> TRUE]]
       /\ polled' = [polled EXCEPT ![i] = MinInterval]
       /\ op' = [op EXCEPT ![h] = Fetch("refresh", [NoSource EXCEPT !.id = i, !.feed = f])]
  /\ subscriptions' = [subscriptions EXCEPT ![f] = @ + 1]
  /\ UNCHANGED <<version, stored, batch, sweeping, ticked, faults, crashes, pushes>>

\* unsubscribe: the row goes, and its observations with it.
Unsubscribe(i) ==
  /\ Row(i)
  /\ src' = [src EXCEPT ![i] = None]
  /\ stored' = [stored EXCEPT ![i] = {}]
  /\ UNCHANGED <<version, batch, sweeping, ticked, op, polled,
                 faults, crashes, subscriptions, pushes>>

-----------------------------------------------------------------------------
(* Fetch *)

\* What the server has now.
Current(f) == <<f, version[f]>>

\* Mutant: the validator is written as soon as the answer is there.
AskAndRemember(a) ==
  /\ op[a].pc = "ask"
  /\ LET current == Current(op[a].source.feed)
         i == op[a].source.id
     IN  /\ op' = [op EXCEPT ![a].etag = current,
                             ![a].body = IF op[a].source.etag = current THEN None ELSE current,
                             ![a].pc = IF op[a].source.etag = current THEN "count" ELSE "store"]
         /\ src' = IF Row(i) THEN [src EXCEPT ![i].etag = current] ELSE src
  /\ UNCHANGED <<version, stored, batch, sweeping, ticked, polled,
                 faults, crashes, subscriptions, pushes>>

\* The request, made with the validator of the snapshot.
Ask(a) ==
  /\ op[a].pc = "ask"
  /\ LET current == Current(op[a].source.feed)
     IN  \/ /\ op[a].source.etag = current                \* 304
            /\ \E tag \in {current, None} :
                 op' = [op EXCEPT ![a] = [op[a] EXCEPT !.etag = tag, !.pc = "count"]]
            /\ UNCHANGED faults
         \/ /\ op[a].source.etag # current                \* 200
            /\ \E tag \in {current, None} :
                 op' = [op EXCEPT ![a] = [op[a] EXCEPT !.etag = tag, !.body = current,
                                                       !.pc = "store"]]
            /\ UNCHANGED faults
         \/ /\ faults < MaxFaults                         \* no answer, or a refusal
            /\ op' = [op EXCEPT ![a] = [op[a] EXCEPT !.err = TRUE, !.pc = "count"]]
            /\ faults' = faults + 1
  /\ UNCHANGED <<version, src, stored, batch, sweeping, ticked, polled,
                 crashes, subscriptions, pushes>>

\* Parse and Ingest.  Bytes that do not parse are not kept.  After a failure
\* acceptPush returns, while Fetch goes on to record the outcome.
Store(a) ==
  /\ op[a].pc = "store"
  /\ LET push == op[a].kind = "push"
         i == op[a].source.id
     IN  \/ /\ op[a].body[2] \in Broken /\ faults < MaxFaults
            /\ op' = [op EXCEPT ![a] = IF push THEN Idle
                                       ELSE [op[a] EXCEPT !.err = TRUE, !.pc = "count"]]
            /\ faults' = faults + 1
            /\ UNCHANGED stored
         \/ /\ op[a].body[2] \notin Broken /\ Row(i)
            /\ stored' = [stored EXCEPT ![i] = @ \cup {op[a].body}]
            /\ \E cadence \in Cadences :
                 op' = [op EXCEPT ![a] = [op[a] EXCEPT !.cadence = cadence,
                                            !.pc = IF push THEN "mark" ELSE "count"]]
            /\ UNCHANGED faults
         \/ /\ op[a].body[2] \notin Broken
            /\ \/ ~Row(i) /\ UNCHANGED faults
               \/ IngestFails /\ faults < MaxFaults /\ faults' = faults + 1
            /\ \E cadence \in Cadences :
                 op' = [op EXCEPT ![a] = IF push THEN Idle
                                         ELSE [op[a] EXCEPT !.cadence = cadence, !.err = TRUE,
                                                 !.reported = TRUE, !.pc = "count"]]
            /\ UNCHANGED stored
  /\ UNCHANGED <<version, src, batch, sweeping, ticked, polled,
                 crashes, subscriptions, pushes>>

\* RecordFetch reads the row; a row that has gone ends the Fetch.
Count(a) ==
  /\ op[a].pc = "count"
  /\ LET i == op[a].source.id IN
     op' = [op EXCEPT ![a] =
              IF ~Row(i) THEN Idle
              ELSE [op[a] EXCEPT !.failures = IF op[a].err THEN src[i].failures + 1 ELSE 0,
                                 !.interval = src[i].interval, !.pc = "write"]]
  /\ UNCHANGED <<version, src, stored, batch, sweeping, ticked, polled,
                 faults, crashes, subscriptions, pushes>>

\* RecordFetch writes it, counting from the time the Fetch began; a Fetch that
\* returns no error to cloudCallback counts as a push.
Write(a) ==
  /\ op[a].pc = "write"
  /\ LET i == op[a].source.id
         interval == NextInterval(op[a].interval, op[a].cadence, op[a].failures)
     IN  /\ \E jitter \in 0..MaxJitter :
              src' = IF ~Row(i) THEN src ELSE
                [src EXCEPT ![i] =
                   [feed |-> src[i].feed, etag |-> op[a].etag, failures |-> op[a].failures,
                    interval |-> interval, due |-> jitter + interval - op[a].age,
                    answered |-> ~op[a].err]]
         /\ polled' = IF op[a].kind = "poll" /\ Row(i)
                      THEN [polled EXCEPT ![i] = Least(op[a].age, MinInterval)] ELSE polled
  /\ op' = [op EXCEPT ![a] = IF op[a].kind = "cloud" /\ ~op[a].reported
                             THEN [op[a] EXCEPT !.pc = "mark"] ELSE Idle]
  /\ UNCHANGED <<version, stored, batch, sweeping, ticked,
                 faults, crashes, subscriptions, pushes>>

MarkPushed(a) ==
  /\ op[a].pc = "mark"
  /\ LET i == op[a].source.id IN
     src' = IF ~Row(i) THEN src
            ELSE [src EXCEPT ![i] = [src[i] EXCEPT
                    !.failures = 0,
                    !.answered = IF op[a].kind = "push" THEN TRUE ELSE src[i].answered]]
  /\ op' = [op EXCEPT ![a] = Idle]
  /\ UNCHANGED <<version, stored, batch, sweeping, ticked, polled,
                 faults, crashes, subscriptions, pushes>>

-----------------------------------------------------------------------------
(* The world *)

Publish(f) ==
  /\ version[f] < MaxVersion
  /\ version' = [version EXCEPT ![f] = @ + 1]
  /\ UNCHANGED <<src, stored, batch, sweeping, ticked, op, polled,
                 faults, crashes, subscriptions, pushes>>

\* The process stops and starts again: only the rows remain.
Crash ==
  /\ crashes < MaxCrashes
  /\ crashes' = crashes + 1
  /\ op' = [a \in Actors |-> Idle]
  /\ batch' = {} /\ sweeping' = FALSE /\ ticked' = TRUE
  /\ UNCHANGED <<version, src, stored, polled, faults, subscriptions, pushes>>

\* A minute passes.  Nothing that can run waits for that long: the poller
\* sweeps when its ticker fires, free workers take what is in the batch, and a
\* Fetch is over within FetchLimit.
Tick ==
  /\ IF sweeping THEN \E w \in Workers : op[w] # Idle ELSE ~ticked
  /\ batch # {} => \A w \in Workers : op[w] # Idle
  /\ \A a \in Actors : op[a] # Idle => op[a].age < FetchLimit
  /\ \A i \in Ids : Row(i) => src[i].due > -MaxLate
  /\ ticked' = TRUE
  /\ src' = [i \in Ids |-> IF Row(i) THEN [src[i] EXCEPT !.due = src[i].due - 1] ELSE None]
  /\ op' = [a \in Actors |-> IF op[a] = Idle THEN Idle
                             ELSE [op[a] EXCEPT !.age = op[a].age + 1]]
  /\ polled' = [i \in Ids |-> Least(polled[i] + 1, MinInterval)]
  /\ UNCHANGED <<version, stored, batch, sweeping, faults, crashes, subscriptions, pushes>>

-----------------------------------------------------------------------------
Init ==
  /\ version = [f \in Feeds |-> 0]
  /\ src = [i \in Ids |-> None]
  /\ stored = [i \in Ids |-> {}]
  /\ batch = {} /\ sweeping = FALSE /\ ticked = TRUE
  /\ op = [a \in Actors |-> Idle]
  /\ polled = [i \in Ids |-> MinInterval]
  /\ faults = 0 /\ crashes = 0 /\ pushes = 0
  /\ subscriptions = [f \in Feeds |-> 0]

Step(a) == Ask(a) \/ Store(a) \/ Count(a) \/ Write(a) \/ MarkPushed(a)

Next ==
  \/ Sweep \/ EndSweep \/ Tick \/ Crash
  \/ \E w \in Workers : Take(w)
  \/ \E a \in Actors : Step(a)
  \/ \E h \in Handlers, i \in Ids : Refresh(h, i) \/ AcceptPush(h, i)
  \/ \E h \in Handlers, f \in Feeds : Subscribe(h, f)
  \/ \E i \in Ids : Unsubscribe(i)
  \/ \E f \in Feeds : Publish(f)

Spec == Init /\ [][Next]_vars

\* The poller's loop never ends, a Fetch comes to its end, and time goes on: no
\* number of requests takes place within one minute without end.
FairSpec ==
  /\ Spec
  /\ WF_vars(Sweep) /\ WF_vars(EndSweep) /\ SF_vars(Tick)
  /\ \A w \in Workers : WF_vars(Take(w))
  /\ \A a \in Actors : WF_vars(Step(a))

-----------------------------------------------------------------------------
(* Properties *)

\* Every column keeps its type, and the interval stays within its bounds
\* through cadence, back-off and concurrent reads.
TypeOK ==
  /\ \A i \in Ids : Row(i) => src[i] \in SourceRow /\ src[i].interval \in MinInterval..MaxInterval
  /\ \A b \in batch : b.source.id \in Ids
  /\ \A a \in Actors : op[a].source.id \in Ids
  /\ polled \in [Ids -> 0..MinInterval]

\* The poller never reads a source twice at the same time, although sweeps
\* may take longer than the ticker's interval.
OneReader ==
  \A v, w \in Workers :
    v # w /\ op[v] # Idle /\ op[w] # Idle => op[v].source.id # op[w].source.id

\* The poller comes back to a source no sooner than MinInterval after its own
\* last read, except for the time a read by somebody else may have taken:
\* that one began earlier, and its RecordFetch may overwrite the poller's.
Polite ==
  \A w \in Workers : op[w].pc = "ask" => polled[op[w].source.id] >= MinInterval - FetchLimit

\* A source that keeps failing is read less often, whatever cadence its feed
\* had and however many reads overlap: RecordFetch loses updates, but always
\* writes failures and interval that belong together.
BacksOff ==
  \A i \in Ids : Row(i) /\ src[i].failures >= Patience =>
    src[i].interval >= Least(2 * MinInterval, MaxInterval)

\* A source that is due is read, however many others are due: no starvation
\* by the limit of a batch.
EventuallyPolled ==
  \A i \in Ids : Row(i) /\ src[i].due <= 0 ~> ~Row(i) \/ src[i].due > 0

\* A version that stays is eventually read and kept, in spite of validators,
\* lost requests, crashes and overlapping reads (as long as every body parses
\* and Ingest does not fail).
CatchesUp ==
  \A i \in Ids, f \in Feeds, v \in Versions :
    Row(i) /\ src[i].feed = f /\ version[f] = v
      ~> ~Row(i) \/ src[i].feed # f \/ version[f] # v \/ <<f, v>> \in stored[i]

\* If no source is listed as failing, every source answered the last time it
\* was read.
FailureShows == \A i \in Ids : Row(i) /\ src[i].failures = 0 => src[i].answered

=============================================================================
