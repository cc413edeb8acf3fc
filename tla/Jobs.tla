-------------------------------- MODULE Jobs --------------------------------
(***************************************************************************)
(* The durable job queue of internal/jobs: one SQLite table whose rows are *)
(* leased to workers.  Every operation of Queue is one SQL statement on a  *)
(* pool of exactly one write connection, so every operation is one atomic  *)
(* action; what is not atomic is the run of a job, which happens between   *)
(* Claim and Done or Fail, on the worker's private copy of the row.        *)
(*                                                                         *)
(* Times are whole seconds of one wall clock, as the table stores them.    *)
(* Kind and payload are opaque here: every kind a caller enqueues is one   *)
(* the worker claims, and no caller sets Spec.RunAfter or MaxAttempts.     *)
(***************************************************************************)
EXTENDS Integers, FiniteSets

CONSTANTS
  MaxJobs,       \* bound: rows the table can hold at one time
  Workers,       \* whoever calls Claim, Done and Fail
  Keys,          \* idempotency keys
  NoKey,         \* the NULL idempotency key
  MaxAttempts,   \* DefaultMaxAttempts
  Lease,         \* DefaultLease
  HandlerLimit,  \* longest run of a handler: its HTTP requests time out
  BaseBackoff,   \* the first retry delay
  MaxBackoff,    \* the cap of the retry delay
  PurgeAge,      \* finishedJobsAge, the age at which done rows are deleted
  MaxTime,       \* bound: the clock stops here
  LastArrival,   \* bound: nothing is enqueued or retried after this time
  MaxAbandons,   \* bound: runs lost to a crash, a shutdown, a failed write
  MaxRetries     \* bound: dead letters the operator revives

ASSUME JobsAssumption ==
  /\ MaxJobs \in Nat \ {0}
  /\ NoKey \notin Keys
  /\ MaxAttempts \in Nat \ {0}
  /\ Lease \in Nat
  /\ HandlerLimit \in Nat
  /\ BaseBackoff \in Nat \ {0}
  /\ MaxBackoff \in Nat \ {0}
  /\ PurgeAge \in Nat
  /\ MaxTime \in Nat
  /\ LastArrival \in Nat
  /\ MaxAbandons \in Nat
  /\ MaxRetries \in Nat

\* A worker finishes well inside its lease: a handler makes at most two
\* requests of 30 seconds each (safety.DefaultTimeout) on a lease of 300.
ASSUME LeaseAssumption == HandlerLimit < Lease

VARIABLES
  now,       \* the wall clock
  rows,      \* the ids present in the table
  job,       \* the columns of each row; Blank for an id that is not a row
  held,      \* each worker's copy of the job it is running
  abandons,  \* how many runs ended without Done or Fail
  retries    \* how many dead letters were revived

vars == <<now, rows, job, held, abandons, retries>>

Ids == 1..MaxJobs
NoJob == 0
Null == -1

Blank == [key |-> NoKey, runAfter |-> 0, leaseUntil |-> Null, attempts |-> 0,
          doneAt |-> Null, deadAt |-> Null]

Idle == [job |-> NoJob, attempts |-> 0, since |-> 0]

JobRow == [key: Keys \cup {NoKey}, runAfter: Nat, leaseUntil: Nat \cup {Null},
           attempts: Nat, doneAt: Nat \cup {Null}, deadAt: Nat \cup {Null}]

Copy == [job: Ids \cup {NoJob}, attempts: Nat, since: Nat]

-----------------------------------------------------------------------------
\* The partial index job_idem and every ready query speak of these rows.
Live(i) == i \in rows /\ job[i].doneAt = Null /\ job[i].deadAt = Null

\* The unique index job_idem admits row i with this key.
KeyFree(key, i) ==
  key = NoKey \/ \A j \in rows \ {i} : Live(j) => job[j].key # key

\* Mutant: a leased row is as ready as any other.
ClaimableLeased(i) == Live(i) /\ job[i].runAfter <= now

\* Mutant: a lease never runs out.
ClaimableUnleased(i) ==
  Live(i) /\ job[i].runAfter <= now /\ job[i].leaseUntil = Null

\* The ready query: due, and not leased or leased to someone whose time is up.
Claimable(i) ==
  /\ Live(i)
  /\ job[i].runAfter <= now
  /\ job[i].leaseUntil = Null \/ job[i].leaseUntil <= now

\* Mutant: the last chance comes one attempt late.
LastChanceLate(copy) == copy.attempts > MaxAttempts

\* Job.LastChance, asked of the worker's copy and not of the row.
LastChance(copy) == copy.attempts >= MaxAttempts

\* Exponential, from the attempt that failed, and capped.
Backoff(attempt) ==
  LET grown == BaseBackoff * 2 ^ ((IF attempt < 1 THEN 1 ELSE attempt) - 1)
  IN  IF grown \in 0..MaxBackoff THEN grown ELSE MaxBackoff

\* SQLite gives a new row the id after the largest one in use.
NextId(i) == i \notin rows /\ \A j \in rows : j < i
                           /\ i # 1 => i - 1 \in rows

-----------------------------------------------------------------------------
Init ==
  /\ now = 0
  /\ rows = {}
  /\ job = [i \in Ids |-> Blank]
  /\ held = [w \in Workers |-> Idle]
  /\ abandons = 0
  /\ retries = 0

\* A second live row with the same key is refused with ErrDuplicate, which
\* changes nothing and is therefore a stuttering step.
Enqueue(key) ==
  /\ now <= LastArrival
  /\ KeyFree(key, NoJob)
  /\ \E i \in Ids :
       /\ NextId(i)
       /\ rows' = rows \cup {i}
       /\ job' = [job EXCEPT ![i] = [Blank EXCEPT !.key = key, !.runAfter = now]]
  /\ UNCHANGED <<now, held, abandons, retries>>

\* What Claim does to the row it picks and what it returns, for the mutants.
ClaimWith(w, leaseUntil, counted) ==
  /\ held[w] = Idle
  /\ \E i \in Ids :
       /\ Claimable(i)
       /\ job' = [job EXCEPT ![i].leaseUntil = leaseUntil, ![i].attempts = @ + counted]
       /\ held' = [held EXCEPT ![w] = [job |-> i, attempts |-> job[i].attempts + 1,
                                       since |-> now]]
  /\ UNCHANGED <<now, rows, abandons, retries>>

\* Mutant: the lease is taken off the clock instead of added to it.
ClaimLeaseBehind(w) == ClaimWith(w, now - Lease, 1)

\* Mutant: the attempt is counted in the copy and not in the row.
ClaimUncounted(w) == ClaimWith(w, now + Lease, 0)

\* The oldest due row; rows due at the same second may come in any order.
Claim(w) ==
  /\ held[w] = Idle
  /\ \E i \in Ids :
       /\ Claimable(i)
       /\ \A j \in Ids : Claimable(j) => job[i].runAfter <= job[j].runAfter
       /\ job' = [job EXCEPT ![i] = [job[i] EXCEPT !.leaseUntil = now + Lease,
                                                   !.attempts = job[i].attempts + 1]]
       /\ held' = [held EXCEPT ![w] = [job |-> i, attempts |-> job[i].attempts + 1,
                                       since |-> now]]
  /\ UNCHANGED <<now, rows, abandons, retries>>

\* Completion goes by id alone: neither the lease nor the attempt is checked,
\* and a row that is gone is simply not updated.
Settle(w, row) ==
  /\ held[w].job # NoJob
  /\ job' = IF held[w].job \in rows THEN [job EXCEPT ![held[w].job] = row] ELSE job
  /\ held' = [held EXCEPT ![w] = Idle]
  /\ UNCHANGED <<now, rows, abandons, retries>>

Done(w) ==
  Settle(w, [job[held[w].job] EXCEPT !.doneAt = now, !.leaseUntil = Null])

Fail(w) ==
  LET row == job[held[w].job] IN
  IF LastChance(held[w])
  THEN Settle(w, [row EXCEPT !.deadAt = now, !.leaseUntil = Null])
  ELSE Settle(w, [row EXCEPT !.runAfter = now + Backoff(held[w].attempts),
                             !.leaseUntil = Null])

\* The worker dies, the process is stopped (which cancels the context Done
\* and Fail write with) or that write fails: the lease stays behind.
Abandon(w) ==
  /\ held[w].job # NoJob
  /\ abandons < MaxAbandons
  /\ held' = [held EXCEPT ![w] = Idle]
  /\ abandons' = abandons + 1
  /\ UNCHANGED <<now, rows, job, retries>>

\* Mutant: a revived row is not held against the unique index.
RetryAnyKey(i) ==
  /\ now <= LastArrival /\ retries < MaxRetries
  /\ i \in rows /\ job[i].deadAt # Null
  /\ job' = [job EXCEPT ![i] = [job[i] EXCEPT !.deadAt = Null, !.attempts = 0,
                                              !.runAfter = now, !.leaseUntil = Null]]
  /\ retries' = retries + 1
  /\ UNCHANGED <<now, rows, held, abandons>>

\* The operator revives a dead letter.  The update puts the row back under
\* the unique index, so it is refused while its key is live elsewhere.
Retry(i) ==
  /\ now <= LastArrival /\ retries < MaxRetries
  /\ i \in rows /\ job[i].deadAt # Null
  /\ job[i].doneAt = Null => KeyFree(job[i].key, i)
  /\ job' = [job EXCEPT ![i] = [job[i] EXCEPT !.deadAt = Null, !.attempts = 0,
                                              !.runAfter = now, !.leaseUntil = Null]]
  /\ retries' = retries + 1
  /\ UNCHANGED <<now, rows, held, abandons>>

Stale(i) == i \in rows /\ job[i].doneAt # Null /\ job[i].doneAt < now - PurgeAge

\* The hourly upkeep deletes every row done long enough ago.
PurgeDone ==
  /\ \E i \in Ids : Stale(i)
  /\ rows' = rows \ {i \in Ids : Stale(i)}
  /\ job' = [i \in Ids |-> IF Stale(i) THEN Blank ELSE job[i]]
  /\ UNCHANGED <<now, held, abandons, retries>>

\* Time passes, but never past the moment a running handler must be over.
Tick ==
  /\ now < MaxTime
  /\ \A w \in Workers : held[w].job # NoJob => now < held[w].since + HandlerLimit
  /\ now' = now + 1
  /\ UNCHANGED <<rows, job, held, abandons, retries>>

Next ==
  \/ \E key \in Keys \cup {NoKey} : Enqueue(key)
  \/ \E w \in Workers : Claim(w) \/ Done(w) \/ Fail(w) \/ Abandon(w)
  \/ \E i \in Ids : Retry(i)
  \/ PurgeDone
  \/ Tick

Spec == Init /\ [][Next]_vars

\* A free worker finds a due job within one unit of time: Enqueue wakes it and
\* it sweeps every 15 seconds besides.
Prompt ==
  now' # now => \A w \in Workers, i \in Ids : held[w] = Idle => ~Claimable(i)

\* A worker keeps sweeping (Deliverer.Run never stops), every handler returns
\* because its requests time out, and time goes on.
FairSpec ==
  /\ Init /\ [][Next /\ Prompt]_vars
  /\ WF_vars(Tick)
  /\ \A w \in Workers : WF_vars(Claim(w)) /\ WF_vars(Done(w) \/ Fail(w))

-----------------------------------------------------------------------------
(* Properties *)

\* Every column keeps its type, and an id outside the table is blank.
TypeOK ==
  /\ now \in Nat
  /\ rows \in SUBSET Ids
  /\ job \in [Ids -> JobRow]
  /\ held \in [Workers -> Copy]
  /\ abandons \in Nat
  /\ retries \in Nat
  /\ \A i \in Ids \ rows : job[i] = Blank

\* Concurrent workers never share a job, crashes and retries included: the
\* promise of Claim, for as long as a run is shorter than its lease.
NeverShared ==
  \A v, w \in Workers : v # w /\ held[v].job = held[w].job => held[v].job = NoJob

\* What a worker runs is still its own: the row is there, neither finished
\* nor dead, under the lease and at the attempt the worker was given, so that
\* Done and Fail, which check none of it, write to the right run.
CopyCurrent ==
  \A w \in Workers, i \in Ids : held[w].job = i =>
    /\ Live(i)
    /\ job[i].leaseUntil = held[w].since + Lease
    /\ job[i].attempts = held[w].attempts
    /\ now < job[i].leaseUntil

\* A job is never both done and dead, so no finished work waits in the dead
\* letter for somebody to run it again.
NeverDoneAndDead == \A i \in rows : job[i].doneAt = Null \/ job[i].deadAt = Null

\* A job is given up only after it was handed out MaxAttempts times.
DeadOnlyWhenSpent == \A i \in rows : job[i].deadAt # Null => job[i].attempts >= MaxAttempts

\* At most one live row per idempotency key, through Enqueue, Retry and every
\* completion.
OneLivePerKey ==
  \A i, j \in rows :
    i # j /\ Live(i) /\ Live(j) /\ job[i].key = job[j].key => job[i].key = NoKey

\* A job is handed out at most MaxAttempts times plus once for every run that
\* was lost (the cap is looked at only when a run reports its failure), and a
\* job that still waits has not used them all.
AttemptsBounded ==
  \A i \in rows :
    /\ job[i].attempts <= MaxAttempts + abandons
    /\ Live(i) /\ (\A w \in Workers : held[w].job # i) =>
         job[i].attempts < MaxAttempts + abandons

\* The status the board shows for an id.
Status(i) ==
  CASE i \notin rows -> "none"
    [] i \in rows /\ job[i].doneAt # Null -> "done"
    [] i \in rows /\ job[i].doneAt = Null /\ job[i].deadAt # Null -> "dead"
    [] OTHER -> "waiting"

Board == INSTANCE JobBoard WITH
  Nothing <- NoJob,
  status <- [i \in Ids |-> Status(i)],
  owner <- [w \in Workers |-> held[w].job]

\* The queue with its leases, attempts, crashes and purges is a JobBoard:
\* although Done and Fail check neither lease nor attempt, a job's fate is
\* only ever decided by the one worker that is running it.
ImplementsBoard == Board!Spec

\* Every job is eventually done or in the dead letter.
EventuallySettled == \A i \in Ids : Live(i) ~> ~Live(i)

=============================================================================
