----------------------------- MODULE JobsProofs -----------------------------
(***************************************************************************)
(* For every number of jobs, workers and keys and every timing that meets  *)
(* LeaseAssumption: the queue keeps its invariants and implements JobBoard.*)
(*                                                                         *)
(* The inductive invariant is the conjunction of the safety invariants the *)
(* runs check.  None of NeverShared and CopyCurrent is inductive alone: a  *)
(* claim keeps a job unshared because its present runner is still under    *)
(* lease, and a runner stays under lease because nobody else can complete  *)
(* or revive the job it runs.                                              *)
(***************************************************************************)
EXTENDS Jobs, TLAPS

IInv ==
  /\ TypeOK
  /\ NeverShared
  /\ CopyCurrent
  /\ NeverDoneAndDead
  /\ DeadOnlyWhenSpent
  /\ OneLivePerKey
  /\ AttemptsBounded

-----------------------------------------------------------------------------
(* Typing *)

\* The retry delay Fail adds to the clock is a number of seconds, capped.
LEMMA BackoffType ==
  ASSUME NEW attempt
  PROVE  Backoff(attempt) \in 0..MaxBackoff
BY JobsAssumption DEF Backoff

\* Blank and Idle are well typed.
LEMMA BlankType == Blank \in JobRow /\ Idle \in Copy
BY JobsAssumption DEF Blank, JobRow, Idle, Copy, NoJob, Null

\* What Done and Fail write back to a row: only the three times may change, and
\* a verdict is a moment of the clock.
Verdict(w, row) ==
  LET old == job[held[w].job] IN
  /\ row.key = old.key
  /\ row.attempts = old.attempts
  /\ row.runAfter \in Nat
  /\ row.leaseUntil = Null
  /\ \/ row.doneAt = now /\ row.deadAt = old.deadAt
     \/ row.doneAt = old.doneAt /\ row.deadAt = now /\ held[w].attempts >= MaxAttempts
     \/ row.doneAt = old.doneAt /\ row.deadAt = old.deadAt
          /\ held[w].attempts < MaxAttempts

\* Done and Fail both settle a worker's job with such a row.
LEMMA Settling ==
  ASSUME TypeOK, NEW w \in Workers, Done(w) \/ Fail(w), held[w].job \in rows
  PROVE  \E row \in JobRow : Verdict(w, row) /\ Settle(w, row)
<1> DEFINE i == held[w].job
           old == job[i]
<1>1. i \in Ids /\ old \in JobRow /\ held[w] \in Copy /\ now \in Nat
  BY DEF TypeOK, Copy, Ids, NoJob
<1>2. CASE Done(w)
  <2> DEFINE row == [old EXCEPT !.doneAt = now, !.leaseUntil = Null]
  <2>1. row \in JobRow /\ Verdict(w, row)
    BY <1>1 DEF JobRow, Verdict
  <2>2. Settle(w, row)
    BY <1>2 DEF Done
  <2> QED BY <2>1, <2>2
<1>3. CASE Fail(w) /\ LastChance(held[w])
  <2> DEFINE row == [old EXCEPT !.deadAt = now, !.leaseUntil = Null]
  <2>1. row \in JobRow /\ Verdict(w, row)
    BY <1>1, <1>3 DEF JobRow, Verdict, LastChance
  <2>2. Settle(w, row)
    BY <1>3 DEF Fail
  <2> QED BY <2>1, <2>2
<1>4. CASE Fail(w) /\ ~LastChance(held[w])
  <2> DEFINE row == [old EXCEPT !.runAfter = now + Backoff(held[w].attempts),
                                !.leaseUntil = Null]
  <2>1. now + Backoff(held[w].attempts) \in Nat
    BY <1>1, BackoffType, JobsAssumption
  <2>2. row \in JobRow
    BY <1>1, <2>1 DEF JobRow
  <2>3. held[w].attempts < MaxAttempts
    BY <1>1, <1>4, JobsAssumption DEF LastChance, Copy
  <2>4. Verdict(w, row)
    BY <1>1, <2>1, <2>3 DEF JobRow, Verdict
  <2>5. Settle(w, row)
    BY <1>4 DEF Fail
  <2> QED BY <2>2, <2>4, <2>5
<1> QED BY <1>2, <1>3, <1>4

\* A settling step, with the row it writes in hand.
LEMMA SettleStep ==
  ASSUME TypeOK, CopyCurrent, NEW w \in Workers, Done(w) \/ Fail(w)
  PROVE  \E row \in JobRow :
           /\ Verdict(w, row)
           /\ held[w].job \in rows
           /\ job' = [job EXCEPT ![held[w].job] = row]
           /\ held' = [held EXCEPT ![w] = Idle]
           /\ UNCHANGED <<now, rows, abandons, retries>>
<1>1. held[w].job # NoJob
  BY DEF Done, Fail, Settle
<1>2. held[w].job \in rows
  BY <1>1 DEF CopyCurrent, Live, TypeOK, Copy
<1> QED BY <1>2, Settling DEF Settle

LEMMA TypeInit == Init => TypeOK
BY JobsAssumption, BlankType DEF Init, TypeOK, Ids

LEMMA TypeStep ==
  ASSUME TypeOK, CopyCurrent, [Next]_vars
  PROVE  TypeOK'
<1> USE DEF TypeOK
<1>1. ASSUME NEW key \in Keys \cup {NoKey}, Enqueue(key)
      PROVE  TypeOK'
  <2>1. PICK i \in Ids :
          /\ rows' = rows \cup {i}
          /\ job' = [job EXCEPT ![i] = [Blank EXCEPT !.key = key, !.runAfter = now]]
    BY <1>1 DEF Enqueue
  <2>2. [Blank EXCEPT !.key = key, !.runAfter = now] \in JobRow
    BY BlankType DEF JobRow, Blank
  <2> QED BY <1>1, <2>1, <2>2 DEF Enqueue
<1>2. ASSUME NEW w \in Workers, Claim(w)
      PROVE  TypeOK'
  <2>1. PICK i \in Ids :
          /\ Claimable(i)
          /\ job' = [job EXCEPT ![i] = [job[i] EXCEPT !.leaseUntil = now + Lease,
                                                      !.attempts = job[i].attempts + 1]]
          /\ held' = [held EXCEPT ![w] = [job |-> i, attempts |-> job[i].attempts + 1,
                                          since |-> now]]
    BY <1>2 DEF Claim
  <2>2. job' \in [Ids -> JobRow]
    <3>1. job[i] \in JobRow /\ now + Lease \in Nat
      BY JobsAssumption
    <3>2. job[i].attempts + 1 \in Nat
      BY <3>1 DEF JobRow
    <3>3. [job[i] EXCEPT !.leaseUntil = now + Lease,
                         !.attempts = job[i].attempts + 1] \in JobRow
      BY <3>1, <3>2 DEF JobRow
    <3> QED BY <2>1, <3>3
  <2>3. held' \in [Workers -> Copy]
    BY <2>1 DEF Copy, JobRow
  <2>4. \A j \in Ids \ rows : job'[j] = Blank
    BY <2>1 DEF Claimable, Live
  <2> QED BY <1>2, <2>2, <2>3, <2>4 DEF Claim
<1>3. ASSUME NEW w \in Workers, Done(w) \/ Fail(w)
      PROVE  TypeOK'
  BY <1>3, SettleStep, BlankType
<1>4. ASSUME NEW w \in Workers, Abandon(w)
      PROVE  TypeOK'
  BY <1>4, BlankType DEF Abandon
<1>5. ASSUME NEW i \in Ids, Retry(i)
      PROVE  TypeOK'
  <2>1. job' \in [Ids -> JobRow]
    <3>1. [job[i] EXCEPT !.deadAt = Null, !.attempts = 0,
                         !.runAfter = now, !.leaseUntil = Null] \in JobRow
      BY DEF JobRow, Null
    <3> QED BY <1>5, <3>1 DEF Retry
  <2> QED BY <1>5, <2>1 DEF Retry
<1>6. ASSUME PurgeDone
      PROVE  TypeOK'
  BY <1>6, BlankType DEF PurgeDone, Stale
<1>7. ASSUME Tick
      PROVE  TypeOK'
  BY <1>7 DEF Tick
<1>8. ASSUME UNCHANGED vars
      PROVE  TypeOK'
  BY <1>8 DEF vars
<1> QED BY <1>1, <1>2, <1>3, <1>4, <1>5, <1>6, <1>7, <1>8 DEF Next

-----------------------------------------------------------------------------
(* The invariant *)

\* An empty table satisfies all of it.
LEMMA InvInit == Init => IInv
<1> SUFFICES ASSUME Init PROVE IInv
  OBVIOUS
<1>1. TypeOK
  BY TypeInit
<1>2. NeverShared /\ CopyCurrent
  BY DEF Init, NeverShared, CopyCurrent, Idle, Ids, NoJob
<1>3. NeverDoneAndDead /\ DeadOnlyWhenSpent /\ OneLivePerKey /\ AttemptsBounded
  BY DEF Init, NeverDoneAndDead, DeadOnlyWhenSpent, OneLivePerKey, AttemptsBounded
<1> QED BY <1>1, <1>2, <1>3 DEF IInv

\* A new row is live, waiting at attempt zero, and nobody runs it.
LEMMA EnqueueStep ==
  ASSUME IInv, TypeOK', NEW key \in Keys \cup {NoKey}, Enqueue(key)
  PROVE  IInv'
<1> USE DEF IInv
<1>1. PICK i \in Ids :
        /\ i \notin rows
        /\ rows' = rows \cup {i}
        /\ job' = [job EXCEPT ![i] = [Blank EXCEPT !.key = key, !.runAfter = now]]
  BY DEF Enqueue, NextId
<1>2. /\ job'[i].key = key /\ job'[i].attempts = 0
      /\ job'[i].doneAt = Null /\ job'[i].deadAt = Null
      /\ \A j \in Ids : j # i => job'[j] = job[j]
  BY <1>1 DEF TypeOK, Blank
<1>3. UNCHANGED <<now, held, abandons, retries>>
  BY DEF Enqueue
<1>4. rows \subseteq Ids /\ Null \notin Nat
  BY DEF TypeOK, Null
<1>5. NeverShared'
  BY <1>3 DEF NeverShared
<1>6. CopyCurrent'
  BY <1>1, <1>2, <1>3, <1>4 DEF CopyCurrent, Live
<1>7. NeverDoneAndDead' /\ DeadOnlyWhenSpent'
  BY <1>1, <1>2, <1>4 DEF NeverDoneAndDead, DeadOnlyWhenSpent
<1>8. OneLivePerKey'
  <2>1. key = NoKey \/ \A j \in rows : Live(j) => job[j].key # key
    BY <1>4 DEF Enqueue, KeyFree, NoJob, Ids
  <2> QED BY <1>1, <1>2, <1>4, <2>1 DEF OneLivePerKey, Live
<1>9. AttemptsBounded'
  BY <1>1, <1>2, <1>3, <1>4, JobsAssumption DEF AttemptsBounded, Live, TypeOK
<1> QED BY <1>5, <1>6, <1>7, <1>8, <1>9

\* A claimed row was run by nobody: whoever ran it would still be under lease.
LEMMA ClaimStep ==
  ASSUME IInv, TypeOK', NEW w \in Workers, Claim(w)
  PROVE  IInv'
<1> USE DEF IInv
<1>1. PICK i \in Ids :
        /\ Claimable(i)
        /\ job' = [job EXCEPT ![i] = [job[i] EXCEPT !.leaseUntil = now + Lease,
                                                    !.attempts = job[i].attempts + 1]]
        /\ held' = [held EXCEPT ![w] = [job |-> i, attempts |-> job[i].attempts + 1,
                                        since |-> now]]
  BY DEF Claim
<1>2. /\ job'[i].key = job[i].key /\ job'[i].attempts = job[i].attempts + 1
      /\ job'[i].doneAt = job[i].doneAt /\ job'[i].deadAt = job[i].deadAt
      /\ job'[i].leaseUntil = now + Lease
      /\ \A j \in Ids : j # i => job'[j] = job[j]
  BY <1>1 DEF TypeOK, JobRow
<1>3. /\ held'[w].job = i /\ held'[w].attempts = job[i].attempts + 1
      /\ held'[w].since = now
      /\ \A v \in Workers : v # w => held'[v] = held[v]
  BY <1>1 DEF TypeOK, Copy
<1>4. UNCHANGED <<now, rows, abandons, retries>>
  BY DEF Claim
<1>5. /\ Live(i) /\ i \in rows /\ rows \subseteq Ids
      /\ now \in Nat /\ abandons \in Nat
      /\ \A j \in Ids : job[j].attempts \in Nat
  BY <1>1 DEF Claimable, Live, TypeOK, JobRow
<1>6. \A v \in Workers : held[v].job # i
  <2> SUFFICES ASSUME NEW v \in Workers, held[v].job = i PROVE FALSE
    OBVIOUS
  <2>1. now < job[i].leaseUntil
    BY DEF CopyCurrent
  <2>2. job[i].leaseUntil = held[v].since + Lease /\ held[v].since \in Nat
    BY DEF CopyCurrent, TypeOK, Copy
  <2> QED BY <1>1, <1>5, <2>1, <2>2, JobsAssumption DEF Claimable, Null
<1>7. NeverShared'
  BY <1>3, <1>6 DEF NeverShared
<1>8. CopyCurrent'
  <2> SUFFICES ASSUME NEW v \in Workers, NEW j \in Ids, held'[v].job = j
               PROVE  /\ Live(j)'
                      /\ job'[j].leaseUntil = held'[v].since + Lease
                      /\ job'[j].attempts = held'[v].attempts
                      /\ now' < job'[j].leaseUntil
    BY DEF CopyCurrent
  <2>1. CASE v = w
    BY <1>2, <1>3, <1>4, <1>5, <2>1, JobsAssumption, LeaseAssumption DEF Live
  <2>2. CASE v # w
    BY <1>2, <1>3, <1>4, <1>5, <1>6, <2>2 DEF CopyCurrent, Live
  <2> QED BY <2>1, <2>2
<1>9. NeverDoneAndDead' /\ DeadOnlyWhenSpent'
  BY <1>2, <1>4, <1>5, JobsAssumption DEF NeverDoneAndDead, DeadOnlyWhenSpent, Live
<1>10. OneLivePerKey'
  BY <1>2, <1>4, <1>5 DEF OneLivePerKey, Live
<1>11. AttemptsBounded'
  <2>1. job[i].attempts < MaxAttempts + abandons
    BY <1>5, <1>6 DEF AttemptsBounded
  <2>2. job'[i].attempts <= MaxAttempts + abandons
    BY <1>2, <1>5, <2>1, JobsAssumption
  <2>3. \A j \in rows : j # i /\ (\A v \in Workers : held'[v].job # j)
                         => \A v \in Workers : held[v].job # j
    BY <1>3, <1>5 DEF Claim, Idle, NoJob, Ids
  <2> QED BY <1>2, <1>3, <1>4, <1>5, <2>2, <2>3 DEF AttemptsBounded, Live
<1> QED BY <1>7, <1>8, <1>9, <1>10, <1>11

\* Done and Fail write by id alone; the invariant says the id is still theirs.
LEMMA SettleInv ==
  ASSUME IInv, TypeOK', NEW w \in Workers, Done(w) \/ Fail(w)
  PROVE  IInv'
<1> USE DEF IInv
<1> DEFINE i == held[w].job
<1>1. PICK row \in JobRow :
        /\ Verdict(w, row)
        /\ i \in rows
        /\ job' = [job EXCEPT ![i] = row]
        /\ held' = [held EXCEPT ![w] = Idle]
        /\ UNCHANGED <<now, rows, abandons, retries>>
  BY SettleStep
<1>2. /\ rows \subseteq Ids /\ i \in Ids /\ NoJob \notin Ids
      /\ now \in Nat /\ abandons \in Nat /\ Null \notin Nat
      /\ \A j \in Ids : job[j].attempts \in Nat
  BY <1>1 DEF TypeOK, JobRow, Null, NoJob, Ids
<1>3. /\ Live(i)
      /\ job[i].attempts = held[w].attempts
      /\ \A v \in Workers : v # w => held[v].job # i
  BY <1>2 DEF CopyCurrent, NeverShared
<1>4. /\ job'[i] = row
      /\ \A j \in Ids : j # i => job'[j] = job[j]
      /\ held'[w].job = NoJob
      /\ \A v \in Workers : v # w => held'[v] = held[v]
  BY <1>1, <1>2 DEF TypeOK, Idle
<1> HIDE DEF i
<1>5. NeverShared'
  BY <1>4 DEF NeverShared
<1>6. CopyCurrent'
  BY <1>1, <1>2, <1>3, <1>4 DEF CopyCurrent, Live
<1>7. /\ row.key = job[i].key /\ row.attempts = job[i].attempts
      /\ \/ row.doneAt = now /\ row.deadAt = Null
         \/ row.doneAt = Null /\ row.deadAt = now /\ row.attempts >= MaxAttempts
         \/ row.doneAt = Null /\ row.deadAt = Null /\ row.attempts < MaxAttempts
  BY <1>1, <1>3 DEF Verdict, Live, i
<1>8. NeverDoneAndDead' /\ DeadOnlyWhenSpent'
  BY <1>1, <1>2, <1>4, <1>7 DEF NeverDoneAndDead, DeadOnlyWhenSpent
<1>9. OneLivePerKey'
  BY <1>1, <1>2, <1>3, <1>4, <1>7 DEF OneLivePerKey, Live
<1>10. AttemptsBounded'
  <2>1. row.attempts <= MaxAttempts + abandons
    BY <1>1, <1>7 DEF AttemptsBounded
  <2>2. row.doneAt = Null /\ row.deadAt = Null => row.attempts < MaxAttempts + abandons
    BY <1>2, <1>7, JobsAssumption
  <2>3. \A j \in rows : j # i /\ (\A v \in Workers : held'[v].job # j)
                         => \A v \in Workers : held[v].job # j
    BY <1>2, <1>4 DEF i
  <2> QED BY <1>1, <1>2, <1>4, <2>1, <2>2, <2>3 DEF AttemptsBounded, Live
<1> QED BY <1>5, <1>6, <1>8, <1>9, <1>10

\* A lost run leaves the row as it is and uses up one attempt more.
LEMMA AbandonStep ==
  ASSUME IInv, TypeOK', NEW w \in Workers, Abandon(w)
  PROVE  IInv'
<1> USE DEF IInv
<1>1. /\ held' = [held EXCEPT ![w] = Idle]
      /\ abandons' = abandons + 1
      /\ UNCHANGED <<now, rows, job, retries>>
  BY DEF Abandon
<1>2. /\ held'[w].job = NoJob /\ NoJob \notin Ids /\ rows \subseteq Ids
      /\ \A v \in Workers : v # w => held'[v] = held[v]
  BY <1>1 DEF TypeOK, Idle, NoJob, Ids
<1>3. NeverShared' /\ CopyCurrent'
  BY <1>1, <1>2 DEF NeverShared, CopyCurrent, Live
<1>4. NeverDoneAndDead' /\ DeadOnlyWhenSpent' /\ OneLivePerKey'
  BY <1>1 DEF NeverDoneAndDead, DeadOnlyWhenSpent, OneLivePerKey, Live
<1>5. AttemptsBounded'
  <2>1. \A j \in rows : job[j].attempts \in Nat
    BY DEF TypeOK, JobRow
  <2> QED BY <1>1, <2>1, JobsAssumption DEF AttemptsBounded, TypeOK
<1> QED BY <1>3, <1>4, <1>5

\* A dead letter is run by nobody, and comes back under the unique index.
LEMMA RetryStep ==
  ASSUME IInv, TypeOK', NEW i \in Ids, Retry(i)
  PROVE  IInv'
<1> USE DEF IInv
<1>1. /\ i \in rows /\ job[i].deadAt # Null /\ job[i].doneAt = Null
      /\ KeyFree(job[i].key, i)
      /\ UNCHANGED <<now, rows, held, abandons>>
  BY DEF Retry, NeverDoneAndDead
<1>2. /\ job'[i].key = job[i].key /\ job'[i].attempts = 0
      /\ job'[i].doneAt = Null /\ job'[i].deadAt = Null
      /\ \A j \in Ids : j # i => job'[j] = job[j]
  BY <1>1 DEF Retry, TypeOK, JobRow
<1>3. rows \subseteq Ids /\ abandons \in Nat
  BY DEF TypeOK
<1>4. \A v \in Workers : held[v].job # i
  BY <1>1 DEF CopyCurrent, Live
<1>5. NeverShared'
  BY <1>1 DEF NeverShared
<1>6. CopyCurrent'
  BY <1>1, <1>2, <1>3, <1>4 DEF CopyCurrent, Live
<1>7. NeverDoneAndDead' /\ DeadOnlyWhenSpent'
  BY <1>1, <1>2, <1>3 DEF NeverDoneAndDead, DeadOnlyWhenSpent
<1>8. OneLivePerKey'
  BY <1>1, <1>2, <1>3 DEF OneLivePerKey, KeyFree, Live
<1>9. AttemptsBounded'
  BY <1>1, <1>2, <1>3, JobsAssumption DEF AttemptsBounded, Live
<1> QED BY <1>5, <1>6, <1>7, <1>8, <1>9

\* What the upkeep deletes is done, and what is done is run by nobody.
LEMMA PurgeStep ==
  ASSUME IInv, TypeOK', PurgeDone
  PROVE  IInv'
<1> USE DEF IInv
<1>1. /\ rows' \subseteq rows /\ rows \subseteq Ids
      /\ \A j \in rows \ rows' : job[j].doneAt # Null
      /\ \A j \in rows' : job'[j] = job[j]
      /\ UNCHANGED <<now, held, abandons, retries>>
  BY DEF PurgeDone, Stale, TypeOK
<1>2. NeverShared' /\ CopyCurrent'
  BY <1>1 DEF NeverShared, CopyCurrent, Live
<1>3. NeverDoneAndDead' /\ DeadOnlyWhenSpent' /\ OneLivePerKey'
  BY <1>1 DEF NeverDoneAndDead, DeadOnlyWhenSpent, OneLivePerKey, Live
<1>4. AttemptsBounded'
  BY <1>1 DEF AttemptsBounded, Live
<1> QED BY <1>2, <1>3, <1>4

\* Time stops for a running handler before its lease does.
LEMMA TickStep ==
  ASSUME IInv, TypeOK', Tick
  PROVE  IInv'
<1> USE DEF IInv
<1>1. CopyCurrent'
  <2>1. ASSUME NEW w \in Workers, NEW i \in Ids, held[w].job = i
        PROVE  now' < job[i].leaseUntil
    <3>1. held[w].since \in Nat /\ now \in Nat /\ i # NoJob
      BY DEF TypeOK, Copy, NoJob, Ids
    <3>2. now + 1 <= held[w].since + HandlerLimit
      BY <2>1, <3>1, JobsAssumption DEF Tick
    <3>3. job[i].leaseUntil = held[w].since + Lease
      BY <2>1 DEF CopyCurrent
    <3> QED BY <3>1, <3>2, <3>3, JobsAssumption, LeaseAssumption DEF Tick
  <2> QED BY <2>1 DEF CopyCurrent, Live, Tick
<1>2. NeverShared' /\ NeverDoneAndDead' /\ DeadOnlyWhenSpent' /\ OneLivePerKey'
  BY DEF Tick, NeverShared, NeverDoneAndDead, DeadOnlyWhenSpent, OneLivePerKey, Live
<1>3. AttemptsBounded'
  BY DEF Tick, AttemptsBounded, Live
<1> QED BY <1>1, <1>2, <1>3

LEMMA InvStep ==
  ASSUME IInv, [Next]_vars
  PROVE  IInv'
<1>1. TypeOK'
  BY TypeStep DEF IInv
<1>2. CASE UNCHANGED vars
  BY <1>1, <1>2 DEF IInv, vars, NeverShared, CopyCurrent, NeverDoneAndDead,
       DeadOnlyWhenSpent, OneLivePerKey, AttemptsBounded, Live
<1>3. CASE Next
  BY <1>1, <1>3, EnqueueStep, ClaimStep, SettleInv, AbandonStep, RetryStep,
     PurgeStep, TickStep DEF Next
<1> QED BY <1>2, <1>3

\* The queue keeps its invariant in every reachable state.
THEOREM Invariance == Spec => []IInv
BY InvInit, InvStep, PTL DEF Spec

\* Every column of the queue keeps its type.
THEOREM TypeCorrect == Spec => []TypeOK
BY Invariance, PTL DEF IInv

\* No job is run by two workers at once, whatever crashes, retries and purges
\* happen between the claims.
THEOREM NoSharing == Spec => []NeverShared
BY Invariance, PTL DEF IInv

\* Done and Fail, which check neither lease nor attempt, are only ever called
\* on a job the caller still holds.
THEOREM CopiesStayCurrent == Spec => []CopyCurrent
BY Invariance, PTL DEF IInv

\* The partial unique index and Retry together keep one live job per key.
THEOREM OneLiveJob == Spec => []OneLivePerKey
BY Invariance, PTL DEF IInv

\* The attempt cap is exceeded by no more than the number of lost runs.
THEOREM AttemptCap == Spec => []AttemptsBounded
BY Invariance, PTL DEF IInv

-----------------------------------------------------------------------------
(* The queue implements the board *)

\* An empty table is an empty board.
LEMMA BoardInit == Init => Board!Init
BY DEF Init, Board!Init, Status, Idle, NoJob

\* The status of one id, moved while every other one stays, is what the board
\* calls an EXCEPT.
LEMMA OneStatusMoves ==
  ASSUME NEW i \in Ids, NEW to, Status(i)' = to,
         \A j \in Ids \ {i} : Status(j)' = Status(j)
  PROVE  [j \in Ids |-> Status(j)]' = [[j \in Ids |-> Status(j)] EXCEPT ![i] = to]
OBVIOUS

\* Every step of the queue is a step of the board, or leaves it alone.
LEMMA BoardStep ==
  ASSUME IInv, IInv', [Next]_vars
  PROVE  [Board!Next]_(Board!vars)
<1> USE DEF IInv
<1>0. rows \subseteq Ids /\ NoJob \notin Ids /\ Null \notin Nat
  BY DEF TypeOK, NoJob, Ids, Null
<1>1. ASSUME NEW key \in Keys \cup {NoKey}, Enqueue(key)
      PROVE  Board!Next
  <2>1. PICK i \in Ids :
          /\ i \notin rows
          /\ rows' = rows \cup {i}
          /\ job' = [job EXCEPT ![i] = [Blank EXCEPT !.key = key, !.runAfter = now]]
    BY <1>1 DEF Enqueue, NextId
  <2>2. Status(i) = "none" /\ Status(i)' = "waiting"
    BY <2>1 DEF Status, Blank, TypeOK
  <2>3. \A j \in Ids \ {i} : Status(j)' = Status(j)
    BY <2>1 DEF Status, TypeOK
  <2>4. [j \in Ids |-> Status(j)]' = [[j \in Ids |-> Status(j)] EXCEPT ![i] = "waiting"]
    BY <2>2, <2>3, OneStatusMoves
  <2>5. Board!Post(i)
    BY <1>1, <2>2, <2>4 DEF Board!Post, Enqueue
  <2> QED BY <2>5 DEF Board!Next
<1>2. ASSUME NEW w \in Workers, Claim(w)
      PROVE  Board!Next
  <2>1. PICK i \in Ids :
          /\ Claimable(i)
          /\ job' = [job EXCEPT ![i] = [job[i] EXCEPT !.leaseUntil = now + Lease,
                                                      !.attempts = job[i].attempts + 1]]
          /\ held' = [held EXCEPT ![w] = [job |-> i, attempts |-> job[i].attempts + 1,
                                          since |-> now]]
    BY <1>2 DEF Claim
  <2>2. Live(i) /\ held[w].job = NoJob /\ rows' = rows
    BY <1>2, <2>1 DEF Claim, Claimable, Idle
  <2>3. \A v \in Workers : held[v].job # i
    <3>1. held'[w].job = i /\ \A v \in Workers \ {w} : held'[v] = held[v]
      BY <2>1 DEF TypeOK
    <3> QED BY <1>0, <2>2, <3>1 DEF NeverShared
  <2>4. Status(i) = "waiting" /\ \A j \in Ids : Status(j)' = Status(j)
    BY <2>1, <2>2 DEF Status, Live, TypeOK, JobRow
  <2>5. [v \in Workers |-> held[v].job]' = [[v \in Workers |-> held[v].job] EXCEPT ![w] = i]
    BY <2>1 DEF TypeOK
  <2>6. Board!Take(w, i)
    BY <2>2, <2>3, <2>4, <2>5 DEF Board!Take
  <2> QED BY <2>6 DEF Board!Next
<1>3. ASSUME NEW w \in Workers, Done(w) \/ Fail(w)
      PROVE  Board!Next
  <2>0. PICK i \in Ids : i = held[w].job
    BY <1>3 DEF Done, Fail, Settle, TypeOK, Copy
  <2>1. PICK row \in JobRow :
          /\ Verdict(w, row)
          /\ i \in rows
          /\ job' = [job EXCEPT ![i] = row]
          /\ held' = [held EXCEPT ![w] = Idle]
          /\ UNCHANGED <<now, rows, abandons, retries>>
    BY <1>3, <2>0, SettleStep
  <2>2. i \in Ids /\ Live(i) /\ now \in Nat
    BY <1>0, <2>0, <2>1 DEF CopyCurrent, TypeOK
  <2>3. job'[i] = row /\ \A j \in Ids : j # i => job'[j] = job[j]
    BY <2>1, <2>2 DEF TypeOK
  <2>4. \/ row.doneAt = now /\ row.deadAt = Null
        \/ row.doneAt = Null /\ row.deadAt = now
        \/ row.doneAt = Null /\ row.deadAt = Null
    BY <2>0, <2>1, <2>2 DEF Verdict, Live
  <2>5. Status(i)' \in {"waiting", "done", "dead"} /\ Status(i) = "waiting"
    BY <1>0, <2>1, <2>2, <2>3, <2>4 DEF Status, Live
  <2>6. \A j \in Ids \ {i} : Status(j)' = Status(j)
    BY <2>1, <2>3 DEF Status
  <2>7. [v \in Workers |-> held[v].job]' = [[v \in Workers |-> held[v].job] EXCEPT ![w] = NoJob]
    BY <2>1 DEF TypeOK, Idle
  <2>8. PICK to \in {"waiting", "done", "dead"} : Status(i)' = to
    BY <2>5
  <2>9. [j \in Ids |-> Status(j)]' = [[j \in Ids |-> Status(j)] EXCEPT ![i] = to]
    BY <2>2, <2>6, <2>8, OneStatusMoves
  <2>10. Board!Release(w, i, to)
    BY <2>0, <2>2, <2>5, <2>7, <2>9 DEF Board!Release
  <2> QED BY <2>2, <2>10 DEF Board!Next
<1>4. ASSUME NEW w \in Workers, Abandon(w)
      PROVE  Board!Next
  <2> DEFINE i == held[w].job
  <2>1. i \in Ids /\ Live(i)
    BY <1>4 DEF Abandon, CopyCurrent, TypeOK, Copy
  <2>2. Status(i) = "waiting" /\ \A j \in Ids : Status(j)' = Status(j)
    BY <1>4, <2>1 DEF Abandon, Status, Live
  <2>3. [j \in Ids |-> Status(j)]' = [[j \in Ids |-> Status(j)] EXCEPT ![i] = "waiting"]
    BY <2>1, <2>2
  <2>4. [v \in Workers |-> held[v].job]' = [[v \in Workers |-> held[v].job] EXCEPT ![w] = NoJob]
    BY <1>4 DEF Abandon, TypeOK, Idle
  <2>5. Board!Release(w, i, "waiting")
    BY <2>1, <2>2, <2>3, <2>4 DEF Board!Release
  <2> QED BY <2>1, <2>5 DEF Board!Next
<1>5. ASSUME NEW i \in Ids, Retry(i)
      PROVE  Board!Next
  <2>1. /\ i \in rows /\ job[i].deadAt # Null /\ job[i].doneAt = Null
        /\ UNCHANGED <<rows, held>>
    BY <1>5 DEF Retry, NeverDoneAndDead
  <2>2. /\ job'[i].doneAt = Null /\ job'[i].deadAt = Null
        /\ \A j \in Ids : j # i => job'[j] = job[j]
    BY <1>5, <2>1 DEF Retry, TypeOK, JobRow
  <2>3. Status(i) = "dead" /\ Status(i)' = "waiting"
    BY <2>1, <2>2 DEF Status
  <2>4. \A j \in Ids \ {i} : Status(j)' = Status(j)
    BY <2>1, <2>2 DEF Status
  <2>5. [j \in Ids |-> Status(j)]' = [[j \in Ids |-> Status(j)] EXCEPT ![i] = "waiting"]
    BY <2>3, <2>4, OneStatusMoves
  <2>6. Board!Revive(i)
    BY <2>1, <2>3, <2>5 DEF Board!Revive
  <2> QED BY <2>6 DEF Board!Next
<1>6. ASSUME PurgeDone
      PROVE  Board!Next
  <2> DEFINE gone == {i \in Ids : Stale(i)}
  <2>1. /\ rows' = rows \ gone
        /\ \A j \in Ids : j \notin gone => job'[j] = job[j]
        /\ \A j \in gone : j \in rows /\ job[j].doneAt # Null
        /\ held' = held
    BY <1>6 DEF PurgeDone, Stale
  <2> HIDE DEF gone
  <2>2. gone \subseteq Ids
    BY DEF gone
  <2>3. \A j \in gone : Status(j) = "done" /\ Status(j)' = "none"
    BY <2>1, <2>2 DEF Status
  <2>4. \A j \in Ids : j \notin gone => Status(j)' = Status(j)
    BY <2>1 DEF Status
  <2>5. \A j \in gone : \A w \in Workers : held[w].job # j
    BY <2>1, <2>2 DEF CopyCurrent, Live
  <2>6. [j \in Ids |-> Status(j)]'
          = [j \in Ids |-> IF j \in gone THEN "none" ELSE [i \in Ids |-> Status(i)][j]]
    BY <2>2, <2>3, <2>4
  <2>7. Board!Purge(gone)
    BY <2>1, <2>2, <2>3, <2>5, <2>6 DEF Board!Purge
  <2> QED BY <2>2, <2>7 DEF Board!Next
<1>7. ASSUME Tick \/ UNCHANGED vars
      PROVE  UNCHANGED Board!vars
  <2>1. rows' = rows /\ job' = job /\ held' = held
    BY <1>7 DEF Tick, vars
  <2>2. \A j \in Ids : Status(j)' = Status(j)
    BY <2>1 DEF Status
  <2> QED BY <2>1, <2>2 DEF Board!vars
<1> QED BY <1>1, <1>2, <1>3, <1>4, <1>5, <1>6, <1>7 DEF Next

\* The queue is a JobBoard: leases, attempts, backoff, crashes and purges are
\* invisible to its callers but for the run of a job by one worker at a time.
THEOREM Refinement == Spec => ImplementsBoard
<1>1. Init => Board!Init
  BY BoardInit
<1>2. IInv /\ IInv' /\ [Next]_vars => [Board!Next]_(Board!vars)
  BY BoardStep
<1> QED BY <1>1, <1>2, Invariance, PTL DEF Spec, ImplementsBoard, Board!Spec

=============================================================================
