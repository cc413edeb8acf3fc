------------------------------ MODULE JobBoard ------------------------------
(***************************************************************************)
(* What the job queue promises its callers, without clocks, leases or      *)
(* attempts: a posted job is run by at most one worker at a time, its fate *)
(* is decided only by the worker that is running it, finished work is      *)
(* never run again, and a buried job comes back only when it is revived.   *)
(***************************************************************************)
CONSTANTS Ids, Workers, Nothing

VARIABLES
  status,  \* "none", "waiting", "done" or "dead", for each id
  owner    \* the job each worker is running, or Nothing

vars == <<status, owner>>

Init ==
  /\ status = [i \in Ids |-> "none"]
  /\ owner = [w \in Workers |-> Nothing]

Post(i) ==
  /\ status[i] = "none"
  /\ status' = [status EXCEPT ![i] = "waiting"]
  /\ UNCHANGED owner

Take(w, i) ==
  /\ owner[w] = Nothing
  /\ status[i] = "waiting"
  /\ \A v \in Workers : owner[v] # i
  /\ owner' = [owner EXCEPT ![w] = i]
  /\ UNCHANGED status

\* The worker is through with its job, which is then done, dead or, when it
\* is to be tried again or the worker is lost, still waiting.
Release(w, i, outcome) ==
  /\ owner[w] = i
  /\ status[i] = "waiting"
  /\ owner' = [owner EXCEPT ![w] = Nothing]
  /\ status' = [status EXCEPT ![i] = outcome]

Revive(i) ==
  /\ status[i] = "dead"
  /\ status' = [status EXCEPT ![i] = "waiting"]
  /\ UNCHANGED owner

\* Only finished work that nobody is running leaves the board.
Purge(gone) ==
  /\ \A i \in gone : status[i] = "done" /\ \A w \in Workers : owner[w] # i
  /\ status' = [i \in Ids |-> IF i \in gone THEN "none" ELSE status[i]]
  /\ UNCHANGED owner

Next ==
  \/ \E i \in Ids : Post(i) \/ Revive(i)
  \/ \E w \in Workers, i \in Ids :
       Take(w, i) \/ \E outcome \in {"waiting", "done", "dead"} : Release(w, i, outcome)
  \/ \E gone \in SUBSET Ids : Purge(gone)

Spec == Init /\ [][Next]_vars

=============================================================================
