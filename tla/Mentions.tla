------------------------------ MODULE Mentions ------------------------------
(***************************************************************************)
(* Webmentions: internal/webmention/webmention.go, the endpoint that       *)
(* receives them, and the two kinds of job the delivery worker runs for    *)
(* them (internal/web/delivery.go).                                        *)
(*                                                                         *)
(* A mention that comes in is recorded, queued, verified by reading the    *)
(* page it names, listed for the moderators and decided; one that goes out *)
(* is recorded, its endpoint discovered, posted and entered in the ledger. *)
(* There is one worker.  Jobs are as in module Jobs, without the clock: a  *)
(* live job can be claimed, and so can one whose worker died.              *)
(***************************************************************************)
EXTENDS Naturals, FiniteSets

CONSTANTS
  Incoming,      \* mentions that may come in, by source and target
  Outgoing,      \* mentions to send, by source and target
  Requests,      \* handlers of the endpoint
  NoMention,
  MaxAttempts,   \* DefaultMaxAttempts
  MaxReceived,   \* bound: notifications
  MaxChanges,    \* bound: changes of the pages that mention us
  MaxDecisions,  \* bound: decisions of the moderators
  MaxRetries,    \* bound: dead jobs that are revived
  MaxCuts        \* bound: crashes, lost connections and statements that fail

Mentions == Incoming \cup Outgoing

VARIABLES
  row,      \* table webmention: the state of each row
  page,     \* what the source of an incoming mention answers
  req,      \* the handlers, and the mention they have recorded
  job,      \* the live job of each mention, if any, and its attempts
  dead,     \* how many dead jobs each mention has left
  held,     \* the worker's job
  listed,   \* what a moderator saw awaiting a decision
  journey,  \* the outcome of the last attempt in the ledger
  decision, \* the last decision, until the mention is received again (history)
  raced,    \* decisions taken while a verification was under way (history)
  found,    \* mentions whose page was seen to link to us (history)
  lapsed,   \* mentions whose notification got no job (history)
  unwritten,\* mentions of which the last attempt to send did not write
            \* everything down (history)
  received, changes, decisions, retries, cuts

vars == <<row, page, req, job, dead, held, listed, journey, decision, raced, found, lapsed,
          unwritten, received, changes, decisions, retries, cuts>>

queue == <<job, dead>>
world == <<page, changes>>
moderators == <<listed, decision, raced, decisions>>
endpoint == <<req, received>>

States == {"none", "pending", "verified", "approved", "rejected", "failed", "deleted"}
Pages == {"links", "plain", "gone", "down"}

NoJob == [live |-> FALSE, attempts |-> 0]
Resting == [m |-> NoMention, attempts |-> 0, pc |-> "idle", saw |-> "links", outcome |-> "ok"]

Settled(m) == row[m] \in {"approved", "rejected", "deleted"}

-----------------------------------------------------------------------------
(* The endpoint *)

\* Receive: a repeated notification starts the same row over.
Receive(r, m) ==
  /\ req[r] = NoMention /\ received < MaxReceived /\ received' = received + 1
  /\ row' = [row EXCEPT ![m] = "pending"]
  /\ req' = [req EXCEPT ![r] = m]
  /\ decision' = [decision EXCEPT ![m] = "none"] /\ raced' = raced \ {m} /\ lapsed' = lapsed \ {m}
  /\ UNCHANGED <<queue, world, held, listed, journey, found, unwritten, decisions, retries, cuts>>

\* Mutant: the job is queued for somebody new only.
QueueVerifyOnce(r) ==
  LET m == req[r]
  IN  /\ m # NoMention
      /\ job' = IF job[m].live \/ dead[m] > 0 \/ m \in found THEN job
                ELSE [job EXCEPT ![m] = [live |-> TRUE, attempts |-> 0]]
      /\ lapsed' = IF job[m].live /\ held.m = m /\ held.pc = "settle" THEN lapsed \cup {m} ELSE lapsed
      /\ req' = [req EXCEPT ![r] = NoMention]
      /\ UNCHANGED <<row, dead, world, held, moderators, journey, found, unwritten, received, retries, cuts>>

\* The rest of receiveWebmention: one live job per mention.  The job that is
\* there may be one whose verification is over already.
QueueVerify(r) ==
  LET m == req[r]
  IN  /\ m # NoMention
      /\ job' = IF job[m].live THEN job ELSE [job EXCEPT ![m] = [live |-> TRUE, attempts |-> 0]]
      /\ lapsed' = IF job[m].live /\ held.m = m /\ held.pc = "settle" THEN lapsed \cup {m} ELSE lapsed
      /\ req' = [req EXCEPT ![r] = NoMention]
      /\ UNCHANGED <<row, dead, world, held, moderators, journey, found, unwritten, received, retries, cuts>>

\* The client goes away, which cancels the statement: there is no job.
Fail(r) ==
  /\ req[r] # NoMention /\ cuts < MaxCuts /\ cuts' = cuts + 1
  /\ lapsed' = lapsed \cup {req[r]}
  /\ req' = [req EXCEPT ![r] = NoMention]
  /\ UNCHANGED <<row, queue, world, held, moderators, journey, found, unwritten, received, retries>>

\* afterPublish queues the mention a reply sends.
QueueSend(m) ==
  /\ row[m] = "none" /\ ~job[m].live /\ dead[m] = 0
  /\ job' = [job EXCEPT ![m] = [live |-> TRUE, attempts |-> 0]]
  /\ UNCHANGED <<row, dead, world, endpoint, held, moderators, journey, found, unwritten, lapsed, retries, cuts>>

-----------------------------------------------------------------------------
(* The worker *)

others == <<world, endpoint, moderators, lapsed, received, retries>>
worker == <<others, unwritten, cuts>>

\* A statement fails.
Slip == cuts < MaxCuts /\ cuts' = cuts + 1

Go(pc) == held' = [held EXCEPT !.pc = pc]

\* Claim, and the choice of the handler by kind.
Claim(m) ==
  /\ held = Resting /\ job[m].live
  /\ job' = [job EXCEPT ![m].attempts = @ + 1]
  /\ held' = [Resting EXCEPT !.m = m, !.attempts = job[m].attempts + 1,
                             !.pc = IF m \in Incoming THEN "read" ELSE "record"]
  /\ UNCHANGED <<row, dead, journey, found, worker>>

\* Mutant: a mention is verified again whatever became of it.
ReadMentionAnyway ==
  /\ held.pc = "read" /\ Go("fetch")
  /\ UNCHANGED <<row, queue, journey, found, worker>>

\* verify: what a moderator decided needs no verification.
ReadMention ==
  /\ held.pc = "read"
  /\ Go(IF Settled(held.m) THEN "settle" ELSE "fetch")
  /\ UNCHANGED <<row, queue, journey, found, worker>>

\* VerifyIncoming reads the page ...
Fetch ==
  /\ held.pc = "fetch"
  /\ held' = [held EXCEPT !.pc = "write", !.saw = page[held.m]]
  /\ UNCHANGED <<row, queue, journey, found, worker>>

\* ... and writes what it saw, whatever the row says by now, or fails to.
Write ==
  /\ held.pc = "write"
  /\ \/ /\ row' = [row EXCEPT ![held.m] = CASE held.saw = "links" -> "verified"
                                            [] held.saw = "gone"  -> "deleted"
                                            [] OTHER              -> "failed"]
        /\ held' = [held EXCEPT !.pc = "settle",
                                !.outcome = IF held.saw \in {"links", "gone"} THEN "ok" ELSE "failed"]
        /\ found' = IF held.saw = "links" THEN found \cup {held.m} ELSE found
        /\ UNCHANGED cuts
     \/ /\ Slip /\ held' = [held EXCEPT !.pc = "settle", !.outcome = "failed"]
        /\ UNCHANGED <<row, found>>
  /\ UNCHANGED <<queue, journey, others, unwritten>>

Pending == [row EXCEPT ![held.m] = "pending"]

\* Send records the mention as pending and reads the row back; when either
\* fails that was the attempt ...
RecordSend ==
  /\ held.pc = "record"
  /\ \/ /\ row' = Pending /\ Go("discover")
        /\ unwritten' = unwritten \ {held.m} /\ UNCHANGED cuts
     \/ /\ Slip /\ row' \in {row, Pending}
        /\ held' = [held EXCEPT !.pc = "ledger", !.outcome = "failed"]
        /\ unwritten' = unwritten \cup {held.m}
  /\ UNCHANGED <<queue, journey, found, others>>

\* ... looks for the endpoint of the target ...
Discover ==
  /\ held.pc = "discover"
  /\ \E result \in {"ok", "failed", "rejected"} :
       held' = [held EXCEPT !.pc = IF result = "ok" THEN "post" ELSE "sent", !.outcome = result]
  /\ UNCHANGED <<row, queue, journey, found, worker>>

\* ... posts to it ...
Post ==
  /\ held.pc = "post"
  /\ \E result \in {"ok", "failed"} : held' = [held EXCEPT !.pc = "sent", !.outcome = result]
  /\ UNCHANGED <<row, queue, journey, found, worker>>

\* Nothing was heard of the statement that fails after a failure; after a
\* success it is the failure.
Unwritten ==
  /\ Slip /\ unwritten' = unwritten \cup {held.m}
  /\ held' = [held EXCEPT !.pc = "ledger", !.outcome = IF @ = "ok" THEN "failed" ELSE @]
  /\ UNCHANGED row

\* Mutant: a refusal is not written down.
SentUnwritten ==
  /\ held.pc = "sent"
  /\ \/ /\ row' = IF held.outcome = "ok" THEN [row EXCEPT ![held.m] = "approved"] ELSE row
        /\ Go("ledger") /\ UNCHANGED <<unwritten, cuts>>
     \/ Unwritten
  /\ UNCHANGED <<queue, journey, found, others>>

\* ... and writes how that ended.
Sent ==
  /\ held.pc = "sent"
  /\ \/ /\ row' = [row EXCEPT ![held.m] = IF held.outcome = "ok" THEN "approved" ELSE "failed"]
        /\ Go("ledger") /\ UNCHANGED <<unwritten, cuts>>
     \/ Unwritten
  /\ UNCHANGED <<queue, journey, found, others>>

LastChance == held.attempts >= MaxAttempts

\* send enters the attempt in the ledger; that it cannot is logged.
Record ==
  /\ held.pc = "ledger"
  /\ \/ /\ journey' = [journey EXCEPT ![held.m] =
                         IF held.outcome = "failed" /\ LastChance THEN "gave up" ELSE held.outcome]
        /\ UNCHANGED <<unwritten, cuts>>
     \/ Slip /\ unwritten' = unwritten \cup {held.m} /\ UNCHANGED journey
  /\ Go("settle")
  /\ UNCHANGED <<row, queue, found, others>>

\* The end of once: Done or Fail.  A target without an endpoint is no failure.
Settle ==
  LET m == held.m
  IN  /\ held.pc = "settle" /\ held' = Resting
      /\ \/ held.outcome # "failed" /\ job' = [job EXCEPT ![m] = NoJob] /\ UNCHANGED dead
         \/ /\ held.outcome = "failed" /\ LastChance
            /\ job' = [job EXCEPT ![m] = NoJob] /\ dead' = [dead EXCEPT ![m] = @ + 1]
         \/ held.outcome = "failed" /\ ~LastChance /\ UNCHANGED queue
      /\ UNCHANGED <<row, journey, found, worker>>

\* The process stops, with the worker at any point and the handlers at theirs.
Crash ==
  /\ cuts < MaxCuts /\ cuts' = cuts + 1
  /\ held' = Resting
  /\ lapsed' = lapsed \cup ({req[r] : r \in Requests} \ {NoMention})
  /\ req' = [r \in Requests |-> NoMention] /\ listed' = {}
  /\ UNCHANGED <<row, queue, world, decision, raced, decisions, journey, found, unwritten, received, retries>>

-----------------------------------------------------------------------------
(* The moderators *)

\* retryJob revives a dead job, unless its key is live elsewhere.
Retry(m) ==
  /\ dead[m] > 0 /\ ~job[m].live /\ retries < MaxRetries /\ retries' = retries + 1
  /\ dead' = [dead EXCEPT ![m] = @ - 1]
  /\ job' = [job EXCEPT ![m] = [live |-> TRUE, attempts |-> 0]]
  /\ UNCHANGED <<row, world, endpoint, held, moderators, journey, found, unwritten, lapsed, received, cuts>>

\* AwaitingModeration.
AwaitingModeration ==
  /\ listed' = {m \in Incoming : row[m] = "verified"} /\ listed' # listed
  /\ UNCHANGED <<row, queue, world, endpoint, held, decision, raced, decisions, journey, found,
                 lapsed, unwritten, retries, cuts>>

\* Decide, on what the moderator saw; the state of the row is not asked.
Decide(m, state) ==
  /\ m \in listed /\ decisions < MaxDecisions /\ decisions' = decisions + 1
  /\ row' = [row EXCEPT ![m] = state]
  /\ listed' = listed \ {m}
  /\ decision' = [decision EXCEPT ![m] = state]
  /\ raced' = IF held.m = m /\ held.pc \in {"fetch", "write"} THEN raced \cup {m} ELSE raced
  /\ UNCHANGED <<queue, world, endpoint, held, journey, found, unwritten, lapsed, retries, cuts>>

\* The page that mentions us changes.
Change(m, answer) ==
  /\ page[m] # answer /\ changes < MaxChanges /\ changes' = changes + 1
  /\ page' = [page EXCEPT ![m] = answer]
  /\ UNCHANGED <<row, queue, endpoint, held, moderators, journey, found, unwritten, lapsed, retries, cuts>>

Init ==
  /\ row = [m \in Mentions |-> "none"] /\ page \in [Incoming -> Pages]
  /\ req = [r \in Requests |-> NoMention]
  /\ job = [m \in Mentions |-> NoJob] /\ dead = [m \in Mentions |-> 0] /\ held = Resting
  /\ listed = {} /\ journey = [m \in Outgoing |-> "none"]
  /\ decision = [m \in Incoming |-> "none"] /\ raced = {} /\ found = {} /\ lapsed = {} /\ unwritten = {}
  /\ received = 0 /\ changes = 0 /\ decisions = 0 /\ retries = 0 /\ cuts = 0

Next ==
  \/ \E r \in Requests : (\E m \in Incoming : Receive(r, m)) \/ QueueVerify(r) \/ Fail(r)
  \/ \E m \in Mentions : Claim(m) \/ Retry(m)
  \/ \E m \in Outgoing : QueueSend(m)
  \/ ReadMention \/ Fetch \/ Write
  \/ RecordSend \/ Discover \/ Post \/ Sent \/ Record \/ Settle
  \/ Crash \/ AwaitingModeration
  \/ \E m \in Incoming : \/ \E state \in {"approved", "rejected"} : Decide(m, state)
                         \/ \E answer \in Pages : Change(m, answer)

Spec == Init /\ [][Next]_vars

-----------------------------------------------------------------------------
(* Properties *)

\* The worker's job stays live while the worker has it, whatever handlers and
\* moderators do to the queue meanwhile, and a job is only claimed beyond its
\* attempts when a worker died with it.
TypeOK ==
  /\ \A m \in Incoming : row[m] \in States
  /\ \A m \in Outgoing : row[m] \in {"none", "pending", "approved", "failed"}
  /\ held # Resting => job[held.m].live
  /\ \A m \in Mentions : job[m].attempts <= MaxAttempts + cuts

\* A mention that waits for its verification has a job, live or dead: repeated
\* notifications, failures and crashes lose none.  The exceptions are the client
\* that hangs up and the notification that comes while the job of the former
\* one is being closed.
Unforgotten ==
  \A m \in Incoming :
    row[m] = "pending" /\ m \notin lapsed /\ (\A r \in Requests : req[r] # m) =>
      job[m].live \/ dead[m] > 0

\* What a moderator decided stays decided until the mention is received again;
\* only a verification that was under way at that moment overwrites it.  And
\* nothing appears below a post that was never seen to link to it.
DecisionStands ==
  \A m \in Incoming :
    /\ decision[m] # "none" /\ m \notin raced => row[m] = decision[m]
    /\ row[m] = "approved" => m \in found

\* The journey of a post agrees with itself, through retries, revivals and
\* crashes between any two statements: once nobody is at work on a mention, its
\* row and the last entry of the ledger tell the same end of it.  The exception
\* is a last attempt of which a statement failed, which Send does not tell from
\* a refusal and send only logs.
JourneyAgrees ==
  \A m \in Outgoing : ~job[m].live /\ row[m] # "none" /\ m \notin unwritten =>
    \/ row[m] = "approved" /\ journey[m] = "ok"
    \/ row[m] = "failed" /\ journey[m] \in {"gave up", "rejected"}

=============================================================================
