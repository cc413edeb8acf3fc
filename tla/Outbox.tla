------------------------------- MODULE Outbox -------------------------------
(***************************************************************************)
(* What becomes of a post of one account: internal/publish keeps it,       *)
(* internal/web queues what followers and the answered author are told,    *)
(* the delivery worker sends it and internal/ledger records how it went.   *)
(*                                                                         *)
(* A handler is a sequence of SQL statements, each one atomic, and each    *)
(* one an action here; two handlers interleave between any two of them,    *)
(* and a lost connection or a crash stops one there.  Due times, leases,   *)
(* back-off and the purge are those of Jobs: here any live job may be      *)
(* next.  A text is a number, the second of an edit is a stamp later than  *)
(* the one the handler read.  Observations of a post converge as in        *)
(* Convergence: the latest stamp is listed.                                *)
(***************************************************************************)
EXTENDS Integers, FiniteSets

CONSTANTS
  Posts,        \* row ids
  Requests,     \* handlers that can run at the same time
  Inboxes,      \* where followers are reached
  Abroad,       \* the inbox of the author a reply answers
  Web,          \* the page a reply answers, as the target of a webmention
  Visibilities, \* what the form offers
  Answers,      \* what a post may answer: nothing, a post abroad, a web page
  Ceiling,      \* fanOutCeiling
  MaxStamp,     \* bound: the last second in which something is edited
  MaxAttempts,  \* DefaultMaxAttempts
  MaxOps,       \* bound: handlers that are run
  MaxCuts,      \* bound: requests and runs that end half way, statements that fail
  MaxFollows,   \* bound: how often the followers change
  MaxClaims,    \* bound: runs of the delivery worker
  MaxEvents     \* bound: the four together

VARIABLES
  post,       \* the table of posts
  observed,   \* the observations IngestItem recorded of each post
  followers,  \* the inboxes of table follower
  req,        \* the handlers under way
  jobs,       \* the deliveries of table job
  held,       \* the job the worker is running, and how its attempt went
  journey,    \* the ledger: post, target and outcome of every attempt
  unlogged,   \* the jobs an attempt of which has no line in it (history)
  heard,      \* what the far side was told (history)
  owed,       \* what the last fan-out of a post was, for whom, and whom it
              \* left out over the ceiling or lost (history)
  cut,        \* posts a handler of which ended half way (history)
  raced,      \* posts two handlers worked on at the same time (history)
  ops, follows, cuts, claims

vars == <<post, observed, followers, req, jobs, held, journey, unlogged, heard, owed,
          cut, raced, ops, follows, cuts, claims>>

NoPost == [row |-> FALSE, guid |-> FALSE, vis |-> "public", answers |-> "nothing",
           text |-> 0, stamp |-> 0, gone |-> FALSE]
Idle == [pc |-> "idle", p |-> 0, copy |-> NoPost, kind |-> "create", todo |-> {}]
None == [inbox |-> Web]

Kinds == {"create", "update", "delete", "reply", "mention"}
Job == [inbox: Inboxes \cup {Web}, post: Posts, kind: Kinds \ {"reply"}, stamp: 0..MaxStamp,
        text: Nat, attempts: Nat, state: {"live", "done", "dead"}]

Public(p) == p.vis = "public"

\* Mutant: everything leaves.
FederatesAll(p) == TRUE

Federates(p) == p.vis # "private"

-----------------------------------------------------------------------------
(* The queue *)

\* The idempotency key: the inbox and the id of the activity.
Key(j) == [inbox |-> j.inbox, post |-> j.post, kind |-> j.kind, stamp |-> j.stamp]

\* The unique index on the keys of jobs neither done nor dead.
KeyLive(j) == \E k \in jobs : k.state = "live" /\ Key(k) = Key(j)

\* enqueueDelivery: a job whose inbox and activity id wait already is dropped.
Enqueued(j) == IF KeyLive(j) THEN jobs ELSE jobs \cup {j}

\* Mutant: the id of an edit does not say when it was made.
ActivityUndated(inbox, r, kind) ==
  [inbox |-> inbox, post |-> r.p, kind |-> kind, stamp |-> 0,
   text |-> IF kind = "delete" THEN 0 ELSE r.copy.text, attempts |-> 0, state |-> "live"]

\* The activity's id names the post, what happened to it and, for an edit, when.
\* A Delete carries a tombstone instead of the text.
Activity(inbox, r, kind) ==
  [inbox |-> inbox, post |-> r.p, kind |-> kind,
   stamp |-> IF kind = "update" THEN r.copy.stamp ELSE 0,
   text |-> IF kind = "delete" THEN 0 ELSE r.copy.text,
   attempts |-> 0, state |-> "live"]

-----------------------------------------------------------------------------
(* The handlers.  Whoever asks for somebody else's post is refused, except *)
(* that a moderator may withdraw it; that changes nothing.                 *)

Busy(p) == \E r \in Requests : req[r].pc # "idle" /\ req[r].p = p

\* The bounds.
Room == ops + cuts + follows + claims < MaxEvents

Start(r, p, pc, copy, kind) ==
  /\ req[r] = Idle /\ ops < MaxOps /\ Room /\ ops' = ops + 1
  /\ req' = [req EXCEPT ![r] = [pc |-> pc, p |-> p, copy |-> copy, kind |-> kind, todo |-> {}]]
  /\ raced' = IF Busy(p) THEN raced \cup {p} ELSE raced

Goto(r, pc) == req' = [req EXCEPT ![r].pc = pc]
Finish(r) == req' = [req EXCEPT ![r] = Idle]

\* CreateVisible: the row is inserted with an empty guid, which the unique
\* index admits once.  An empty or oversized text, and a second empty guid,
\* are refused without a change.
CreateVisible(r, p, vis, answers) ==
  LET new == [NoPost EXCEPT !.row = TRUE, !.vis = vis, !.answers = answers, !.text = 1]
  IN  /\ ~post[p].row /\ \A q \in Posts : q < p => post[q].row
      /\ \A q \in Posts : post[q].row => post[q].guid
      /\ Start(r, p, "guid", [new EXCEPT !.guid = TRUE], "create")
      /\ post' = [post EXCEPT ![p] = new]
      /\ UNCHANGED <<observed, followers, jobs, held, journey, unlogged, heard, owed, cut,
                     follows, cuts, claims>>

\* Mutant: the row keeps its empty guid.
SetGuidOnCopy(r) ==
  /\ req[r].pc = "guid"
  /\ Goto(r, "project")
  /\ UNCHANGED <<ops, post, observed, followers, jobs, held, journey, unlogged, heard, owed, cut, raced,
                 follows, cuts, claims>>

\* Its second statement.
SetGuid(r) ==
  /\ req[r].pc = "guid"
  /\ post' = [post EXCEPT ![req[r].p].guid = TRUE]
  /\ Goto(r, "project")
  /\ UNCHANGED <<ops, observed, followers, jobs, held, journey, unlogged, heard, owed, cut, raced,
                 follows, cuts, claims>>

\* project: a public post becomes an observation of the account's own feed.
Projected(p, copy) ==
  IF Public(copy)
  THEN [observed EXCEPT ![p] = @ \cup {[stamp |-> copy.stamp, text |-> copy.text]}]
  ELSE observed

Project(r) ==
  /\ req[r].pc = "project"
  /\ observed' = Projected(req[r].p, req[r].copy)
  /\ Goto(r, IF req[r].kind = "create" THEN "refresh" ELSE "fan")
  /\ UNCHANGED <<ops, post, followers, jobs, held, journey, unlogged, heard, owed, cut, raced,
                 follows, cuts, claims>>

\* attachToPost and RefreshProjection: the row is read again, with its media;
\* when that fails the handler goes on with the copy it has.
RefreshProjection(r) ==
  LET p == req[r].p
  IN  /\ req[r].pc = "refresh"
      /\ \/ /\ observed' = Projected(p, post[p])
            /\ req' = [req EXCEPT ![r].pc = "fan", ![r].copy = post[p]]
         \/ /\ UNCHANGED observed
            /\ Goto(r, "fan")
      /\ UNCHANGED <<ops, post, followers, jobs, held, journey, unlogged, heard, owed, cut, raced,
                     follows, cuts, claims>>

\* ownPost and ByID: what submitEdit and withdrawPost find.
OwnPost(p) == post[p].row /\ ~post[p].gone

\* micropubUpdate and micropubDelete look the post up by its guid and do not
\* ask whether it was withdrawn.
ByGUID(p) == post[p].row /\ post[p].guid

\* submitWrite: any visibility.
SubmitWrite(r, p) == \E vis \in Visibilities, answers \in Answers : CreateVisible(r, p, vis, answers)

\* micropubCreate has no field for it.
MicropubCreate(r, p) == \E answers \in Answers : CreateVisible(r, p, "public", answers)

\* The first statement of Update, which reads the row.
BeginEdit(r, p) ==
  /\ Start(r, p, "edit", post[p], "update")
  /\ UNCHANGED <<post, observed, followers, jobs, held, journey, unlogged, heard, owed, cut,
                 follows, cuts, claims>>

\* Update's statement: later than what was read, by a second if need be.  It
\* names the row by its id alone.
Update(r) ==
  LET p == req[r].p
      edited(s) == [post[p] EXCEPT !.text = @ + 1, !.stamp = s]
  IN  /\ req[r].pc = "edit"
      /\ \E s \in (req[r].copy.stamp + 1)..MaxStamp :
           /\ post' = [post EXCEPT ![p] = edited(s)]
           /\ req' = [req EXCEPT ![r].pc = "project", ![r].copy = edited(s)]
      /\ UNCHANGED <<ops, observed, followers, jobs, held, journey, unlogged, heard, owed, cut, raced,
                     follows, cuts, claims>>

\* The first statement of Delete.
BeginWithdraw(r, p) ==
  /\ Start(r, p, "withdraw", post[p], "delete")
  /\ UNCHANGED <<post, observed, followers, jobs, held, journey, unlogged, heard, owed, cut,
                 follows, cuts, claims>>

SubmitEdit(r, p) == OwnPost(p) /\ BeginEdit(r, p)
MicropubUpdate(r, p) == ByGUID(p) /\ BeginEdit(r, p)
WithdrawPost(r, p) == OwnPost(p) /\ BeginWithdraw(r, p)
MicropubDelete(r, p) == ByGUID(p) /\ BeginWithdraw(r, p)

\* Delete marks the row; the observation stays.
Delete(r) ==
  /\ req[r].pc = "withdraw"
  /\ post' = [post EXCEPT ![req[r].p].gone = TRUE]
  /\ req' = [req EXCEPT ![r].pc = "fan", ![r].copy.gone = TRUE]
  /\ UNCHANGED <<ops, observed, followers, jobs, held, journey, unlogged, heard, owed, cut, raced,
                 follows, cuts, claims>>

\* One statement fails that the handler logs and goes on without.
Slip == cuts < MaxCuts /\ Room /\ cuts' = cuts + 1

\* FanOut, AnnounceEdit and AnnounceWithdrawal: broadcast reads the followers
\* and takes as many as the ceiling allows; when they cannot be read it
\* returns, and nobody learns of it.
Broadcast(r) ==
  LET p == req[r].p
      to == IF Federates(req[r].copy) THEN followers ELSE {}
      fan(some, lost) ==
        /\ req' = [req EXCEPT ![r].pc = "queue", ![r].todo = some]
        /\ owed' = [owed EXCEPT ![p] = [to |-> to, kind |-> req[r].kind,
                                        left |-> (to \ some) \ lost, lost |-> lost]]
  IN  /\ req[r].pc = "fan"
      /\ \/ /\ \E some \in SUBSET to :
                /\ Cardinality(some) = Ceiling \/ (some = to /\ Cardinality(to) < Ceiling)
                /\ fan(some, {})
            /\ UNCHANGED cuts
         \/ Federates(req[r].copy) /\ Slip /\ fan({}, to)
      /\ UNCHANGED <<ops, post, observed, followers, jobs, held, journey, unlogged, heard, cut, raced,
                     follows, claims>>

\* The loop over the inboxes; an insert that fails is logged and skipped.
EnqueueOne(r) ==
  /\ req[r].pc = "queue"
  /\ \E i \in req[r].todo :
       /\ req' = [req EXCEPT ![r].todo = @ \ {i}]
       /\ \/ jobs' = Enqueued(Activity(i, req[r], req[r].kind)) /\ UNCHANGED <<owed, cuts>>
          \/ Slip /\ owed' = [owed EXCEPT ![req[r].p].lost = @ \cup {i}] /\ UNCHANGED jobs
  /\ UNCHANGED <<ops, post, observed, followers, held, journey, unlogged, heard, cut, raced,
                 follows, claims>>

\* ReplyAbroad, under the same id as the Create; the author answered may not
\* be found or reached, or the insert fails.
ReplyAbroad(r) ==
  /\ req[r].pc = "queue" /\ req[r].todo = {} /\ req[r].kind = "create"
  /\ \/ /\ Federates(req[r].copy) /\ req[r].copy.answers = "abroad"
        /\ jobs' = Enqueued(Activity(Abroad, req[r], "create"))
     \/ UNCHANGED jobs
  /\ Goto(r, "mention")
  /\ UNCHANGED <<ops, post, observed, followers, held, journey, unlogged, heard, owed, cut, raced,
                 follows, cuts, claims>>

\* afterPublish: the page a public post answers is sent a webmention, unless
\* the insert fails because the client has gone or the disk is full.
AfterPublish(r) ==
  LET answering == Public(req[r].copy) /\ req[r].copy.answers # "nothing"
  IN  /\ req[r].pc = "mention"
      /\ \/ /\ jobs' = IF answering THEN Enqueued(Activity(Web, req[r], "mention")) ELSE jobs
            /\ UNCHANGED cuts
         \/ answering /\ Slip /\ UNCHANGED jobs
      /\ Finish(r)
      /\ UNCHANGED <<ops, post, observed, followers, held, journey, unlogged, heard, owed, cut, raced,
                     follows, claims>>

\* afterEdit and afterWithdraw send none.
AfterEdit(r) ==
  /\ req[r].pc = "queue" /\ req[r].todo = {} /\ req[r].kind # "create"
  /\ UNCHANGED jobs
  /\ Finish(r)
  /\ UNCHANGED <<ops, post, observed, followers, held, journey, unlogged, heard, owed, cut, raced,
                 follows, cuts, claims>>

\* A statement fails, because the client went away or the disk is full: the
\* handler answers with an error.  The fan-out does not depend on the client.
Fail(r) ==
  /\ req[r].pc \in {"guid", "project", "edit", "withdraw"}
  /\ req[r].pc = "project" => Public(req[r].copy)
  /\ Slip /\ cut' = cut \cup {req[r].p}
  /\ Finish(r)
  /\ UNCHANGED <<ops, post, observed, followers, jobs, held, journey, unlogged, heard, owed, raced,
                 follows, claims>>

\* The process stops; the job that was held is claimed again.
Crash ==
  /\ Slip
  /\ cut' = cut \cup {req[r].p : r \in {s \in Requests : req[s].pc # "idle"}}
  /\ req' = [r \in Requests |-> Idle] /\ held' = None
  /\ UNCHANGED <<ops, post, observed, followers, jobs, journey, unlogged, heard, owed, raced,
                 follows, claims>>

\* acceptFollow and undo, which the inbox runs at any time.
Follow(i) ==
  /\ follows < MaxFollows /\ Room /\ follows' = follows + 1
  /\ followers' = IF i \in followers THEN followers \ {i} ELSE followers \cup {i}
  /\ UNCHANGED <<ops, post, observed, req, jobs, held, journey, unlogged, heard, owed, cut, raced,
                 cuts, claims>>

-----------------------------------------------------------------------------
(* The delivery worker: one goroutine *)

\* Whatever the number of its attempts: a run that was lost counts as one.
Claim ==
  /\ held = None /\ claims < MaxClaims /\ Room /\ claims' = claims + 1
  /\ \E j \in jobs :
       LET mine == [j EXCEPT !.attempts = @ + 1]
       IN  /\ j.state = "live"
           /\ jobs' = (jobs \ {j}) \cup {mine}
           /\ held' = [inbox |-> j.inbox, job |-> mine, outcome |-> "none"]
  /\ UNCHANGED <<ops, post, observed, followers, req, journey, unlogged, heard, owed, cut, raced,
                 follows, cuts>>

\* The operator's retryJob puts a dead job back under the unique index, which
\* refuses it while its key is live again.
Retry ==
  /\ \E j \in jobs :
       /\ j.state = "dead" /\ ~KeyLive(j)
       /\ jobs' = (jobs \ {j}) \cup {[j EXCEPT !.state = "live", !.attempts = 0]}
  /\ UNCHANGED <<ops, post, observed, followers, req, held, journey, unlogged, heard, owed, cut, raced,
                 follows, cuts, claims>>

LastChance(j) == j.attempts >= MaxAttempts

\* An attempt of the job that is held has begun and is not over.
Trying == held # None /\ held.outcome = "none"

Unlogged == Slip /\ unlogged' = unlogged \cup {Key(held.job)} /\ UNCHANGED journey

\* The insert into the ledger; when it fails, that is logged.
Record(outcome) ==
  LET j == held.job
  IN  /\ \/ /\ journey' = journey \cup {[post |-> j.post, target |-> j.inbox, outcome |-> outcome]}
            /\ UNCHANGED <<unlogged, cuts>>
         \/ Unlogged
      /\ held' = [held EXCEPT !.outcome = outcome]
      /\ UNCHANGED <<ops, post, observed, followers, req, jobs, owed, cut, raced, follows, claims>>

\* deliverActivity and send, as far as the ledger: the far side took it ...
Deliver ==
  /\ Trying
  /\ heard' = heard \cup {[inbox |-> held.inbox, post |-> held.job.post,
                           kind |-> held.job.kind, text |-> held.job.text]}
  /\ Record("ok")

\* ... or did not, or had no endpoint for a webmention.
Refuse ==
  /\ Trying
  /\ \/ Record(IF LastChance(held.job) THEN "gaveup" ELSE "failed")
     \/ held.inbox = Web /\ Record("rejected")
  /\ UNCHANGED heard

\* deliverActivity returns before it comes to the ledger: the account's key
\* could not be read.  A webmention is not signed.
NoKey ==
  /\ Trying /\ held.inbox # Web
  /\ Unlogged
  /\ held' = [held EXCEPT !.outcome = "failed"]
  /\ UNCHANGED <<ops, post, observed, followers, req, jobs, heard, owed, cut, raced, follows, claims>>

\* Mutant: a webmention without an endpoint counts as a failure of the run.
OnceFailing ==
  /\ held # None /\ held.outcome # "none"
  /\ jobs' = (jobs \ {held.job}) \cup
       {[held.job EXCEPT !.state = IF held.outcome = "ok" THEN "done"
                                   ELSE IF LastChance(held.job) THEN "dead" ELSE "live"]}
  /\ held' = None
  /\ UNCHANGED <<ops, post, observed, followers, req, journey, unlogged, heard, owed, cut, raced,
                 follows, cuts, claims>>

\* The end of once: Done or Fail.
Once ==
  /\ held # None /\ held.outcome # "none"
  /\ jobs' = (jobs \ {held.job}) \cup
       {[held.job EXCEPT !.state = IF held.outcome \in {"ok", "rejected"} THEN "done"
                                   ELSE IF LastChance(held.job) THEN "dead" ELSE "live"]}
  /\ held' = None
  /\ UNCHANGED <<ops, post, observed, followers, req, journey, unlogged, heard, owed, cut, raced,
                 follows, cuts, claims>>

-----------------------------------------------------------------------------
(* What readers see *)

\* ByHandle, Recent and Replies, the queries behind every feed and the outbox.
InFeed(p) == post[p].row /\ ~post[p].gone /\ Public(post[p])

\* postPage: whoever is not the author or a moderator is shown public posts.
Page(p, who) == post[p].row /\ ~post[p].gone /\ (Public(post[p]) \/ who = "author")

\* journey and the title of repliesFeed: the row of that number.
JourneyPage(p) == post[p].row

\* micropubConfig, before it asks for a token: the row of that guid.
MicropubSource(p) == ByGUID(p)

\* writeData: the post that is answered, for whoever has an account.
AnswerForm(p, who) == ByGUID(p) /\ who # "stranger"

\* The observation the timeline lists.
Listed(p) == {o.text : o \in {o \in observed[p] : \A q \in observed[p] : q.stamp <= o.stamp}}

\* Where `who` is shown a post.
Shown(p, who) ==
  {place \in {"feed", "timeline", "page", "journey", "source", "answer"} :
     CASE place = "feed" -> InFeed(p)
       [] place = "timeline" -> observed[p] # {}
       [] place = "page" -> Page(p, who)
       [] place = "journey" -> JourneyPage(p)
       [] place = "source" -> MicropubSource(p)
       [] place = "answer" -> AnswerForm(p, who)}

-----------------------------------------------------------------------------
Init ==
  /\ post = [p \in Posts |-> NoPost]
  /\ observed = [p \in Posts |-> {}]
  /\ followers \in SUBSET Inboxes
  /\ req = [r \in Requests |-> Idle]
  /\ jobs = {} /\ held = None /\ journey = {} /\ unlogged = {} /\ heard = {}
  /\ owed = [p \in Posts |-> [to |-> {}, kind |-> "create", left |-> {}, lost |-> {}]]
  /\ cut = {} /\ raced = {} /\ ops = 0 /\ follows = 0 /\ cuts = 0 /\ claims = 0

Next ==
  \/ \E r \in Requests, p \in Posts :
       \/ SubmitWrite(r, p) \/ MicropubCreate(r, p)
       \/ SubmitEdit(r, p) \/ MicropubUpdate(r, p)
       \/ WithdrawPost(r, p) \/ MicropubDelete(r, p)
  \/ \E r \in Requests :
       \/ SetGuid(r) \/ Project(r) \/ RefreshProjection(r) \/ Update(r) \/ Delete(r)
       \/ Broadcast(r) \/ EnqueueOne(r) \/ ReplyAbroad(r) \/ AfterPublish(r)
       \/ AfterEdit(r) \/ Fail(r)
  \/ \E i \in Inboxes : Follow(i)
  \/ Crash \/ Claim \/ Deliver \/ Refuse \/ NoKey \/ Once \/ Retry

Spec == Init /\ [][Next]_vars

-----------------------------------------------------------------------------
(* Properties *)

\* Rows, jobs and ledger keep their types, and the one row with an empty guid
\* is all the unique index lets exist.
TypeOK ==
  /\ \A p \in Posts : post[p].stamp \in 0..MaxStamp /\ post[p].vis \in Visibilities \cup {"public"}
  /\ jobs \subseteq Job
  /\ held = None \/ held.job \in jobs
  /\ followers \subseteq Inboxes
  /\ Cardinality({p \in Posts : post[p].row /\ ~post[p].guid}) <= 1

\* The places that ask neither who reads nor whether the post was withdrawn.
Unasked(who) == {"journey", "source"} \cup (IF who = "stranger" THEN {} ELSE {"answer"})

\* Nothing private is sent to another server, and a webmention only tells of a
\* public post, whatever handlers, retries and revivals interleave.  Who is not
\* the author or a moderator finds a post that is not public in no feed, not in
\* the timeline and not on its page; but in the three places that do not ask.
\* A withdrawn post stays in those and in the timeline.
Confined ==
  /\ \A j \in jobs : /\ post[j.post].vis # "private"
                     /\ j.kind = "mention" => Public(post[j.post])
  /\ \A h \in heard : post[h.post].vis # "private"
  /\ \A p \in Posts, who \in {"stranger", "account"} :
       /\ ~Public(post[p]) => Shown(p, who) \subseteq Unasked(who)
       /\ post[p].gone => Shown(p, who) \subseteq Unasked(who) \cup {"timeline"}

\* There is one row with an empty guid at most (TypeOK); it holds every later
\* post back, so it is that of a handler about to give it its own, unless that
\* handler failed.
PublishingOpen ==
  /\ TypeOK
  /\ \A p \in Posts : post[p].row /\ ~post[p].guid =>
       p \in cut \/ \E r \in Requests : req[r].p = p /\ req[r].pc = "guid"

\* Settled(p): no handler of p is under way, none failed, no two overlapped.
Settled(p) == post[p].guid /\ ~Busy(p) /\ p \notin cut \cup raced

\* Once its handlers are through, every inbox the last fan-out was for has
\* been queued that activity with the text the post now has (a Delete has
\* none): nothing is dropped as the duplicate of an older activity.  Left out
\* are those over the ceiling, which is then used up, and those whose insert
\* failed, or all of them when the followers could not be read.  And the
\* timeline lists that text, if the post is public.
Carried ==
  \A p \in Posts : Settled(p) =>
    /\ \A i \in owed[p].to \ (owed[p].left \cup owed[p].lost) : \E j \in jobs :
         /\ j.inbox = i /\ j.post = p /\ j.kind = owed[p].kind
         /\ j.text = IF j.kind = "delete" THEN 0 ELSE post[p].text
    /\ owed[p].left # {} => Cardinality(owed[p].to \ owed[p].left) = Ceiling
    /\ Public(post[p]) => Listed(p) = {post[p].text}

\* The ledger tells how every delivery ended, although it is written before
\* the job, the process may stop in between and the operator may revive a dead
\* job; but for a job an attempt of which could not be written, or failed
\* before it came to the ledger.
JourneyTells ==
  \A j \in jobs :
    LET told(outcome) == [post |-> j.post, target |-> j.inbox, outcome |-> outcome] \in journey
    IN  \/ Key(j) \in unlogged
        \/ /\ j.state = "dead" => told("gaveup")
           /\ j.state = "done" => \/ told("rejected")
                                  \/ told("ok") /\ [inbox |-> j.inbox, post |-> j.post,
                                                    kind |-> j.kind, text |-> j.text] \in heard

=============================================================================
