# A TLA+ model of rss-expert

rss-expert is a single Go process with one SQLite database: a feed reader, a
blog and a member of the fediverse and of the IndieWeb.  This directory holds a
TLA+ model of the parts that decide what the reader shows and what other
servers are told, the TLC runs that check small instances of them, and TLAPS
proofs of the central invariants for instances of any size.

`PROJECT.json` lists, for every definition that models code, the lines it
models; every run, its properties and, per property, a mutation of the model
that breaks it; the hazards the properties are aimed at; and the findings.

## 1. The system

One process (`cmd/rss-expert/serve.go`) starts one HTTP server, one poller, one
delivery worker and one hourly upkeep loop.  All of them write through a pool
of exactly one SQLite write connection (`internal/store`), so a single SQL
statement is atomic and durable; almost nothing uses a transaction, so an
operation of several statements can be interleaved with any other at every
statement boundary and can be cut off there by an error, a cancelled request
or a crash.  That is the atomicity assumed throughout.

| Component | State | Operations | Talks to | What is hard, what makes it right |
|---|---|---|---|---|
| jobs | table `job` | Enqueue, Claim, Done, Fail, Retry, PurgeDone | every producer of deliveries; the delivery worker | leases, crashes between Claim and Done; a job has one runner, its fate is decided by it, at most one live row per key, none is lost |
| convergence | none | Resolve | ingest | the version shown does not depend on the order of arrival |
| ingest | `source`, `raw_payload`, `observation`, `logical_item`, `item_search` | Ingest, IngestItem, Converge, AddSource, RemoveSource, PurgeExpiredPayloads | poller, push, publishing, inbox, subscription page, upkeep | concurrent unprotected read-then-write; the listed item is the best observation, evidence is kept |
| poller | scheduling columns of `source` | Once, Fetch, RecordFetch, Due, MarkPushed | ingest, the web | validators, back-off, concurrent refresh; a change of a feed is eventually read |
| publishing | table `post`, `handle` of `account` | create, edit, withdraw, EnsureHandle | ingest, ActivityPub, webmention | several statements per operation, cut off or overlapping; what is private stays here, what is shown and sent is the last text |
| delivery worker, ledger | table `delivery_attempt` | once, verify, send, deliverActivity, Record | jobs, webmention, ActivityPub | an attempt is recorded before its job is closed; the ledger tells how a delivery ended |
| ActivityPub out | `follower` | fan-out of Create, Update and Delete, replies abroad | publishing, jobs | deduplication by activity id must not swallow an edit |
| ActivityPub in | `follower`, `reaction`, `inbox_seen`, actor cache | inbox, Follow, Undo, Like, Create | jobs, moderation | deduplication before processing, overtaking and repeated activities, rotated keys |
| webmention | table `webmention` | Receive, VerifyIncoming, Decide, Send | jobs, ledger, moderators | verification racing moderation and the page itself |
| push | hub subscribers, intents, leases | Intend, Confirm, Verified, Distribute, renewals, leaving | poller, ingest | two parties with a message in flight; what either believes, and for how long |
| identity | accounts, sessions, links, second factor, invitations | sign in, recover, confirm, enrol, register | web | single use, revocation, overlapping tabs |
| sites | table `site` | Claim, Verify, Release | the web | checks separate from writes, numbers of rows that come back |
| moderation | reports, blocks, audit log | Report, Decide, Block, Lift | reader, inbox | the log and the tables are two statements |
| media, backup | files, `media`, backup directories | Put, Attach, Take, Restore | publishing | a file and its row, a quota read before it is used, a snapshot of what moves |
| reading | `read_mark`, collections | Select, Mark, MarkAll | ingest, moderation | paging through what changes |

The components not modelled are listed in `PROJECT.json` and in section 7, with
the reason.

## 2. Modules

- `Jobs` models `internal/jobs`: `rows` and `job` are the table, `held[w]` is
  the copy of the row a worker got from `Claim` and passes to `Done` or `Fail`.
  Each operation of `Queue` is one SQL statement and therefore one action.
  `Abandon` is a run that never reports back: a crash, or a shutdown, which
  cancels the context that `Done` and `Fail` write with.  The wall clock is a
  variable; `Tick` does not let a handler run longer than `HandlerLimit`.
- `JobBoard` is the abstract specification: a job is posted, taken by a
  worker, and settled, released or given up by that worker alone; what is
  settled disappears, what was given up can be revived.  It has neither leases
  nor attempts nor time.
- `Convergence` models `internal/convergence`: `Beats` and `Reason` are the
  rules, `Best` the loop and `Resolve` the decision.  It has no state;
  `MCConvergence` enumerates readings by adding them one at a time.
- `Ingest` models `internal/ingest` at the granularity of SQL statements: an
  actor is one of the goroutines that call it, and `op[a].pc` names the
  statement it executes next, the other fields of `op[a]` are the locals that
  survive from one statement to the next.  It uses `Convergence` for the
  decision.  `Step` is the code; `Next` adds the history `crossed`, which no
  action reads.  Foreign keys are modelled by what they do: an upsert or an insert
  that violates one is an error that cuts the operation off, and deleting a
  source cascades to its observations unless one of them is a winner.
- `Poller` models `internal/poller` and the scheduling columns of `source`: a
  sweep (`Sweep`, `Take`, `EndSweep`), the steps of a `Fetch` (`Ask`, `Store`,
  and the two statements of `RecordFetch`, `Count` and `Write`), `MarkPushed`,
  and everybody else who calls `Fetch` or `Ingest` for a source: the pages
  (`Subscribe`, `Refresh`), the command line (`Refresh`), a cloud's ping
  (`Refresh` with kind `cloud`) and a hub's delivery (`AcceptPush`).  A feed is
  a sequence of versions, which stand for bytes and validators; `Ingest` is
  one step here that keeps a version or fails, its inside is the module
  `Ingest`.  A server may or may not send a validator.  Time is counted in
  sweep intervals and relative to the present, so no clock grows.

What the instance exchanges with others, composed in `Federation`:

- `Outbox` follows a post from the form or a micropub request to the
  followers.  `post` is the table, `req[r]` a handler: `pc` is its next
  statement and `copy` the row as it read it.  `CreateVisible`, `SetGuid`,
  `Project`, `RefreshProjection`, `Update` and `Delete` are the statements of
  `internal/publish`; `Broadcast`, `EnqueueOne`, `ReplyAbroad` and
  `AfterPublish` those of the fan-out, which also goes on without the followers
  it cannot read and the jobs it cannot insert; `Claim`, `Deliver`, `Refuse`,
  `NoKey` and `Once` the worker, with the order attempt, ledger, job; `Retry` the
  operator.  `journey` is the ledger, `heard` what the far side was told, and the
  history `unlogged` names the jobs an attempt of which has no line in the
  ledger: `NoKey` returns before it, and an insert may fail.  `Fail` and `Crash`
  cut handlers off.  `Shown` is where somebody finds a post: the feeds, the
  timeline and its page, and three places that read it by id or guid and ask
  neither who reads nor whether it was withdrawn (`JourneyPage`,
  `MicropubSource`, `AnswerForm`).  Leases and back-off are in `Jobs`: here any
  live job may be the next.
- `Push` is two instances of the program, one the hub (WebSub) and cloud
  (rssCloud) of a topic, the other its follower.  The follower keeps a row of
  the topic, the hub a row of the subscriber; requests, the hub's questions and
  deliveries travel between them, are lost, and cross.  The upkeep renews what is
  due (`RenewPush`), or does not come to this lease (`PassOver`): its query takes
  50 rows and names no order.
- `Inbox` is one account's inbox: authentication against a cached key,
  deduplication, and the handlers of Follow, Undo, Like, Announce and Create by
  statements, against senders that repeat an activity until it is acknowledged,
  rotate keys and may be blocked.

What the instance keeps for its own people, composed in `Services`:

- `Sessions`: signing in by password and by link, recovery, confirmation of
  identity, cookies.  `tab[t]` is a request with the cookie it was sent with and
  the password there was when it was let in, which `CreateSession` does not look
  at again; `overtaken` are the sign-ins the last recovery found at that point.
- `SecondFactor`: codes, enrolment and recovery codes, statement by statement.
- `Registration`: open registration, invitations and the first owner.
- `Handles`: `EnsureHandle`, called by overlapping requests of accounts whose
  candidates collide; the unique index decides each try.
- `Sites`: claims, verifications and releases that read before they write.
- `Media`: quota, file and row of an upload, and what a post may attach.
- `Backup` extends `Media`: taking a snapshot while uploads go on, two takers in
  one directory, restoring.
- `Moderation`: blocks, reports, decisions and their log.
- `Reading`: the query of the timeline with its filters, order and cutoff, a
  reader who follows the links, marks and collections.
- `Mentions`: both directions of webmentions with their jobs and the ledger.
  `unwritten` are the mentions we send a statement of whose last attempt failed:
  `Send` discards the error of the one that writes a failure.

`Federation` and `Services` instantiate these modules and compose them by
choice: a behaviour is one of one part, `part` says of which, and the variables
only other parts have are 0.  Parts that use a name for the same thing (`req`,
`cut`, `now`) share the variable.  The parts work on tables of their own and no
property is about two of them, so interleaving them would multiply states and
show nothing.  Where parts do share state they are one module (`Backup` extends
`Media`, `Outbox` has the publisher, the queue and the worker).  The two modules
also state what the proofs suppose of the constants, each as a named ASSUME that
TLC evaluates in the runs, and the properties of the parts under one name each;
`MCFederation` and `MCServices` only give the constants values.

`JobsProofs`, `ConvergenceProofs`, `IngestProofs`, `PollerProofs`,
`OutboxProofs`, `AccountsProofs`, `RecordsProofs` and `PeersProofs` hold the
theorems.

## 3. Runs

| Run | Bounds | Shows |
|---|---|---|
| `MCJobs` | 2 rows, 2 workers, 1 key (and none), 2 attempts, arrivals until 5, clock to 22, 1 lost run, 1 revival | no shared job, no stale completion, one live job per key, attempts bounded, refinement of `JobBoard`, every job done or dead in the end |
| `MCConvergence` | every field in 0..1, up to 3 readings | winner and reason against their definitions, independence of order |
| `MCIngestApart` | 2 actors, 2 sources, 2 keys, 2 documents of 3 items, 3 observations | under interleaving the listed item and the search row follow the observations, but for the keys two actors had in hand at once |
| `MCIngestPair` | 2 actors, 2 sources, 2 documents, 4 observations, 1 abort, 1 re-added source | foreign keys hold the tables together under interleaving |
| `MCIngestSlowPoll`, `MCIngestRemoval` | as small as the counterexample | the findings below |
| `MCPoller` | 1 source, 2 workers, 1 handler, 2 failures of any kind, intervals 3..5, 1 push, reads that outlast the ticker | bounds, one worker per source, politeness and back-off under overlapping reads |
| `MCPollerTurn` | 2 sources, batches of 1, 1 failure | no starvation |
| `MCPollerNews` | 1 source, 2 versions, 1 failure, 1 crash | a version that stays is read and kept |
| `MCPollerHealth` | as small as the counterexample | finding 3 |
| `MCFederation`, `Outbox` | 1 post, 2 handlers, 3 operations, all three visibilities, 2 inboxes and a ceiling of 1, 2 attempts, 3 claims, 1 cut or failing statement, 1 change of followers, 4 of these events in all; revivals unlimited | nothing private leaves, no stuck guid, the last text is queued and listed, the ledger tells every end |
| `MCFederation`, `Push` | either kind of hub, 3 requests of which 2 overlap, 1 lost message or lease passed over, 1 crash, 1 publication, a lease of 4 renewed from 3, clock to 5 | both sides agree after an exchange that went well, a delivery is stored, a lease is renewed in time |
| `MCFederation`, `Inbox` | 1 actor, 2 activities of 5 types, 2 attempts each, 2 handlers, 1 rotation or 1 block, 1 cut, clock to 1 | acknowledged means done, the tables say what was last said, nobody is refused without a reason |
| `MCServices`, `Sessions` | 2 tabs, 1 browser, 1 link, 2 sessions, 2 passwords, lifetimes 2 and 1, 1 fault | single use, recovery, cookies |
| `MCServices`, `SecondFactor` | 2 pages, 2 secrets, steps to 2, 2 recovery codes, 1 cut | a code once, the confirmed secret, the shown codes |
| `MCServices`, `Registration` | 2 tabs, 2 addresses, 2 codes, 2 restarts | one account per address and code, one owner |
| `MCServices`, `Handles` | 3 calls, 3 accounts, two with one name and a third with their second candidate, 2 tries | a handle stands |
| `MCServices`, `Sites` | 2 tabs, 2 accounts, 2 sites, 2 rows, 5 requests, 2 edits | one owner, verified is true, only the owner's hands |
| `MCServices`, `Media` and `Backup` | 2 tabs, 2 contents of sizes 1 and 2, quota 2 (3), 4 (2) uploads, 1 crash, 2 takers, 2 takes | quota, files behind rows, a restored backup is whole |
| `MCServices`, `Moderation` | 2 tabs, a moderator and an account, 1 value, 1 report, 4 acts, 1 cut | the log agrees with the tables |
| `MCServices`, `Reading` | 3 entries, 2 feeds, pages of 2, 3 dates, 1 event meanwhile | a reader sees all |
| `MCServices`, `Mentions` | 1 mention in, 1 out, 2 handlers, 2 attempts, 3 receipts, 1 change of the page, 2 decisions, 1 revival, 1 cut or failing statement | no mention forgotten, decisions stand, row and ledger agree |

Two workers and two rows suffice for what goes wrong in the queue (a second
claim of the same row; a second row with the same key); two attempts make the
first failure and the last one differ; the clock runs past a full lease, a
back-off and a purge, and long enough after the last arrival for every job to
settle.  In `MCIngest` the author's feed before
and after an edit and an aggregator that relays one of its items give a key
every kind of competitor: the same author's older version, another source's
copy, and none.  `MaxObs` leaves room for every distinct observation, and
actors are interchangeable.  `MCIngestApart` has a key that only one source
carries next to one both carry, so that operations cross at one key and not at
the other, and heal what they crossed; `Fail` cuts operations off there too,
when a source they read has gone.  In
`MCPoller`, whose workers are interchangeable, two failures are the fewest that
reach the back-off, an interval that doubles past the maximum and one that a
cadence would push under the minimum both occur, and the handler's read
overlaps the poller's.  `MaxLate` keeps the model finite should a source never
be read; no passing run reaches it.  `CatchesUp` is checked with one
subscription: after a re-subscription a read for the former row may record its
validator in the new one.

In `MCFederation` two handlers give every overlap of two operations on a post,
two inboxes and a ceiling of 1 a fan-out above the ceiling, at it and below, and
there is a crash and a failing statement at every point; a second attempt is the last one,
so both ends of a job occur, and a third claim comes after a lost run or a
revival.  `MaxEvents` bounds operations, claims, cuts and changes of followers
together.  A lease of 4 hours renewed from the third leaves one renewal that
comes to nothing before it runs out.  The constraint `OneEvent` keeps a rotation
and a block apart.  In `MCServices` every race is one of two requests, the third of
`Handles` lets a candidate be taken while two calls of one account are under
way; `Uncrossed` stops where two enrolments overlapped, from where
`SecondFactor` promises nothing.  Requests, accounts and takers are symmetric in
the runs that say so; no run with liveness uses symmetry.

Deadlock is not checked: bounded clocks, crashes and requests and a database in
which nothing is left to do are ordinary ends of these runs.

### Exceptions in the properties

The code is not free of races, and a property that ignored them would only be
violated.  Where a race is of the kind its authors accept, the property names
the exception and holds outside it:

- `ListedIsBest`, `SearchMirrors`: a key that two operations had in hand at once
  (`crossed`), until one begins to converge it while nobody else has it: reading,
  deciding and writing are separate statements of `Converge`, and findings 1 and
  2 are what a crossing can leave behind.  Two operations on different keys, or
  on one key after each other, are no exception.
- `PublishingOpen`, `Carried`: a handler that failed half way (`cut`) may leave
  a row with an empty guid, which blocks every later post of the instance, and
  an edit nobody is told of; `raced` posts, on which two handlers overlapped,
  may list the older text.  Beyond `Ceiling` followers hear nothing (`left`), and
  neither does one whose job could not be inserted, or anybody when the followers
  could not be read (`lost`): both are logged and skipped.
- `Confined`: the journey of a post, the source micropub shows and the post an
  answer quotes ask for no visibility and show withdrawn posts too.
- `JourneyTells`: a job an attempt of which failed before it came to the ledger,
  or whose line there could not be written (`unlogged`).
- `LeaseKept`: `RenewAt - 1` renewals that come to nothing, because the request
  was lost or the upkeep passed the lease over.  With more than 50 leases due
  nothing bounds how often it passes the same one over.
- `Recovered`: a sign-in that had been let in under the former password and had
  not come to its session when the account was recovered gets one afterwards
  (`overtaken`), and only one.
- `JourneyAgrees`: a mention a statement of whose last attempt failed
  (`unwritten`).
- `Agreed`: two verifications of one subscriber that overlap may drop it, since
  the second finds no intent; the next renewal repairs it.
- `Acknowledged`: `inbox_seen` is written first, so the retry of an activity
  whose handler failed is acknowledged and does nothing.
- `MatchesWish`: activities of one actor that overlapped or overtook each other
  (`odd`), or whose handler failed.
- `CodeOnce`, `Enrolled`, `CodesShown`: two checks or two enrolments that
  overlapped; the codes are read, compared and written in separate statements.
- `VerifiedTrue`, `OwnersOnly`: a row released while a request knew it by its
  number (`mixed`), since SQLite gives the number to the next row.
- `QuotaKept`: uploads of one account that overlapped.  `Whole`, `Restorable`: a
  file the writing of which was cut off stays partial, however often it is
  uploaded anew, and a backup may take one while two uploads of it overlap.
- `Audited`: a log entry that was lost after its statement (`lost`).
- `DecisionStands`: a verification under way when a moderator decided
  overwrites the decision.  `Unforgotten`: a notification repeated between the
  end of a verification and the end of its job finds the key live and gets no
  job; and the client that hangs up.
- `SeesAll`: a page that ended with an item whose date another item shares, that
  is listed by another date than it shows, or short of a hidden one: the link to
  older items then skips what lies between.

### Findings

1. *A slow reading can undo an edit* (`MCIngestSlowPoll`).  `Converge` resolves
   a winner from what it read and writes it later without looking again.  Two
   operations on one key can leave the older version listed.
2. *An item can vanish although another source carries it*
   (`MCIngestRemoval`).  `RemoveSource` lists the keys to reconverge before it
   deletes the rows.
3. *A cloud's ping hides a failure* (`MCPollerHealth`).  `Fetch` returns nil
   after a read that failed, and `MarkPushed` clears the failure count.

Seen while modelling, without a run: the validator of bytes that do not parse is
recorded, so the server answers 304 from then on; a `Fetch` under way while a
source is replaced ends under the new source's id; the reason stored with an
item is not refreshed while the winner stays; a payload that an observation
refers to is never purged, although `rules.html` promises thirty days; a 410 is
one more failure, although `rules.html` says "we stop"; two interleaved runs of
`index` can leave two search rows for one key.  `write.html:66-67` says of a
post for followers only that it is "kept out of every public feed" and of a
private one "only you, on this instance; it never leaves"; neither is in a feed,
but the page of its journey, micropub's answer to `q=source` and the form of an
answer show it to whoever has its number or guid, and a withdrawn one as well
(`Unasked` in `Outbox`).  `journey.html:14` "does not hide the parts that
failed"; an attempt for which the account's key could not be read has no part
there.  A sign-in checked against the former password before a recovery gets its
session after it.

## 4. Fairness

`MCJobs` assumes weak fairness of the clock, of `Claim` and of a handler's
return.  The delivery worker's loop never ends and sweeps at least every 15
seconds, a handler's requests time out after 30 seconds each, and `Prompt`
says that a free worker takes a due job before the next tick, which the
wake-up channel and the sweep give.

`MCPollerTurn` and `MCPollerNews` assume weak fairness of the poller's loop and
of each goroutine's next step, because the loop never ends and every request
times out after 30 seconds, and strong fairness of `Tick`: time goes on however
many requests arrive.  `Tick` lets no minute pass while the poller could begin
or end a sweep or a worker could take a source, and no `Fetch` outlasts
`FetchLimit`.  Nothing is assumed of handlers beginning, of feeds or of people.

## 5. Proofs

Eight modules, no assumption beyond those named here.

`JobsProofs` proves type correctness, `NeverShared`, `CopyCurrent`,
`OneLivePerKey`, `AttemptsBounded` and the refinement of
`JobBoard` for every number of rows, workers, keys and attempts.  It assumes
`JobsAssumption` (the kinds of the constants) and `LeaseAssumption`: the
longest handler is shorter than the lease, which is what the code relies on
(two requests of 30 seconds against 5 minutes).  None of the invariants is
inductive alone: `NeverShared` needs that a leased row is not claimable while
its worker runs, which is `CopyCurrent`, which needs that nobody else settles
the row, which is `NeverShared`; so they are proved together as `IInv`.

`ConvergenceProofs` proves that `Beats` is a strict order in which only
readings that agree on every compared field are equal, and for lists of any
length what the run checks up to three readings: `BestLeads` (the loop of `best`
ends at the first of the readings none beats), `OrderIrrelevant` (the version and
the reason do not depend on the order of arrival) and `ReasonDecides`.  The loop
is a recursive function and the library's induction theorems cannot be used, so
each induction is a smallest counterexample: the set of the rounds at which a
claim fails would have a least element, and the round before it refutes it.  It
assumes `TopAssumption`: the bound of the fields is a number.

`IngestProofs` has two invariants.  `IInv`, under every interleaving of any
number of operations, gives `WinnerStands` and `EvidenceKept`: it adds the shape
of a row and `SourceStands`, that an observation's source is still there, because
the deletion of a source cascades in the same statement.

`ApartInv`, under the same interleavings, gives `ListedIsBest` and
`SearchMirrors`.  What one operation knows of a key between two statements is
true only as long as no other writes the key's rows, item or index.  So the
model keeps a history, `crossed`, of the keys that two operations had in hand at
once (`InHand`: those it has still to converge, and those of the source it is
removing), from which a key is taken when an operation starts over with it alone
(`Restarted`).  Of every other key `Sound` says: a row shows one of the key's own
readings; if nobody has still to converge it, it is listed and mirrored
(`Listed`, `Mirrored`); and every operation is `Ready`, which says statement by
statement what it has achieved for the key it is at (`Reached`) and what it owes
the others.  `OneStep` is the argument that these operations do not disturb each
other: a step touches only keys its actor has in hand, so whoever else knows
something of a key that is not crossed keeps it.  `OnlyCrossingsLose` turns the
same invariant to the two findings: while `crossed` is empty, `EditStays` and
`KeptIfCarried` hold, so a crossing is what their counterexamples need.
`Decided` connects the loop to this: the rows of a key
in order of id are a list, and `BestLeads`, taken from `ConvergenceProofs` by
INSTANCE, says where the loop ends on it.  `IngestAssumption` says that a
document is a sequence of items of its source, that `None` is neither a document
nor a row, and that the bounds are numbers.

`PollerProofs` proves `TypeOK`, `OneReader`, `Polite` and `BacksOff` for every
number of sources, workers and handlers and every choice of intervals.  `OneReader`
needs that outside a sweep no worker reads and that within one the ids in the
batch and among the workers are distinct.  `Polite` is about what happens when a
row becomes due, so the invariant relates the history of the last poll to
`next_poll_at`: their sum never falls below the minimum interval less
`FetchLimit`, because whoever overwrote the row counted from the beginning of a
`Fetch` no longer than that.  `BacksOff` survives lost updates because the
interval a `Fetch` writes was computed from an interval within the bounds and
from the failures it writes with it.

The other four prove properties of `Federation` and `Services`.  Each has one
inductive invariant per part; the invariant of the composition says of the part
at work that its invariant holds.

`OutboxProofs` (`Confined`, `PublishingOpen`, `JourneyTells`, `Carried`) has
four, for every number of posts, handlers, inboxes, attempts and failures:

- `IInv`, for `Confined`: a handler's copy has the visibility of its row, a
  fan-out that is under way is of something that federates, and a job, the run
  of a job and what was heard are about such a row.  It rests on `VisKept`: no
  step changes a visibility or removes a row.
- `GuidInv`, for `PublishingOpen`: a row without a guid has the handler that
  created it at the step that writes the guid, or its handler failed, and there
  is no second such row, because the unique index refuses the insert.
- `LedgerInv`, for `JourneyTells`: a job that ended has its end in the ledger,
  and the worker, which writes the attempt first, is at a step whose earlier
  steps are recorded, unless its key is one of those with an unlogged attempt; a
  revival takes a job out of those that ended and nothing out of the ledger.
- `FanInv`, for `Carried`: while no handler of a post failed or overlapped
  another (`Calm`), every follower who is owed the last text is still in the
  handler's list, has the job or was lost or left out, those left out only from a
  fan-out of as many as the ceiling, and the rows of the timeline have the text the
  post has.

It assumes `OutboxAssumption`: bounds are numbers, there are finitely many
inboxes, and the author a reply answers is one of those that may follow.

`AccountsProofs` (`Accounts`, `SecondStep`):

- `SessionsInv`: a link that is spent once is not fresh again (`Unspent`), and
  what a session and a request were let in with is the password there is
  (`Current`), but for the requests the recovery overtook, each of which has its
  session either still to come or behind it (`Former`, `Waiting`); and a
  confirmation under way carries the number of a session that is not to come.
- `RegistrationInv`: addresses and codes have one account each, an account's
  code carries its address, and a used code has its account.
- `HandlesInv`.  A call that began before the account had a handle writes one
  over it; that it writes the same one needs `First` (an account has the first
  of its candidates that nobody else has) and `Trying` (the candidates a call
  has passed belong to others), and that no step changes a handle, which in
  turn needs both.
- `FactorInv`: while no two checks or enrolments overlapped, a code that was
  accepted is behind the step the row remembers (`CodeInv`), and between the
  deletion of the old recovery codes and the last insert of the new ones the
  visit that prints them is alone (`PrintInv`).

`RecordsProofs` (`Claims`, `Audited`, `Unforgotten`, `DecisionStands`,
`JourneyAgrees`, `SeesAll`, `Files`, and the action property `OwnHands`):

- `SitesInv`.  A request knows its row by number; `Knows` says that the number
  still means that row unless it was released meanwhile, which needs
  `NextIsNew`: the number of a new row is above those in use.  `Honest` says
  that a request that will write `verified` saw the link itself.
- `ModerationInv`: per report and per blocked value, the entries of the log, the
  acts that have still to write theirs and those that lost it add up to what
  the table says.
- `MentionsInv`: a notification that waits has its job, its request or the run
  of its job; a run of the worker is at a step whose earlier steps are in the
  row and in the ledger, unless a statement of that attempt failed.
- `ReadingInv`, for `SeesAll`.  What a walk counts on is in the view and not hidden
  (`Wanted`), and what no page has shown of it yet is dated before the cutoff of
  the next link (`Ahead`), as long as no page ended unevenly.
- `MediaInv` and `QuotaInv`, for the quota: an account whose uploads never
  overlapped has one at most, and room for it (`Room`).  What is used is a fold
  over a set of files; that it does not depend on the order, and that a file adds
  its size to it, is proved by the smallest counterexample over finite sets.  For
  `Whole`, `Backed`: a file a row or an upload relies on is there, and a partial
  one is being written or was cut off.
- `BackupInv`, for `Restorable`: a taker comes to every file its snapshot
  names and lists it whole, unless it ever was not (`Walks`); a manifest lists
  the files of its rows so (`Promised`); and what verified stays as it is until
  it is restored (`Verified`).
- `Over` (with `SessionsInv`), for the cookie: a request that takes a cookie
  away was sent with a session that has ended, and an ended session does not
  come back, so the cookie of a live session is not lost to an overlapping tab.

`PeersProofs` (`NotWronged`, `Acknowledged`, `MatchesWish`, `Agreed`,
`NothingMissed`, `LeaseKept`):

- the inbox: `InboxKeys` (a key fetched or cached after the last rotation is the
  actor's key, which makes a refusal rightful), `InboxMarks` (what was
  dispatched is at work, has failed or was carried out) and `InboxOrder` (while
  nothing an actor issued failed, overlapped or overtook, the tables say what
  the last activity of each kind said, but for the one at work).
- push: `PushInv` relates the follower's row, the hub's row, the exchanges under
  way and the messages between them.  `Single`: an exchange that is clean is the
  only one of its protocol, and one that is not puts in doubt what both sides
  know.  `Staged`: what a clean exchange has reached on both sides, by its step.
  `Fitting`: what is certain and untouched since fits in intent, lease and
  secret.  `Lasting`: the hours of a lease are used up only by requests that
  were lost and by upkeeps that passed it over.  `Posted`: a delivery that met no exchange carries the secret the
  follower checks.  It assumes that a lease is renewed before it ends
  (`PushAssumption`; `push/subscriber.go:28-31`).

The remaining assumptions of `Services` say that `None` is no value, that
lifetimes, sizes and bounds are numbers, that there are finitely many items, that
an account has a candidate per try, that the log distinguishes reports from
blocked values, and that a mention comes in or goes out.  Every assumption is
evaluated in a run.

Every safety property of a passing run is thereby proved.  Only
model-checked are the liveness properties under fairness (`EventuallySettled` of
`MCJobs`, `EventuallyPolled` of `MCPollerTurn`, `CatchesUp` of `MCPollerNews`),
which are out of the prover's reach.

## 6. What is left

1. Which crossings of two operations do harm: `ListedIsBest` is proved for every
   key that was not crossed, and the two findings are crossings that lose.
2. Refinement of `Poller`'s one-step `Ingest` by the module `Ingest`, and of the
   queue in `Outbox` and `Mentions` by `Jobs`.
3. Liveness of deliveries (`Outbox` over `Jobs`) and of renewals (`Push`).
4. Drafts, and the memory of which signature a host accepts.

## 7. Not modelled

- Parsing and writing of feeds, OPML, HTML, micropub requests and activities,
  canonicalisation and cryptography of signatures: text in, text out.  What
  they decide is a choice in the modules that use it.
- Outbound fetching and mail: network I/O; their timeouts are `HandlerLimit` and
  `FetchLimit`, their failures are choices.
- Drafts, profiles, search, naming of collections: one statement each, or a
  read.
- The rate limiter and the stream of live updates: counters behind a mutex and
  notifications nothing depends on; a request turned away changes nothing.
- The tokens of micropub (`internal/micropub`): a table in which one statement
  issues a token, one revokes it and one resolves it before a request, so a
  request is let in or refused as a whole.  IndieWeb discovery parses pages.
- Migrations, configuration, command line, start-up, templates.  One write
  connection and foreign keys are assumed as SQLite gives them.
- `Quarantine` and `SetPassword` have no caller, and no route or command calls
  `Decide` and `AwaitingModeration` of `webmention` or `Report` of `moderation`:
  the moderators of `Mentions` and the reports of `Moderation` are what these
  packages offer, not yet what the program does.
