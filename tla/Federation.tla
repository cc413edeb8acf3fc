----------------------------- MODULE Federation -----------------------------
(***************************************************************************)
(* What an instance exchanges with others: its posts go out (Outbox), it   *)
(* follows a feed of another instance and is followed (Push), and          *)
(* activities come in (Inbox).  The three work on tables of their own and  *)
(* no property relates two of them, so a behaviour is one of one part, and *)
(* the variables that only other parts have are 0.                         *)
(***************************************************************************)
EXTENDS Integers, Sequences, FiniteSets

CONSTANTS
  Requests,      \* handlers that can run at the same time
  MaxAttempts,   \* attempts of a delivery, our own and those of a sender
  MaxCuts        \* bound: what ends half way

CONSTANTS        \* of Outbox
  Posts, Inboxes, Abroad, Web, Visibilities, Answers, Ceiling,
  MaxStamp, MaxOps, MaxFollows, MaxClaims, MaxEvents

CONSTANTS        \* of Push
  Offers, Lease, RenewAt,
  MaxTime, MaxAsks, MaxOpen, MaxLost, MaxNews

CONSTANTS        \* of Inbox
  Actors, Types, TTL, ClockSkew, Drifts,
  MaxIssued, MaxRotations, MaxBlocks, MaxWait

\* The author a reply answers may follow as well; the other numbers are counts
\* and seconds.
ASSUME OutboxAssumption ==
  /\ Abroad \in Inboxes /\ IsFiniteSet(Inboxes)
  /\ Ceiling \in Nat /\ MaxStamp \in Nat /\ MaxAttempts \in Nat /\ MaxCuts \in Nat
\* A lease is renewed before it is over (RenewAt and LeaseAsked, CloudRenewAt
\* and CloudLease).
ASSUME PushAssumption ==
  /\ Offers \subseteq SUBSET {"websub", "rsscloud"}
  /\ Lease \in Nat /\ RenewAt \in 0..Lease /\ MaxTime \in Nat /\ MaxAsks \in Nat
ASSUME InboxAssumption == TTL \in Nat /\ ClockSkew \in Nat /\ Drifts \subseteq Int

VARIABLES
  part,                                                          \* the part that works
  req, cut, cuts, now,                                           \* of two parts or three
  post, observed, followers, jobs, held, journey, unlogged, heard, owed, raced, ops, follows, claims,
  offered, row, known, intent, until, secret, leaving, duty, asks, checks, listed,
  mail, clean, sure, missed, next, lost, news,
  issued, tries, acked, key, cache, blocked, seen, follower, reaction, replies, accepts,
  started, odd, wronged, blocks

Outbox == INSTANCE Outbox
Push == INSTANCE Push
Inbox == INSTANCE Inbox WITH MaxTime <- MaxWait

-----------------------------------------------------------------------------
(* The variables that only one part has *)

OfOutbox == <<post, observed, followers, jobs, held, journey, unlogged, heard, owed, raced, ops, follows, claims>>

OfPush == <<offered, row, known, intent, until, secret, leaving, duty, asks, checks, listed,
            mail, clean, sure, missed, next, lost, news>>

OfInbox == <<issued, tries, acked, key, cache, blocked, seen, follower, reaction, replies, accepts,
             started, odd, wronged, blocks>>

NoOutbox ==
  /\ post = 0 /\ observed = 0 /\ followers = 0 /\ jobs = 0 /\ held = 0 /\ journey = 0 /\ unlogged = 0
  /\ heard = 0 /\ owed = 0 /\ raced = 0 /\ ops = 0 /\ follows = 0 /\ claims = 0

NoPush ==
  /\ offered = 0 /\ row = 0 /\ known = 0 /\ intent = 0 /\ until = 0 /\ secret = 0 /\ leaving = 0
  /\ duty = 0 /\ asks = 0 /\ checks = 0 /\ listed = 0 /\ mail = 0 /\ clean = 0 /\ sure = 0
  /\ missed = 0 /\ next = 0 /\ lost = 0 /\ news = 0

NoInbox ==
  /\ issued = 0 /\ tries = 0 /\ acked = 0 /\ key = 0 /\ cache = 0 /\ blocked = 0 /\ seen = 0
  /\ follower = 0 /\ reaction = 0 /\ replies = 0 /\ accepts = 0 /\ started = 0 /\ odd = 0
  /\ wronged = 0 /\ blocks = 0

-----------------------------------------------------------------------------
Init ==
  \/ part = "publishing" /\ Outbox!Init /\ NoPush /\ NoInbox /\ now = 0
  \/ part = "push" /\ Push!Init /\ NoOutbox /\ NoInbox /\ req = 0 /\ cut = 0
  \/ part = "inbox" /\ Inbox!Init /\ NoOutbox /\ NoPush

Next ==
  \/ part = "publishing" /\ Outbox!Next /\ UNCHANGED <<part, OfPush, OfInbox, now>>
  \/ part = "push" /\ Push!Next /\ UNCHANGED <<part, OfOutbox, OfInbox, req, cut>>
  \/ part = "inbox" /\ Inbox!Next /\ UNCHANGED <<part, OfOutbox, OfPush>>

all == <<part, req, cut, cuts, now, OfOutbox, OfPush, OfInbox>>

Spec == Init /\ [][Next]_all

-----------------------------------------------------------------------------
(* Properties: those of the parts, under the part they are about *)

\* Nothing private leaves the instance, on whatever way (internal/publish,
\* internal/web/apactivity.go).
Confined == part = "publishing" => Outbox!Confined

\* No half-made post blocks publishing, unless its handler failed
\* (internal/publish/publish.go).
PublishingOpen == part = "publishing" => Outbox!PublishingOpen

\* Followers are told, and the timeline shows, what a post says in the end
\* (internal/web/apactivity.go, internal/web/delivery.go).
Carried == part = "publishing" => Outbox!Carried

\* The ledger tells how every delivery ended (internal/ledger).
JourneyTells == part = "publishing" => Outbox!JourneyTells

\* Follower and hub agree after an exchange that went well (internal/push).
Agreed == part = "push" => Push!Agreed

\* A delivery that meets no exchange is stored (internal/web/push.go).
NothingMissed == part = "push" => Push!NothingMissed

\* A lease is renewed before it runs out, unless RenewAt - 1 renewals come to
\* nothing (internal/push/subscriber.go, internal/web/subscribe_push.go).
LeaseKept == part = "push" => Push!LeaseKept

\* What was acknowledged was done (internal/web/activitypub.go).
Acknowledged == part = "inbox" => Inbox!Acknowledged

\* The tables say what an actor last said (internal/activitypub/store.go).
MatchesWish == part = "inbox" => Inbox!MatchesWish

\* Nobody is refused without a reason (internal/web/activitypub.go).
NotWronged == part = "inbox" => Inbox!NotWronged

=============================================================================
