-------------------------------- MODULE Push --------------------------------
(***************************************************************************)
(* Push between two instances of this program, as internal/interop tests   *)
(* it: one publishes a topic and is its hub (WebSub) and its cloud         *)
(* (rssCloud), the other follows the feed.  internal/push keeps what both  *)
(* sides know; the handlers are those of web/push.go and                   *)
(* web/subscribe_push.go.                                                  *)
(*                                                                         *)
(* An exchange is: the follower records an intent and asks; the hub        *)
(* records the subscriber and asks back; the follower confirms, in three   *)
(* statements, and echoes the challenge; the hub marks it verified.  Any   *)
(* message may be lost, an exchange may be cut by a crash, and exchanges   *)
(* overlap.  The unit of time is the hour between two runs of the upkeep,  *)
(* far longer than any exchange takes.  The number of a request stands for *)
(* its secret and for its challenge, which are both random.                *)
(***************************************************************************)
EXTENDS Integers, FiniteSets

CONSTANTS
  Offers,       \* what a feed may offer: sets of protocols
  Lease,        \* LeaseAsked, HubLease and CloudLease, in hours
  RenewAt,      \* RenewAt and CloudRenewAt, in hours
  MaxTime,      \* bound: hours
  MaxAsks,      \* bound: requests of the follower
  MaxOpen,      \* bound: exchanges at the same time
  MaxLost,      \* bound: requests and renewals that come to nothing
  MaxCuts,      \* bound: exchanges that end half way
  MaxNews       \* bound: distributions

Protocols == UNION Offers

VARIABLES
  now,        \* hours
  offered,    \* what this feed offers
  row,        \* the follower's source exists
  known,      \* Remember: the endpoints of the source are recorded
  intent,     \* table push_intent, one row per protocol
  until,      \* hub_lease_until and cloud_until
  secret,     \* hub_secret; 0 is none
  leaving,    \* an unsubscribe handler is between LeaveHub and RemoveSource
  duty,       \* the upkeep of this hour is still to come
  asks,       \* requests on their way to the hub
  checks,     \* verifications under way
  listed,     \* hub_subscriber and cloud_subscriber, one row per protocol
  mail,       \* deliveries on their way to the follower
  clean,      \* the exchange under way is alone and whole (history)
  sure,       \* the last exchange to change anything was clean (history)
  missed,     \* an undisturbed delivery was refused (history)
  lost,       \* requests that never reached the hub, and upkeeps that passed
              \* a due lease over (history)
  next, cuts, news

vars == <<now, offered, row, known, intent, until, secret, leaving, duty, asks, checks, listed,
          mail, clean, sure, missed, next, lost, cuts, news>>

bob == <<offered, row, known, intent, until, secret, leaving, duty>>
alice == <<listed>>
history == <<clean, sure, missed>>
bounds == <<next, lost, cuts, news>>

NoIntent == [mode |-> "none", secret |-> 0]
NoSub == [mode |-> "none", secret |-> 0, challenge |-> 0, lease |-> 0, verified |-> FALSE]

\* No exchange of protocol p is under way.
Still(p) == \A x \in asks \cup checks : x.protocol # p
Quiet == asks = {} /\ checks = {}

Moved(c, pc) == checks' = (checks \ {c}) \cup {[c EXCEPT !.pc = pc]}

-----------------------------------------------------------------------------
(* The follower *)

\* Intend: an intent replaces the one before it.
Intend(sent, mode) ==
  [p \in Protocols |-> IF p \in DOMAIN sent THEN [mode |-> mode, secret |-> sent[p]] ELSE intent[p]]

\* talkToHub and RegisterWithCloud record the intent and send the request; a
\* subscription carries a fresh secret.
Talk(protocols, mode) ==
  LET number(p) == IF p = "websub" THEN next ELSE next + Cardinality(protocols \cap {"websub"})
      sent == IF mode = "subscribe" THEN [p \in protocols |-> IF p = "websub" THEN number(p) ELSE 0]
              ELSE [p \in protocols |-> 0]
  IN  /\ next + Cardinality(protocols) <= MaxAsks + 1
      /\ Cardinality(asks \cup checks) + Cardinality(protocols) <= MaxOpen
      /\ next' = next + Cardinality(protocols)
      /\ intent' = Intend(sent, mode)
      /\ asks' = asks \cup {[n |-> number(p), protocol |-> p, mode |-> mode, secret |-> sent[p]] :
                              p \in protocols}
      /\ clean' = [p \in Protocols |-> IF p \in protocols THEN Still(p) /\ ~leaving ELSE clean[p]]
      /\ sure' = [p \in Protocols |-> sure[p] /\ clean'[p]]
      /\ mail' = {[m EXCEPT !.safe = @ /\ m.protocol \notin protocols] : m \in mail}

\* Remember records the endpoints the feed names, and each is asked.
AskForPush ==
  /\ known' = TRUE
  /\ Talk(offered, "subscribe")

\* subscribe adds the source unless it is there, and asks for push.
Subscribe ==
  /\ ~leaving
  /\ row' = TRUE /\ AskForPush
  /\ UNCHANGED <<now, offered, until, secret, leaving, duty, checks, listed, missed, lost, cuts, news>>

\* Mutant: a lease is renewed once it has run out.
DueWhenOver == {p \in offered : row /\ known /\ until[p] < now}

DueForRenewal == {p \in offered : row /\ known /\ until[p] < now + RenewAt}

\* RenewPush, which the upkeep runs every hour: this feed is among the rows it
\* is given.
RenewPush ==
  /\ duty /\ duty' = FALSE
  /\ Talk(DueForRenewal, "subscribe")
  /\ UNCHANGED <<now, offered, row, known, until, secret, leaving, checks, listed, missed,
                 lost, cuts, news>>

\* Or it is not: the query returns 50 rows at most, in no order, and whatever
\* else is due may come before; or it fails, and nothing is renewed.
PassOver ==
  /\ duty /\ duty' = FALSE
  /\ DueForRenewal # {}
  /\ lost < MaxLost /\ lost' = lost + 1
  /\ UNCHANGED <<now, offered, row, known, intent, until, secret, leaving, asks, checks, listed, mail,
                 history, next, cuts, news>>

\* unsubscribe, as far as LeaveHub.
LeaveHub ==
  /\ row /\ ~leaving /\ leaving' = TRUE
  /\ Talk(IF known THEN offered \cap {"websub"} ELSE {}, "unsubscribe")
  /\ UNCHANGED <<now, offered, row, known, until, secret, duty, checks, listed, missed,
                 lost, cuts, news>>

\* The rest of unsubscribe: RemoveSource takes the intents with it.
RemoveSource ==
  /\ leaving /\ leaving' = FALSE
  /\ row' = FALSE /\ known' = FALSE /\ secret' = 0
  /\ until' = [p \in Protocols |-> 0] /\ intent' = [p \in Protocols |-> NoIntent]
  /\ UNCHANGED <<now, offered, duty, asks, checks, listed, mail, history, bounds>>

\* verifyIntent and cloudCallback: the intent is read; the hub's question
\* must name its mode, the cloud's need not.
VerifyIntent(c) ==
  LET i == intent[c.protocol]
      asked == i # NoIntent /\ (c.protocol = "websub" => i.mode = c.mode)
  IN  /\ c.pc = "asked"
      /\ Moved(c, IF asked THEN "confirm" ELSE "refused")
      /\ UNCHANGED <<now, bob, asks, listed, mail, history, bounds>>

\* Confirm: the intent is read again ...
ConfirmRead(c) ==
  LET i == intent[c.protocol]
  IN  /\ c.pc = "confirm"
      /\ checks' = (checks \ {c}) \cup
           {[c EXCEPT !.pc = IF i = NoIntent THEN "echoed" ELSE "write", !.intent = i]}
      /\ UNCHANGED <<now, bob, asks, listed, mail, history, bounds>>

\* ... the source takes its secret and the lease ...
ConfirmWrite(c) ==
  /\ c.pc = "write"
  /\ IF row
     THEN /\ until' = [until EXCEPT ![c.protocol] =
                         IF c.intent.mode = "unsubscribe" THEN 0 ELSE now + Lease]
          /\ secret' = IF c.protocol = "websub" THEN c.intent.secret ELSE secret
     ELSE UNCHANGED <<until, secret>>
  /\ Moved(c, "clear")
  /\ UNCHANGED <<now, offered, row, known, intent, leaving, duty, asks, listed, mail, history, bounds>>

\* ... and whatever intent there is now is deleted.  The challenge is echoed
\* whether or not that worked.
ConfirmClear(c) ==
  /\ c.pc = "clear"
  /\ intent' = [intent EXCEPT ![c.protocol] = NoIntent]
  /\ Moved(c, "echoed")
  /\ UNCHANGED <<now, offered, row, known, until, secret, leaving, duty, asks, listed, mail, history, bounds>>

\* CheckSignature: without a secret anything goes.
CheckSignature(signed) == secret = 0 \/ signed = secret

\* acceptPush, and cloudCallback without a challenge, which reads the feed.
\* A refused delivery is answered with Accepted, so the hub cannot tell.
AcceptPush(m) ==
  LET taken == row /\ (m.protocol = "websub" => CheckSignature(m.secret))
  IN  /\ mail' = mail \ {m}
      /\ missed' = (missed \/ (~taken /\ m.safe /\ row))
      /\ UNCHANGED <<now, bob, asks, checks, listed, clean, sure, bounds>>

-----------------------------------------------------------------------------
(* The hub *)

Check(a, pc, mode) ==
  [n |-> a.n, protocol |-> a.protocol, pc |-> pc, mode |-> mode, challenge |-> a.n,
   intent |-> NoIntent]

\* Mutant: a repeated request keeps the former secret.
PendingKeeping(a) ==
  [listed["websub"] EXCEPT !.mode = a.mode, !.challenge = a.n, !.lease = now + Lease,
                           !.secret = IF listed["websub"] = NoSub THEN a.secret ELSE @]

\* Pending: a repeated request replaces secret, mode, challenge and lease, and
\* leaves verified_at alone.
Pending(a) ==
  [listed["websub"] EXCEPT !.mode = a.mode, !.challenge = a.n, !.lease = now + Lease,
                           !.secret = a.secret]

\* hubEndpoint records the subscriber and starts the verification.
HubEndpoint(a) ==
  /\ a \in asks /\ a.protocol = "websub"
  /\ asks' = asks \ {a}
  /\ listed' = [listed EXCEPT !["websub"] = Pending(a)]
  /\ checks' = checks \cup {Check(a, "new", a.mode)}
  /\ UNCHANGED <<now, bob, mail, history, bounds>>

\* cloudRegister asks back before it records anything.
CloudRegister(a) ==
  /\ a \in asks /\ a.protocol = "rsscloud"
  /\ asks' = asks \ {a}
  /\ checks' = checks \cup {Check(a, "asked", a.mode)}
  /\ UNCHANGED <<now, bob, listed, mail, history, bounds>>

\* The goroutine verifySubscriber reads the row, which may be a later
\* request's by now, or gone.
ReadSubscriber(c) ==
  LET s == listed["websub"]
  IN  /\ c.pc = "new"
      /\ checks' = (checks \ {c}) \cup
           IF s = NoSub THEN {}
           ELSE {[c EXCEPT !.pc = "asked", !.mode = s.mode, !.challenge = s.challenge]}
      /\ sure' = [sure EXCEPT ![c.protocol] = @ /\ s # NoSub]
      /\ UNCHANGED <<now, bob, asks, listed, mail, clean, missed, bounds>>

\* History: an exchange ends; what both sides know is certain if it was clean.
Known(c) == [sure EXCEPT ![c.protocol] = clean[c.protocol]]

\* Verified.
Verified == [listed["websub"] EXCEPT !.verified = TRUE, !.challenge = 0]

\* ... and does what the answer says: without the echo the subscriber is
\* dropped, even one that was verified before.
VerifySubscriber(c) ==
  /\ c.protocol = "websub" /\ c.pc \in {"echoed", "refused"}
  /\ checks' = checks \ {c}
  /\ listed' = IF c.pc = "refused" \/ c.mode = "unsubscribe"
               THEN [listed EXCEPT !["websub"] = NoSub]
               ELSE IF listed["websub"] = NoSub THEN listed
               ELSE [listed EXCEPT !["websub"] = Verified]
  /\ sure' = Known(c)
  /\ UNCHANGED <<now, bob, asks, mail, clean, missed, bounds>>

\* RegisterCloud, if the callback echoed the challenge.
RegisterCloud(c) ==
  /\ c.protocol = "rsscloud" /\ c.pc \in {"echoed", "refused"}
  /\ checks' = checks \ {c}
  /\ listed' = IF c.pc = "refused" THEN listed
               ELSE [listed EXCEPT !["rsscloud"] =
                       [NoSub EXCEPT !.mode = "subscribe", !.lease = now + Lease, !.verified = TRUE]]
  /\ sure' = IF c.pc = "refused" THEN sure ELSE Known(c)
  /\ UNCHANGED <<now, bob, asks, mail, clean, missed, bounds>>

\* Subscribers and CloudSubscribers.
Listed(p) == listed[p].verified /\ listed[p].lease > now /\ listed[p].mode = "subscribe"

\* Mutant: nothing is signed.
DeliveryUnsigned(p) ==
  [protocol |-> p, secret |-> 0, n |-> news + 1, safe |-> Still(p) /\ sure[p]]

\* deliverPush signs with the secret of the row; pingCloud only says where
\* to look.
Delivery(p) ==
  [protocol |-> p, secret |-> listed[p].secret, n |-> news + 1, safe |-> Still(p) /\ sure[p]]

\* Distribute, after a post was published or by publishToHub.
Distribute ==
  /\ news < MaxNews /\ news' = news + 1
  /\ mail' = mail \cup {Delivery(p) : p \in {q \in Protocols : Listed(q)}}
  /\ UNCHANGED <<now, bob, asks, checks, listed, clean, sure, missed, next, lost, cuts>>

\* ForgetExpired, of the hub's upkeep.
ForgetExpired ==
  /\ \E p \in Protocols : listed[p] # NoSub /\ listed[p].lease < now
  /\ listed' = [p \in Protocols |-> IF listed[p].lease < now THEN NoSub ELSE listed[p]]
  /\ UNCHANGED <<now, bob, asks, checks, mail, history, bounds>>

-----------------------------------------------------------------------------
(* The world *)

\* A request does not reach the hub, or is refused there: nothing is retried
\* before the next upkeep.
LoseAsk(a) ==
  /\ a \in asks /\ lost < MaxLost /\ lost' = lost + 1
  /\ asks' = asks \ {a}
  /\ sure' = [sure EXCEPT ![a.protocol] = @ /\ a.mode = "subscribe"]
  /\ UNCHANGED <<now, bob, checks, listed, mail, clean, missed, next, cuts, news>>

Cut(c) ==
  /\ clean' = [clean EXCEPT ![c.protocol] = FALSE]
  /\ sure' = [sure EXCEPT ![c.protocol] = FALSE]

\* The process that verifies stops.
CutVerifier(c) ==
  /\ cuts < MaxCuts /\ cuts' = cuts + 1
  /\ checks' = checks \ {c} /\ Cut(c)
  /\ UNCHANGED <<now, bob, asks, listed, mail, missed, next, lost, news>>

\* The callback does not answer, or its answer is lost.
CutAnswer(c) ==
  /\ cuts < MaxCuts /\ cuts' = cuts + 1
  /\ c.pc \in {"asked", "confirm", "write", "clear", "echoed"}
  /\ Moved(c, "refused") /\ Cut(c)
  /\ UNCHANGED <<now, bob, asks, listed, mail, missed, next, lost, news>>

\* A delivery is lost; it is not repeated.
LoseMail(m) ==
  /\ mail' = mail \ {m}
  /\ UNCHANGED <<now, bob, asks, checks, listed, history, bounds>>

\* An hour passes; every request has been answered or has timed out by then.
Tick ==
  /\ now < MaxTime /\ Quiet /\ mail = {} /\ ~duty /\ ~leaving
  /\ now' = now + 1 /\ duty' = TRUE
  /\ UNCHANGED <<offered, row, known, intent, until, secret, leaving, asks, checks, listed, mail,
                 history, bounds>>

-----------------------------------------------------------------------------
Init ==
  /\ now = 0 /\ offered \in Offers /\ row = FALSE /\ known = FALSE
  /\ intent = [p \in Protocols |-> NoIntent] /\ until = [p \in Protocols |-> 0]
  /\ secret = 0 /\ leaving = FALSE /\ duty = FALSE
  /\ asks = {} /\ checks = {} /\ listed = [p \in Protocols |-> NoSub] /\ mail = {}
  /\ clean = [p \in Protocols |-> TRUE] /\ sure = [p \in Protocols |-> TRUE] /\ missed = FALSE
  /\ next = 1 /\ lost = 0 /\ cuts = 0 /\ news = 0

Next ==
  \/ Subscribe \/ RenewPush \/ PassOver \/ LeaveHub \/ RemoveSource
  \/ \E a \in asks : HubEndpoint(a) \/ CloudRegister(a) \/ LoseAsk(a)
  \/ \E c \in checks :
       \/ VerifyIntent(c) \/ ConfirmRead(c) \/ ConfirmWrite(c) \/ ConfirmClear(c)
       \/ ReadSubscriber(c) \/ VerifySubscriber(c) \/ RegisterCloud(c)
       \/ CutVerifier(c) \/ CutAnswer(c)
  \/ \E m \in mail : AcceptPush(m) \/ LoseMail(m)
  \/ Distribute \/ ForgetExpired \/ Tick

Spec == Init /\ [][Next]_vars

-----------------------------------------------------------------------------
(* Properties *)

\* Leases, intents and rows keep their types; a source that is gone has no
\* intent left.
TypeOK ==
  /\ now \in 0..MaxTime /\ secret \in 0..MaxAsks
  /\ until \in [Protocols -> 0..(MaxTime + Lease)]
  /\ intent \in [Protocols -> [mode: {"none", "subscribe", "unsubscribe"}, secret: 0..MaxAsks]]
  /\ listed \in [Protocols -> [mode: {"none", "subscribe", "unsubscribe"}, secret: 0..MaxAsks,
                               challenge: 0..MaxAsks, lease: 0..(MaxTime + Lease),
                               verified: BOOLEAN]]
  /\ row \/ (secret = 0 /\ \A p \in Protocols : intent[p] = NoIntent /\ until[p] = 0)

Holds(p) == row /\ until[p] > now

\* However many requests were lost and whatever happened before: after an
\* exchange that ran alone and whole both sides agree.  A follower that counts
\* on a lease is listed, with the secret it will check, and one that left is
\* not.  (Overlapping exchanges do not ensure it: the second verification
\* finds no intent and drops the subscriber the first one confirmed.)
Agreed ==
  /\ TypeOK
  /\ \A p \in Protocols : Still(p) /\ sure[p] /\ ~leaving =>
       /\ Holds(p) => Listed(p)
       /\ p = "websub" /\ Holds(p) => listed[p].secret = secret
       /\ p = "websub" /\ ~row => ~Listed(p)

\* A delivery that meets no exchange on its way is stored: signatures only
\* fail while a renewal is changing the secret.
NothingMissed == ~missed

\* A lease that was confirmed does not run out while the source stays, even if
\* RenewAt - 2 renewals come to nothing, because the request never reaches the
\* hub or because the upkeep has more leases to renew than it takes at a time.
\* (Nothing bounds how often that happens to the same lease: the rows come in
\* no order, so with more than 50 due one may be passed over until it is over.)
LeaseKept ==
  lost <= RenewAt - 2 /\ cuts = 0 /\ Quiet /\ ~duty /\ row =>
    \A p \in Protocols : sure[p] /\ until[p] # 0 => until[p] > now

=============================================================================
