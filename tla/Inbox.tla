------------------------------- MODULE Inbox --------------------------------
(***************************************************************************)
(* The inbox of one account: what internal/web/activitypub.go does with    *)
(* the activities other servers deliver, and the tables follower, reaction *)
(* and inbox_seen and the cache of remote actors that                      *)
(* internal/activitypub/store.go keeps for it.                             *)
(*                                                                         *)
(* The servers that deliver behave as the delivery worker of this program  *)
(* does: every activity is a job of its own, repeated with a fresh         *)
(* signature until it is answered with success.  An answer may be lost, a  *)
(* request that was given up may still be running here, and activities     *)
(* overtake each other.  The actions of a handler are its statements.      *)
(***************************************************************************)
EXTENDS Integers, Sequences, FiniteSets

CONSTANTS
  Actors,        \* remote actors
  Requests,      \* handlers that can run at the same time
  Types,         \* the activities they issue
  TTL,           \* ActorTTL
  ClockSkew,     \* ClockSkew, in the same unit
  Drifts,        \* how far the clock of a sender may be off
  MaxIssued,     \* bound: activities
  MaxAttempts,   \* bound: deliveries of one activity
  MaxRotations,  \* bound: how often keys change
  MaxCuts,       \* bound: handlers that fail half way
  MaxBlocks,     \* bound: decisions of the moderators
  MaxTime        \* bound: time

VARIABLES
  issued,     \* the activities, in the order they were made
  tries,      \* how often each was delivered
  acked,      \* those answered with success
  key,        \* the key of each actor, and since when
  cache,      \* table remote_actor
  blocked,    \* actors an instance-wide block covers
  seen,       \* table inbox_seen
  follower,   \* table follower
  reaction,   \* table reaction, the likes of one post
  replies,    \* the replies IngestItem stored
  accepts,    \* the Accepts queued, by the Follow they answer
  req,        \* the handlers under way
  started,    \* activities whose dispatch has begun (history)
  cut,        \* activities a handler of which failed (history)
  odd,        \* actors whose activities overtook each other here (history)
  wronged,    \* a delivery was refused without a reason (history)
  now, cuts, blocks

vars == <<issued, tries, acked, key, cache, blocked, seen, follower, reaction, replies,
          accepts, req, started, cut, odd, wronged, now, cuts, blocks>>

senders == <<issued, key>>
tables == <<seen, follower, reaction, replies, accepts>>
history == <<started, odd, wronged>>

NoActor == [key |-> 0, at |-> 0]
Idle == [pc |-> "idle", i |-> 0, sig |-> [key |-> 0, date |-> 0, covers |-> TRUE], key |-> 0]

Actor(i) == issued[i].actor

Goto(r, pc) == req' = [req EXCEPT ![r].pc = pc]

\* The sender gets an answer, unless it is lost on the way.
Answer(r, ok) ==
  /\ req' = [req EXCEPT ![r] = Idle]
  /\ \/ ok /\ acked' = acked \cup {req[r].i}
     \/ UNCHANGED acked

-----------------------------------------------------------------------------
(* Signatures *)

\* Sign and Sign9421: what a delivery covers under either scheme.
Covers ==
  [cavage  |-> {"request-target", "host", "date", "digest", "content-type"},
   rfc9421 |-> {"@method", "@target-uri", "@authority", "@path", "content-digest", "content-type"}]

\* postMustCover and postMustCover9421.
MustCover ==
  [cavage  |-> {"request-target", "host", "date", "digest"},
   rfc9421 |-> {"@method", "@target-uri", "content-digest"}]

\* coversAll.
CoversAll(scheme) == MustCover[scheme] \subseteq Covers[scheme]

\* ReadSignature and the two parsers: what is left of a signature is its key,
\* its date and whether it covers what it must.
ReadSignature(scheme, a, drift) ==
  [key |-> key[a].key, date |-> now + drift, covers |-> CoversAll(scheme)]

\* Verify and Verify9421.  A signature that was made and checked by these
\* functions covers the body it came with.
Verify(sig, k) ==
  /\ sig.covers
  /\ now - sig.date <= ClockSkew /\ sig.date - now <= ClockSkew
  /\ sig.key = k

-----------------------------------------------------------------------------
(* The senders *)

\* A new activity; an Undo takes back what was done before.  Only an Undo of a
\* Follow may fail to name the account it is for.
Issue(a, type, named) ==
  /\ Len(issued) < MaxIssued
  /\ type \in {"Unfollow", "Unlike"} =>
       \E i \in DOMAIN issued : issued[i].actor = a
         /\ issued[i].type = (IF type = "Unfollow" THEN "Follow" ELSE "Like")
  /\ named \/ type = "Unfollow"
  /\ issued' = Append(issued, [actor |-> a, type |-> type, named |-> named])
  /\ tries' = Append(tries, 0)
  /\ UNCHANGED <<acked, key, cache, blocked, tables, req, cut, history, now, cuts, blocks>>

Rotate(a) ==
  /\ key[a].key <= MaxRotations
  /\ key' = [key EXCEPT ![a] = [key |-> @.key + 1, at |-> now]]
  /\ UNCHANGED <<issued, tries, acked, cache, blocked, tables, req, cut, history, now, cuts, blocks>>

\* inbox or sharedInbox is called with a delivery signed just now.  Whoever
\* knocks too often is turned away before anything happens.
Deliver(r, i) ==
  /\ req[r] = Idle /\ i \notin acked /\ tries[i] < MaxAttempts
  /\ tries' = [tries EXCEPT ![i] = @ + 1]
  /\ \E scheme \in DOMAIN Covers, drift \in Drifts :
       req' = [req EXCEPT ![r] =
                 [Idle EXCEPT !.pc = "auth", !.i = i,
                              !.sig = ReadSignature(scheme, Actor(i), drift)]]
  /\ odd' = IF \E s \in Requests : req[s].pc # "idle" /\ Actor(req[s].i) = Actor(i)
            THEN odd \cup {Actor(i)} ELSE odd
  /\ UNCHANGED <<issued, acked, key, cache, blocked, tables, started, cut, wronged, now, cuts, blocks>>

-----------------------------------------------------------------------------
(* authenticateDelivery *)

\* Mutant: an entry of the cache lives on for as long as it is used.
CachedActorSliding(a) == cache[a] # NoActor

CachedActor(a) == cache[a] # NoActor /\ now - cache[a].at <= TTL

\* History: the sender signed with its key, its clock is right and nobody
\* blocked it, and if its key changed that was longer ago than the cache lasts.
Rightful(r) ==
  LET i == req[r].i
  IN  /\ Actor(i) \notin blocked /\ req[r].sig.key = key[Actor(i)].key
      /\ req[r].sig.date - now \in -ClockSkew..ClockSkew
      /\ now - key[Actor(i)].at > TTL

\* Signature and answer, once the key k is known.
Judge(r, k) ==
  IF Verify(req[r].sig, k)
  THEN Goto(r, "seen") /\ UNCHANGED <<acked, wronged>>
  ELSE Answer(r, FALSE) /\ wronged' = (wronged \/ Rightful(r))

\* deliveryBlocked, and remoteActor if the actor is in the cache.
Authenticate(r) ==
  LET a == Actor(req[r].i)
  IN  /\ req[r].pc = "auth"
      /\ IF a \in blocked THEN Answer(r, FALSE) /\ UNCHANGED wronged
         ELSE IF CachedActor(a) THEN Judge(r, cache[a].key)
         ELSE Goto(r, "fetch") /\ UNCHANGED <<acked, wronged>>
      /\ UNCHANGED <<senders, tries, cache, blocked, tables, started, cut, odd, now, cuts, blocks>>

\* FetchActor.
FetchActor(r) ==
  /\ req[r].pc = "fetch"
  /\ req' = [req EXCEPT ![r].pc = "remember", ![r].key = key[Actor(req[r].i)].key]
  /\ UNCHANGED <<senders, tries, acked, cache, blocked, tables, cut, history, now, cuts, blocks>>

\* RememberActor, which overwrites what another handler fetched meanwhile.
RememberActor(r) ==
  /\ req[r].pc = "remember"
  /\ cache' = [cache EXCEPT ![Actor(req[r].i)] = [key |-> req[r].key, at |-> now]]
  /\ Judge(r, req[r].key)
  /\ UNCHANGED <<senders, tries, blocked, tables, started, cut, odd, now, cuts, blocks>>

-----------------------------------------------------------------------------
(* dispatch *)

\* Mutant: nothing is remembered.
AlreadySeenNever(r) ==
  /\ req[r].pc = "seen"
  /\ Goto(r, "dispatch") /\ UNCHANGED <<acked, seen>>
  /\ started' = started \cup {req[r].i}
  /\ odd' = IF \E j \in started : j > req[r].i /\ Actor(j) = Actor(req[r].i)
                                  /\ req[r].i \notin started
            THEN odd \cup {Actor(req[r].i)} ELSE odd
  /\ UNCHANGED <<senders, tries, cache, blocked, follower, reaction, replies, accepts, cut,
                 wronged, now, cuts, blocks>>

\* AlreadySeen: the first delivery of an activity goes on, every other one is
\* told that all is well.
AlreadySeen(r) ==
  LET i == req[r].i
  IN  /\ req[r].pc = "seen"
      /\ seen' = seen \cup {i}
      /\ IF i \in seen
         THEN Answer(r, TRUE) /\ UNCHANGED <<started, odd>>
         ELSE /\ Goto(r, "dispatch") /\ UNCHANGED acked
              /\ started' = started \cup {i}
              /\ odd' = IF \E j \in started : j > i /\ Actor(j) = Actor(i)
                        THEN odd \cup {Actor(i)} ELSE odd
      /\ UNCHANGED <<senders, tries, cache, blocked, follower, reaction, replies, accepts, cut,
                     wronged, now, cuts, blocks>>

AddFollower(a) == follower' = follower \cup {a}
RemoveFollower(a) == follower' = follower \ {a}
\* RecordReaction keeps one row per actor.
RecordReaction(a) == reaction' = reaction \cup {a}
ForgetReaction(a) == reaction' = reaction \ {a}

\* acceptFollow: the follower is recorded ...
AcceptFollow(r) ==
  /\ req[r].pc = "dispatch" /\ issued[req[r].i].type = "Follow"
  /\ AddFollower(Actor(req[r].i))
  /\ Goto(r, "accept")
  /\ UNCHANGED <<senders, tries, acked, cache, blocked, seen, reaction, replies, accepts, cut,
                 history, now, cuts, blocks>>

\* Mutant: the Accept is only queued for somebody new.
QueueAcceptOnce(r) ==
  /\ req[r].pc = "accept"
  /\ accepts' = IF \E i \in accepts : Actor(i) = Actor(req[r].i) THEN accepts
                ELSE accepts \cup {req[r].i}
  /\ Answer(r, TRUE)
  /\ UNCHANGED <<senders, tries, cache, blocked, seen, follower, reaction, replies, cut,
                 history, now, cuts, blocks>>

\* ... and queueAccept answers that Follow.
QueueAccept(r) ==
  /\ req[r].pc = "accept"
  /\ accepts' = accepts \cup {req[r].i}
  /\ Answer(r, TRUE)
  /\ UNCHANGED <<senders, tries, cache, blocked, seen, follower, reaction, replies, cut,
                 history, now, cuts, blocks>>

\* addressee: whom a delivery to the shared inbox is for.
Addressee(i) == issued[i].named

\* undo: RemoveFollower for the account found, or for nobody; ForgetReaction
\* names the post itself.
Undo(r) ==
  LET i == req[r].i
  IN  /\ req[r].pc = "dispatch" /\ issued[i].type \in {"Unfollow", "Unlike"}
      /\ \/ issued[i].type = "Unfollow" /\ Addressee(i) /\ RemoveFollower(Actor(i)) /\ UNCHANGED reaction
         \/ issued[i].type = "Unfollow" /\ ~Addressee(i) /\ UNCHANGED <<follower, reaction>>
         \/ issued[i].type = "Unlike" /\ ForgetReaction(Actor(i)) /\ UNCHANGED follower
      /\ Answer(r, TRUE)
      /\ UNCHANGED <<senders, tries, cache, blocked, seen, replies, accepts, cut, history, now,
                     cuts, blocks>>

\* acceptReaction.
AcceptReaction(r) ==
  /\ req[r].pc = "dispatch" /\ issued[req[r].i].type = "Like"
  /\ RecordReaction(Actor(req[r].i))
  /\ Answer(r, TRUE)
  /\ UNCHANGED <<senders, tries, cache, blocked, seen, follower, replies, accepts, cut, history,
                 now, cuts, blocks>>

\* acceptCreate stores a reply to a post of ours; anything else is ignored.
AcceptCreate(r) ==
  /\ req[r].pc = "dispatch" /\ issued[req[r].i].type = "Create"
  /\ replies' = replies \cup {req[r].i}
  /\ Answer(r, TRUE)
  /\ UNCHANGED <<senders, tries, cache, blocked, seen, follower, reaction, accepts, cut, history,
                 now, cuts, blocks>>

\* A statement fails and the handler says so, or the process stops: the sender
\* is not told that all is well, but the activity stays marked.
Fail(r) ==
  /\ req[r].pc # "idle" /\ cuts < MaxCuts /\ cuts' = cuts + 1
  /\ cut' = cut \cup {req[r].i}
  /\ Answer(r, FALSE)
  /\ UNCHANGED <<senders, tries, cache, blocked, tables, history, now, blocks>>

\* A statement fails and the handler goes on: without the block list, without
\* a cache entry, without a mark, or to a success it did not have.
Logged(r) ==
  /\ cuts < MaxCuts /\ cuts' = cuts + 1
  /\ cut' = cut \cup {req[r].i}
  /\ \/ req[r].pc = "auth" /\ Goto(r, "fetch") /\ UNCHANGED <<acked, started, wronged>>
     \/ req[r].pc = "remember" /\ Judge(r, req[r].key) /\ UNCHANGED started
     \/ /\ req[r].pc = "seen" /\ Goto(r, "dispatch") /\ started' = started \cup {req[r].i}
        /\ UNCHANGED <<acked, wronged>>
     \/ /\ \/ req[r].pc = "accept"
           \/ req[r].pc = "dispatch" /\ issued[req[r].i].type \in {"Unfollow", "Like", "Unlike"}
        /\ Answer(r, TRUE) /\ UNCHANGED <<started, wronged>>
  /\ UNCHANGED <<senders, tries, cache, blocked, tables, odd, now, blocks>>

-----------------------------------------------------------------------------
(* The rest of the world *)

\* A moderator blocks the domain of an actor, or lifts the block.
Block(a) ==
  /\ blocks < MaxBlocks /\ blocks' = blocks + 1
  /\ blocked' = IF a \in blocked THEN blocked \ {a} ELSE blocked \cup {a}
  /\ UNCHANGED <<senders, tries, acked, cache, tables, req, cut, history, now, cuts>>

\* ForgetOldActivities, thirty days later, at the end of the time of the model:
\* every sender has given up by then.
ForgetOldActivities(i) ==
  /\ now = MaxTime /\ i \in seen /\ (i \in acked \/ tries[i] = MaxAttempts) /\ \A r \in Requests : req[r] = Idle
  /\ seen' = seen \ {i}
  /\ UNCHANGED <<senders, tries, acked, cache, blocked, follower, reaction, replies, accepts,
                 req, cut, history, now, cuts, blocks>>

\* Time passes, in units no handler lasts.
Tick ==
  /\ now < MaxTime /\ \A r \in Requests : req[r] = Idle
  /\ now' = now + 1
  /\ UNCHANGED <<senders, tries, acked, cache, blocked, tables, req, cut, history, cuts, blocks>>

Init ==
  /\ issued = <<>> /\ tries = <<>> /\ acked = {}
  /\ key = [a \in Actors |-> [key |-> 1, at |-> 0]] /\ cache = [a \in Actors |-> NoActor]
  /\ blocked = {} /\ seen = {} /\ follower = {} /\ reaction = {} /\ replies = {} /\ accepts = {}
  /\ req = [r \in Requests |-> Idle]
  /\ started = {} /\ cut = {} /\ odd = {} /\ wronged = FALSE /\ now = 0 /\ cuts = 0 /\ blocks = 0

Next ==
  \/ \E a \in Actors :
       \/ \E type \in Types, named \in BOOLEAN : Issue(a, type, named)
       \/ Rotate(a) \/ Block(a)
  \/ \E r \in Requests :
       \/ \E i \in DOMAIN issued : Deliver(r, i)
       \/ Authenticate(r) \/ FetchActor(r) \/ RememberActor(r) \/ AlreadySeen(r)
       \/ AcceptFollow(r) \/ QueueAccept(r) \/ Undo(r) \/ AcceptReaction(r) \/ AcceptCreate(r)
       \/ Fail(r) \/ Logged(r)
  \/ \E i \in DOMAIN issued : ForgetOldActivities(i)
  \/ Tick

Spec == Init /\ [][Next]_vars

-----------------------------------------------------------------------------
(* Properties *)

UnderWay(i) == \E r \in Requests : req[r].pc # "idle" /\ req[r].i = i

\* The tables only hold what was issued and authenticated; what is marked was
\* dispatched, and the cache never holds a key its actor did not yet have.
TypeOK ==
  /\ replies \cup accepts \cup seen \subseteq started /\ started \cup acked \subseteq DOMAIN issued
  /\ follower \cup reaction \subseteq {Actor(i) : i \in started}
  /\ \A a \in Actors : cache[a].key <= key[a].key /\ cache[a].at <= now

\* The tables tell nothing that was not said (TypeOK), and what was
\* acknowledged was done: a reply is stored, a Follow is answered with
\* an Accept of its own.  The early mark in inbox_seen breaks this only for an
\* activity whose handler failed, or is still at work.
Acknowledged ==
  /\ TypeOK
  /\ \A i \in acked \ cut : ~UnderWay(i) =>
       /\ issued[i].type = "Create" => i \in replies
       /\ issued[i].type = "Follow" => i \in accepts

\* LastOf(a, on, off): the type of the last of the two kinds a issued.
LastOf(a, on, off) ==
  LET mine == {i \in DOMAIN issued : issued[i].actor = a /\ issued[i].type \in {on, off}}
  IN  IF mine = {} THEN off ELSE issued[CHOOSE i \in mine : \A j \in mine : j <= i].type

\* However often activities are repeated: when everything an actor issued was
\* acknowledged and nothing failed, overlapped, overtook or left out whom it
\* was for, the tables say what the actor last said.
MatchesWish ==
  \A a \in Actors :
    LET mine == {i \in DOMAIN issued : Actor(i) = a}
    IN  mine \subseteq acked /\ mine \cap cut = {} /\ a \notin odd
        /\ (\A i \in mine : ~UnderWay(i) /\ Addressee(i)) =>
          /\ (a \in follower) = (LastOf(a, "Follow", "Unfollow") = "Follow")
          /\ (a \in reaction) = (LastOf(a, "Like", "Unlike") = "Like")

\* Nobody is refused for longer than the cache of keys lasts, whichever of the
\* two signature schemes it uses.
NotWronged == ~wronged

=============================================================================
