----------------------------- MODULE PeersProofs -----------------------------
(***************************************************************************)
(* What the inbox promises the servers that deliver to it, and what the    *)
(* two sides of a push subscription know of each other (Inbox and Push, as *)
(* parts of Federation), for every number of actors, handlers, activities, *)
(* requests, exchanges, rotations of keys, losses and failures.            *)
(*                                                                         *)
(* The inductive invariant of the inbox:                                   *)
(*  - InboxTypes.  What the tables and the handlers hold.                  *)
(*  - InboxKeys.  A key that was fetched or cached after the last rotation *)
(*    is the key: this is what makes a refusal rightful.                   *)
(*  - InboxMarks.  Whatever was dispatched is still at work, failed, or    *)
(*    was carried out.                                                     *)
(*  - InboxOrder.  While nothing an actor issued failed, overlapped or     *)
(*    overtook, the activity at work is the last of those begun, and       *)
(*    without it the tables say what the last of each kind said.           *)
(*                                                                         *)
(* The inductive invariant of push, PushInv:                               *)
(*                                                                         *)
(*  - PushTypes, PushSense.  What tables and messages hold, and where they *)
(*    come from.                                                           *)
(*  - Single.  A clean exchange is the only one of its protocol, and an    *)
(*    exchange that is not clean puts in doubt what both sides know.       *)
(*  - Staged.  What a clean exchange has reached on both sides, by the     *)
(*    step it is at.                                                       *)
(*  - Fitting.  What is certain and has not been touched since fits: the   *)
(*    subscriber, its lease, its secret.                                   *)
(*  - Lasting.  Hours of a lease are only used up by requests that are     *)
(*    lost and upkeeps that pass it over, but for the one the upkeep of    *)
(*    this hour is about to ask for.                                       *)
(*  - Posted.  A delivery that met no exchange carries the secret the      *)
(*    follower checks.                                                     *)
(***************************************************************************)
EXTENDS Federation, FiniteSetTheorems, TLAPS

Activity == [actor : Actors, type : Types, named : BOOLEAN]
Dated == [key : Nat, at : Int]
Signature == [key : Nat, date : Int, covers : BOOLEAN]
Places == {"idle", "auth", "fetch", "remember", "seen", "dispatch", "accept"}
Handling == [pc : Places, i : Nat, sig : Signature, key : Nat]

Busy(r) == req[r].pc # "idle"
AtWork(r) == req[r].pc \in {"dispatch", "accept"}

InboxTypes ==
  /\ issued \in Seq(Activity)
  /\ key \in [Actors -> Dated] /\ cache \in [Actors -> Dated] /\ now \in Int
  /\ req \in [Requests -> Handling]
  /\ \A r \in Requests : req[r].sig.covers /\ (Busy(r) => req[r].i \in DOMAIN issued)

\* A key, and the time it was learnt at, against the key of its actor.
Learnt(k, at, a) == k <= key[a].key /\ (key[a].at < at => k = key[a].key)

InboxKeys ==
  /\ \A a \in Actors :
       key[a].at <= now /\ cache[a].at <= now /\ Learnt(cache[a].key, cache[a].at, a)
  /\ \A r \in Requests : req[r].pc = "remember" => Learnt(req[r].key, now, Inbox!Actor(req[r].i))

CarriedOut(i) ==
  /\ issued[i].type = "Create" => i \in replies
  /\ issued[i].type = "Follow" => i \in accepts

InboxMarks ==
  /\ replies \subseteq started /\ accepts \subseteq started /\ seen \subseteq started
  /\ started \subseteq DOMAIN issued /\ acked \subseteq DOMAIN issued
  /\ \A a \in follower \cup reaction : \E i \in started : issued[i].actor = a
  /\ \A i \in acked : i \in cut \/ i \in started
  /\ \A r \in Requests : AtWork(r) => req[r].i \in started
  /\ \A r \in Requests : req[r].pc = "accept" => issued[req[r].i].type = "Follow"
  /\ \A i \in started :
       i \in cut \/ CarriedOut(i) \/ \E r \in Requests : AtWork(r) /\ req[r].i = i

\* An actor whose activities came one after the other, and whole.
Orderly(a) ==
  /\ a \notin odd
  /\ \A i \in DOMAIN issued : issued[i].actor = a => i \notin cut /\ issued[i].named

Begun(a) == {i \in started : issued[i].actor = a}

\* What a said last, of what was begun here.
Says(a, on, off) ==
  \E i \in Begun(a) : issued[i].type = on /\ \A j \in Begun(a) : issued[j].type = off => j < i

\* No handler is about to change what the table says of a.
Settled(a, on, off) ==
  \A r \in Requests :
    req[r].pc = "dispatch" /\ issued[req[r].i].actor = a => issued[req[r].i].type \notin {on, off}

Alone(a) ==
  \A r, s \in Requests :
    Busy(r) /\ Busy(s) /\ issued[req[r].i].actor = a /\ issued[req[s].i].actor = a => r = s

Newest(a) ==
  \A r \in Requests : AtWork(r) /\ issued[req[r].i].actor = a => \A j \in Begun(a) : j <= req[r].i

OfKind(a, on, off) == {i \in DOMAIN issued : issued[i].actor = a /\ issued[i].type \in {on, off}}

HasLast(a, on, off) ==
  OfKind(a, on, off) # {} => \E i \in OfKind(a, on, off) : \A j \in OfKind(a, on, off) : j <= i

Follows(a) == Settled(a, "Follow", "Unfollow") => (a \in follower <=> Says(a, "Follow", "Unfollow"))
Likes(a) == Settled(a, "Like", "Unlike") => (a \in reaction <=> Says(a, "Like", "Unlike"))

InboxOrder ==
  \A a \in Actors :
    /\ HasLast(a, "Follow", "Unfollow") /\ HasLast(a, "Like", "Unlike")
    /\ Orderly(a) => Alone(a) /\ Newest(a) /\ Follows(a) /\ Likes(a)

InboxInv == InboxTypes /\ InboxKeys /\ ~wronged /\ InboxMarks /\ InboxOrder

-----------------------------------------------------------------------------
(* Handlers *)

\* Handler r is at pc now, with the delivery it had; the others stay where
\* they are.
MovesTo(r, pc) ==
  /\ req' \in [Requests -> Handling]
  /\ req'[r].pc = pc
  /\ pc # "idle" => req'[r].i = req[r].i
  /\ req'[r].sig.covers
  /\ \A s \in Requests : s # r => req'[s] = req[s]

LEMMA IdleFits == Inbox!Idle \in Handling /\ Inbox!Idle.pc = "idle" /\ Inbox!Idle.sig.covers
  BY DEF Inbox!Idle, Handling, Signature, Places

\* Goto: a handler goes on.
LEMMA GotoMoves ==
  ASSUME InboxTypes, NEW r \in Requests, NEW pc \in Places, Inbox!Goto(r, pc)
  PROVE  MovesTo(r, pc) /\ req'[r].key = req[r].key
  <1>1. req[r] \in Handling /\ req[r].sig.covers
    BY DEF InboxTypes
  <1>2. [req[r] EXCEPT !.pc = pc] \in Handling
    BY <1>1 DEF Handling
  <1>3. req' = [req EXCEPT ![r] = [req[r] EXCEPT !.pc = pc]]
    BY DEF Inbox!Goto
  <1>4. req' \in [Requests -> Handling] /\ req'[r] = [req[r] EXCEPT !.pc = pc]
    BY <1>2, <1>3 DEF InboxTypes
  <1>5. req'[r].pc = pc /\ req'[r].i = req[r].i /\ req'[r].sig = req[r].sig /\ req'[r].key = req[r].key
    BY <1>4, <1>1 DEF Handling
  <1> QED
    BY <1>1, <1>3, <1>4, <1>5 DEF MovesTo, InboxTypes

\* Answer: a handler is done, and the sender may hear that all is well.
LEMMA AnswerMoves ==
  ASSUME InboxTypes, NEW r \in Requests, NEW ok \in BOOLEAN, Inbox!Answer(r, ok)
  PROVE  /\ MovesTo(r, "idle")
         /\ acked' = acked \/ (ok /\ acked' = acked \cup {req[r].i})
  BY IdleFits DEF Inbox!Answer, MovesTo, InboxTypes

-----------------------------------------------------------------------------
(* Signatures *)

\* coversAll: what either scheme signs covers what it must.
LEMMA SignaturesCover ==
  ASSUME NEW scheme \in DOMAIN Inbox!Covers
  PROVE  Inbox!CoversAll(scheme)
  <1>1. DOMAIN Inbox!Covers = {"cavage", "rfc9421"}
    BY DEF Inbox!Covers
  <1>2. CASE scheme = "cavage"
    BY <1>2 DEF Inbox!CoversAll, Inbox!Covers, Inbox!MustCover
  <1>3. CASE scheme = "rfc9421"
    BY <1>3 DEF Inbox!CoversAll, Inbox!Covers, Inbox!MustCover
  <1> QED
    BY <1>1, <1>2, <1>3

\* Judge: a handler goes on, or refuses; it refuses a rightful delivery only
\* for a key that is not the sender's.
LEMMA JudgeMoves ==
  ASSUME InboxTypes, NEW r \in Requests, NEW k \in Nat, Inbox!Judge(r, k), ~wronged,
         Inbox!Rightful(r) => k = key[Inbox!Actor(req[r].i)].key
  PROVE  /\ MovesTo(r, "seen") \/ MovesTo(r, "idle")
         /\ acked' = acked /\ ~wronged'
  <1>1. CASE Inbox!Verify(req[r].sig, k)
    <2>1. Inbox!Goto(r, "seen") /\ UNCHANGED <<acked, wronged>>
      BY <1>1 DEF Inbox!Judge
    <2>2. MovesTo(r, "seen")
      BY <2>1, GotoMoves DEF Places
    <2> QED
      BY <2>1, <2>2
  <1>2. CASE ~Inbox!Verify(req[r].sig, k)
    <2>1. Inbox!Answer(r, FALSE) /\ wronged' = (wronged \/ Inbox!Rightful(r))
      BY <1>2 DEF Inbox!Judge
    <2>2. MovesTo(r, "idle") /\ acked' = acked
      BY <2>1, AnswerMoves
    <2>3. req[r].sig.covers /\ req[r].sig.date \in Int /\ now \in Int /\ ClockSkew \in Nat
      BY InboxAssumption DEF InboxTypes, Handling, Signature
    <2>4. ~Inbox!Rightful(r)
      <3> SUFFICES ASSUME Inbox!Rightful(r) PROVE FALSE
        OBVIOUS
      <3>1. req[r].sig.key = k
        BY DEF Inbox!Rightful
      <3>2. req[r].sig.date - now \in -ClockSkew..ClockSkew
        BY DEF Inbox!Rightful
      <3>3. now - req[r].sig.date <= ClockSkew /\ req[r].sig.date - now <= ClockSkew
        BY <3>2, <2>3
      <3> QED
        BY <1>2, <2>3, <3>1, <3>3 DEF Inbox!Verify
    <2> QED
      BY <2>1, <2>2, <2>4
  <1> QED
    BY <1>1, <1>2

-----------------------------------------------------------------------------
(* Types, keys and refusals *)

InboxFirst == InboxTypes /\ InboxKeys /\ ~wronged

LEMMA InboxFirstInit == Inbox!Init => InboxFirst
  <1> SUFFICES ASSUME Inbox!Init PROVE InboxFirst
    OBVIOUS
  <1>1. req \in [Requests -> Handling] /\ \A r \in Requests : req[r] = Inbox!Idle
    BY IdleFits DEF Inbox!Init
  <1>2. key \in [Actors -> Dated] /\ cache \in [Actors -> Dated]
    BY DEF Inbox!Init, Inbox!NoActor, Dated
  <1>3. InboxTypes
    BY <1>1, <1>2, IdleFits DEF Inbox!Init, InboxTypes, Busy
  <1>4. InboxKeys
    BY <1>1, IdleFits DEF Inbox!Init, Inbox!NoActor, InboxKeys, Learnt
  <1> QED
    BY <1>3, <1>4 DEF Inbox!Init, InboxFirst

\* A handler that works, and what stays as it is meanwhile.
LEMMA HandlerFirst ==
  ASSUME InboxFirst, NEW r \in Requests, NEW pc \in Places, MovesTo(r, pc), Busy(r),
         issued' = issued, key' = key, cache' = cache, now' = now, ~wronged',
         pc = "remember" => Learnt(req'[r].key, now, Inbox!Actor(req[r].i))
  PROVE  InboxFirst'
  <1>1. InboxTypes'
    BY DEF InboxFirst, InboxTypes, MovesTo, Busy
  <1>2. \A s \in Requests :
          req'[s].pc = "remember" => Learnt(req'[s].key, now, Inbox!Actor(req'[s].i))
    BY DEF InboxFirst, InboxKeys, MovesTo
  <1>3. InboxKeys'
    BY <1>2 DEF InboxFirst, InboxKeys, Learnt, Inbox!Actor
  <1> QED
    BY <1>1, <1>3 DEF InboxFirst

LEMMA ActorFits ==
  ASSUME InboxTypes, NEW i \in DOMAIN issued
  PROVE  i \in Nat /\ issued[i] \in Activity /\ Inbox!Actor(i) \in Actors
  <1>1. issued \in Seq(Activity) /\ DOMAIN issued = 1..Len(issued) /\ Len(issued) \in Nat
    BY DEF InboxTypes
  <1>2. i \in Nat /\ issued[i] \in Activity
    BY <1>1
  <1>3. issued[i].actor \in Actors
    BY <1>2 DEF Activity
  <1> QED
    BY <1>2, <1>3 DEF Inbox!Actor

\* A handler that begins.
BegunWith(h, i, s) == [h EXCEPT !.pc = "auth", !.i = i, !.sig = s]

LEMMA BeginFits ==
  ASSUME NEW h \in Handling, NEW i \in Nat, NEW s \in Signature
  PROVE  /\ BegunWith(h, i, s) \in Handling
         /\ BegunWith(h, i, s).pc = "auth" /\ BegunWith(h, i, s).i = i /\ BegunWith(h, i, s).sig = s
  <1> DEFINE one == [h EXCEPT !.pc = "auth"]
  <1> DEFINE two == [one EXCEPT !.i = i]
  <1> DEFINE three == [two EXCEPT !.sig = s]
  <1>1. one \in Handling /\ one.pc = "auth"
    BY DEF Handling, Places
  <1> HIDE DEF one
  <1>2. two \in Handling /\ two.pc = "auth" /\ two.i = i
    BY <1>1 DEF Handling
  <1> HIDE DEF two
  <1>3. three \in Handling /\ three.pc = "auth" /\ three.i = i /\ three.sig = s
    BY <1>2 DEF Handling
  <1>4. three = BegunWith(h, i, s)
    BY DEF one, two, three, BegunWith
  <1> QED
    BY <1>3, <1>4

LEMMA IssueFirst ==
  ASSUME InboxFirst, NEW a \in Actors, NEW type \in Types, NEW named \in BOOLEAN,
         Inbox!Issue(a, type, named)
  PROVE  InboxFirst'
  <1> DEFINE act == [actor |-> a, type |-> type, named |-> named]
  <1>1. issued' = Append(issued, act) /\ act \in Activity
        /\ UNCHANGED <<key, cache, now, req, wronged>>
    BY DEF Inbox!Issue, Inbox!history, Activity
  <1>2. issued' \in Seq(Activity) /\ \A i \in DOMAIN issued : i \in DOMAIN issued' /\ issued'[i] = issued[i]
    BY <1>1 DEF InboxFirst, InboxTypes
  <1>3. InboxTypes'
    BY <1>1, <1>2 DEF InboxFirst, InboxTypes, Busy
  <1>4. \A r \in Requests : req[r].pc = "remember" => req[r].i \in DOMAIN issued
    BY DEF InboxFirst, InboxTypes, Busy
  <1>5. InboxKeys'
    BY <1>1, <1>2, <1>4 DEF InboxFirst, InboxKeys, Learnt, Inbox!Actor
  <1> QED
    BY <1>1, <1>3, <1>5 DEF InboxFirst

LEMMA RotateFirst ==
  ASSUME InboxFirst, NEW a \in Actors, Inbox!Rotate(a)
  PROVE  InboxFirst'
  <1>1. UNCHANGED <<issued, cache, now, req, wronged>>
        /\ key' = [key EXCEPT ![a] = [key |-> key[a].key + 1, at |-> now]]
    BY DEF Inbox!Rotate, Inbox!history
  <1>2. key \in [Actors -> Dated] /\ now \in Int /\ key[a].key \in Nat
    BY DEF InboxFirst, InboxTypes, Dated
  <1>3. key' \in [Actors -> Dated] /\ key'[a].key = key[a].key + 1 /\ key'[a].at = now
        /\ \A b \in Actors : b # a => key'[b] = key[b]
    BY <1>1, <1>2 DEF Dated
  <1>4. InboxTypes'
    BY <1>1, <1>3 DEF InboxFirst, InboxTypes, Busy
  <1>5. ASSUME NEW k \in Nat, NEW at \in Int, NEW b \in Actors, at <= now, Learnt(k, at, b)
        PROVE  k <= key'[b].key /\ (key'[b].at < at => k = key'[b].key)
    BY <1>2, <1>3, <1>5 DEF Learnt
  <1>6. \A b \in Actors :
          /\ key'[b].at <= now /\ cache[b].at <= now
          /\ cache[b].key <= key'[b].key /\ (key'[b].at < cache[b].at => cache[b].key = key'[b].key)
    <2> SUFFICES ASSUME NEW b \in Actors
                 PROVE  /\ key'[b].at <= now /\ cache[b].at <= now
                        /\ cache[b].key <= key'[b].key
                        /\ (key'[b].at < cache[b].at => cache[b].key = key'[b].key)
      OBVIOUS
    <2>1. cache[b].key \in Nat /\ cache[b].at \in Int
      BY DEF InboxFirst, InboxTypes, Dated
    <2>2. key[b].at <= now /\ cache[b].at <= now /\ Learnt(cache[b].key, cache[b].at, b)
      BY DEF InboxFirst, InboxKeys
    <2>3. key'[b].at <= now
      BY <2>2, <1>2, <1>3
    <2> QED
      BY <2>1, <2>2, <2>3, <1>5
  <1>7. ASSUME NEW r \in Requests, req[r].pc = "remember"
        PROVE  LET b == Inbox!Actor(req[r].i)
               IN  req[r].key <= key'[b].key /\ (key'[b].at < now => req[r].key = key'[b].key)
    <2>1. Inbox!Actor(req[r].i) \in Actors /\ req[r].key \in Nat /\ Learnt(req[r].key, now, Inbox!Actor(req[r].i))
      BY <1>7, ActorFits DEF InboxFirst, InboxTypes, InboxKeys, Handling, Busy
    <2> QED
      BY <2>1, <1>2, <1>5
  <1>8. InboxKeys'
    BY <1>1, <1>6, <1>7 DEF InboxKeys, Learnt, Inbox!Actor
  <1> QED
    BY <1>1, <1>4, <1>8 DEF InboxFirst

LEMMA DeliverFirst ==
  ASSUME InboxFirst, NEW r \in Requests, NEW i \in DOMAIN issued, Inbox!Deliver(r, i)
  PROVE  /\ InboxFirst'
         /\ req'[r].pc = "auth" /\ req'[r].i = i
         /\ \A s \in Requests : s # r => req'[s] = req[s]
  <1>1. UNCHANGED <<issued, key, cache, now, wronged>>
    BY DEF Inbox!Deliver
  <1>2. PICK scheme \in DOMAIN Inbox!Covers, drift \in Drifts :
          req' = [req EXCEPT ![r] =
                 [Inbox!Idle EXCEPT !.pc = "auth", !.i = i,
                              !.sig = Inbox!ReadSignature(scheme, Inbox!Actor(i), drift)]]
    BY DEF Inbox!Deliver
  <1> DEFINE sig == Inbox!ReadSignature(scheme, Inbox!Actor(i), drift)
  <1> DEFINE new == [Inbox!Idle EXCEPT !.pc = "auth", !.i = i, !.sig = sig]
  <1>3. Inbox!Actor(i) \in Actors /\ i \in Nat
    BY ActorFits DEF InboxFirst
  <1>4. drift \in Int /\ now \in Int /\ key[Inbox!Actor(i)].key \in Nat
    BY <1>3, InboxAssumption DEF InboxFirst, InboxTypes, Dated
  <1>5. sig.covers /\ sig.covers \in BOOLEAN
    BY SignaturesCover DEF Inbox!ReadSignature, Inbox!CoversAll
  <1>6. sig \in Signature
    <2>1. Inbox!CoversAll(scheme) \in BOOLEAN
      BY DEF Inbox!CoversAll
    <2> QED
      BY <2>1, <1>4 DEF Inbox!ReadSignature, Signature
  <1> HIDE DEF sig
  <1>8. new \in Handling /\ new.pc = "auth" /\ new.i = i /\ new.sig = sig
    <2>1. new = BegunWith(Inbox!Idle, i, sig)
      BY DEF BegunWith
    <2> QED
      BY <2>1, <1>6, <1>3, IdleFits, BeginFits
  <1>9. req' = [req EXCEPT ![r] = new]
    BY <1>2 DEF sig
  <1> HIDE DEF new
  <1>10. req' \in [Requests -> Handling] /\ req'[r] = new /\ \A s \in Requests : s # r => req'[s] = req[s]
    BY <1>8, <1>9 DEF InboxFirst, InboxTypes
  <1>11. InboxTypes'
    BY <1>1, <1>5, <1>8, <1>10 DEF InboxFirst, InboxTypes, Busy
  <1>12. InboxKeys'
    BY <1>1, <1>8, <1>10 DEF InboxFirst, InboxKeys, Learnt, Inbox!Actor
  <1> QED
    BY <1>1, <1>8, <1>10, <1>11, <1>12 DEF InboxFirst

-----------------------------------------------------------------------------
(* What the statements of a handler come to *)

inboxTables == <<seen, follower, reaction, replies, accepts>>

\* Before the dispatch: nothing is written but the cache.
Passes(r) ==
  /\ Busy(r) /\ ~AtWork(r)
  /\ \E pc \in {"idle", "fetch", "remember", "seen"} : MovesTo(r, pc)
  /\ UNCHANGED <<issued, acked, inboxTables, started, odd>> /\ cut \subseteq cut'

\* A repetition is told that all is well.
TurnsAway(r) ==
  /\ Busy(r) /\ ~AtWork(r) /\ MovesTo(r, "idle") /\ req[r].i \in seen
  /\ acked' \subseteq acked \cup {req[r].i} /\ acked \subseteq acked'
  /\ UNCHANGED <<issued, inboxTables, started, odd, cut>>

\* The dispatch begins, marked or not.
Begins(r) ==
  /\ Busy(r) /\ ~AtWork(r) /\ MovesTo(r, "dispatch")
  /\ started' = started \cup {req[r].i} /\ seen \subseteq seen' /\ seen' \subseteq seen \cup {req[r].i}
  /\ \/ req[r].i \in cut'
     \/ issued[req[r].i].actor \in odd'
     \/ \A j \in started : issued[j].actor = issued[req[r].i].actor => ~(j > req[r].i)
  /\ odd \subseteq odd' /\ cut \subseteq cut'
  /\ UNCHANGED <<issued, acked, follower, reaction, replies, accepts>>

\* A statement failed, and the handler is done.
Gives(r) ==
  /\ Busy(r) /\ MovesTo(r, "idle") /\ cut' = cut \cup {req[r].i}
  /\ acked' \subseteq acked \cup {req[r].i} /\ acked \subseteq acked'
  /\ UNCHANGED <<issued, inboxTables, started, odd>>

\* The dispatch goes on to place pc.
WorksOn(r, pc) ==
  /\ AtWork(r) /\ MovesTo(r, pc)
  /\ acked' \subseteq acked \cup {req[r].i} /\ acked \subseteq acked'
  /\ UNCHANGED <<issued, seen, started, odd, cut>>

Works(r) ==
  \/ Inbox!AcceptFollow(r) /\ WorksOn(r, "accept")
  \/ Inbox!QueueAccept(r) /\ WorksOn(r, "idle")
  \/ Inbox!Undo(r) /\ WorksOn(r, "idle")
  \/ Inbox!AcceptReaction(r) /\ WorksOn(r, "idle")
  \/ Inbox!AcceptCreate(r) /\ WorksOn(r, "idle")

HandlerStep(r) == Passes(r) \/ TurnsAway(r) \/ Begins(r) \/ Gives(r) \/ Works(r)

LEMMA JudgedFirst ==
  ASSUME InboxFirst, NEW r \in Requests, Busy(r),
         MovesTo(r, "seen") \/ MovesTo(r, "idle"),
         issued' = issued, key' = key, cache' = cache, now' = now, ~wronged'
  PROVE  InboxFirst'
  BY HandlerFirst DEF Places

LEMMA AuthenticateStep ==
  ASSUME InboxFirst, NEW r \in Requests, Inbox!Authenticate(r)
  PROVE  InboxFirst' /\ Passes(r)
  <1> DEFINE a == Inbox!Actor(req[r].i)
  <1>1. req[r].pc = "auth" /\ UNCHANGED <<issued, key, cache, inboxTables, started, cut, odd, now>>
    BY DEF Inbox!Authenticate, Inbox!senders, Inbox!tables, inboxTables
  <1>2. Busy(r) /\ ~AtWork(r) /\ InboxTypes /\ ~wronged
    BY <1>1 DEF Busy, AtWork, InboxFirst
  <1>3. a \in Actors
    BY <1>2, ActorFits DEF InboxTypes
  <1>4. CASE a \in blocked
    <2>1. Inbox!Answer(r, FALSE) /\ wronged' = wronged
      BY <1>4 DEF Inbox!Authenticate
    <2>2. MovesTo(r, "idle") /\ acked' = acked
      BY <2>1, <1>2, AnswerMoves
    <2> QED
      BY <2>1, <2>2, <1>1, <1>2, JudgedFirst DEF Passes
  <1>5. CASE a \notin blocked /\ Inbox!CachedActor(a)
    <2>1. Inbox!Judge(r, cache[a].key)
      BY <1>5 DEF Inbox!Authenticate
    <2>2. cache[a].key \in Nat /\ now - cache[a].at <= TTL
      BY <1>2, <1>3, <1>5 DEF InboxTypes, Dated, Inbox!CachedActor
    <2>3. ASSUME Inbox!Rightful(r) PROVE cache[a].key = key[a].key
      <3>1. now - key[a].at > TTL
        BY <2>3 DEF Inbox!Rightful
      <3>2. key[a].at \in Int /\ cache[a].at \in Int /\ now \in Int /\ TTL \in Nat
        BY <1>2, <1>3, InboxAssumption DEF InboxTypes, Dated
      <3>3. key[a].at < cache[a].at
        BY <2>2, <3>1, <3>2
      <3> QED
        BY <3>3, <1>3 DEF InboxFirst, InboxKeys, Learnt
    <2>4. (MovesTo(r, "seen") \/ MovesTo(r, "idle")) /\ acked' = acked /\ ~wronged'
      BY <2>1, <2>2, <2>3, <1>2, JudgeMoves
    <2> QED
      BY <2>4, <1>1, <1>2, JudgedFirst DEF Passes
  <1>6. CASE a \notin blocked /\ ~Inbox!CachedActor(a)
    <2>1. Inbox!Goto(r, "fetch") /\ acked' = acked /\ wronged' = wronged
      BY <1>6 DEF Inbox!Authenticate
    <2>2. MovesTo(r, "fetch")
      BY <2>1, <1>2, GotoMoves DEF Places
    <2>3. InboxFirst'
      BY <2>1, <2>2, <1>1, <1>2, HandlerFirst DEF Places
    <2> QED
      BY <2>1, <2>2, <2>3, <1>1, <1>2 DEF Passes
  <1> QED
    BY <1>4, <1>5, <1>6

LEMMA FetchStep ==
  ASSUME InboxFirst, NEW r \in Requests, Inbox!FetchActor(r)
  PROVE  InboxFirst' /\ Passes(r)
  <1> DEFINE k == key[Inbox!Actor(req[r].i)].key
  <1>1. req[r].pc = "fetch" /\ UNCHANGED <<issued, acked, key, cache, inboxTables, started, cut, odd, now, wronged>>
    BY DEF Inbox!FetchActor, Inbox!senders, Inbox!tables, Inbox!history, inboxTables
  <1>2. Busy(r) /\ ~AtWork(r) /\ req[r] \in Handling /\ Inbox!Actor(req[r].i) \in Actors
    BY <1>1, ActorFits DEF Busy, AtWork, InboxFirst, InboxTypes
  <1>3. k \in Nat
    BY <1>2 DEF InboxFirst, InboxTypes, Dated
  <1>4. req' = [req EXCEPT ![r].pc = "remember", ![r].key = k]
    BY DEF Inbox!FetchActor
  <1> HIDE DEF k
  <1> DEFINE one == [req[r] EXCEPT !.pc = "remember"]
  <1> DEFINE two == [one EXCEPT !.key = k]
  <1>5. one \in Handling /\ one.pc = "remember" /\ one.i = req[r].i /\ one.sig = req[r].sig
    BY <1>2 DEF Handling, Places
  <1>6. req' = [req EXCEPT ![r] = two]
    BY <1>4 DEF InboxFirst, InboxTypes
  <1> HIDE DEF one
  <1>7. two \in Handling /\ two.pc = "remember" /\ two.i = req[r].i /\ two.sig = req[r].sig /\ two.key = k
    BY <1>5, <1>3 DEF Handling
  <1> HIDE DEF two
  <1>8. MovesTo(r, "remember") /\ req'[r].key = k
    BY <1>6, <1>7 DEF InboxFirst, InboxTypes, MovesTo
  <1>9. k <= k
    BY <1>3
  <1>10. Learnt(k, now, Inbox!Actor(req[r].i))
    BY <1>9 DEF Learnt, k
  <1>11. InboxFirst'
    BY <1>1, <1>2, <1>8, <1>10, HandlerFirst DEF Places, InboxFirst
  <1> QED
    BY <1>1, <1>2, <1>8, <1>11 DEF Passes

\* RememberActor: what is cached is what was fetched since the last tick.
LEMMA RememberStep ==
  ASSUME InboxFirst, NEW r \in Requests, Inbox!RememberActor(r)
  PROVE  InboxFirst' /\ Passes(r)
  <1> DEFINE a == Inbox!Actor(req[r].i)
  <1>1. req[r].pc = "remember" /\ UNCHANGED <<issued, key, inboxTables, started, cut, odd, now>>
    BY DEF Inbox!RememberActor, Inbox!senders, Inbox!tables, inboxTables
  <1>2. Busy(r) /\ ~AtWork(r) /\ InboxTypes /\ ~wronged
    BY <1>1 DEF Busy, AtWork, InboxFirst
  <1>3. a \in Actors /\ req[r].key \in Nat /\ Learnt(req[r].key, now, a)
    BY <1>1, <1>2, ActorFits DEF InboxFirst, InboxTypes, InboxKeys, Handling
  <1>4. Inbox!Judge(r, req[r].key) /\ cache' = [cache EXCEPT ![a] = [key |-> req[r].key, at |-> now]]
    BY DEF Inbox!RememberActor
  <1>5. ASSUME Inbox!Rightful(r) PROVE req[r].key = key[a].key
    <2>1. now - key[a].at > TTL
      BY <1>5 DEF Inbox!Rightful
    <2>2. key[a].at \in Int /\ now \in Int /\ TTL \in Nat
      BY <1>2, <1>3, InboxAssumption DEF InboxTypes, Dated
    <2>3. key[a].at < now
      BY <2>1, <2>2
    <2> QED
      BY <2>3, <1>3 DEF Learnt
  <1>6. (MovesTo(r, "seen") \/ MovesTo(r, "idle")) /\ acked' = acked /\ ~wronged'
    BY <1>2, <1>3, <1>4, <1>5, JudgeMoves
  <1>7. Passes(r)
    BY <1>1, <1>2, <1>6 DEF Passes
  <1>8. cache' \in [Actors -> Dated] /\ cache'[a].key = req[r].key /\ cache'[a].at = now
        /\ \A b \in Actors : b # a => cache'[b] = cache[b]
    BY <1>2, <1>3, <1>4 DEF InboxTypes, Dated
  <1>9. InboxTypes'
    BY <1>1, <1>2, <1>6, <1>8 DEF InboxTypes, MovesTo, Busy
  <1>10. \A b \in Actors : key[b].at <= now /\ cache'[b].at <= now /\ Learnt(cache'[b].key, cache'[b].at, b)
    <2>1. now <= now
      BY <1>2 DEF InboxTypes
    <2> QED
      BY <1>3, <1>8, <2>1 DEF InboxFirst, InboxKeys
  <1>11. \A s \in Requests :
          req'[s].pc = "remember" => Learnt(req'[s].key, now, Inbox!Actor(req'[s].i))
    BY <1>6 DEF InboxFirst, InboxKeys, MovesTo
  <1>12. InboxKeys'
    BY <1>1, <1>10, <1>11 DEF InboxKeys, Learnt, Inbox!Actor
  <1> QED
    BY <1>6, <1>7, <1>9, <1>12 DEF InboxFirst

\* AlreadySeen.
LEMMA SeenStep ==
  ASSUME InboxFirst, NEW r \in Requests, Inbox!AlreadySeen(r)
  PROVE  InboxFirst' /\ (TurnsAway(r) \/ Begins(r))
  <1> DEFINE i == req[r].i
  <1>1. req[r].pc = "seen" /\ seen' = seen \cup {i}
        /\ UNCHANGED <<issued, key, cache, follower, reaction, replies, accepts, cut, now, wronged>>
    BY DEF Inbox!AlreadySeen, Inbox!senders
  <1>2. Busy(r) /\ ~AtWork(r) /\ InboxTypes
    BY <1>1 DEF Busy, AtWork, InboxFirst
  <1>3. CASE i \in seen
    <2>1. Inbox!Answer(r, TRUE) /\ UNCHANGED <<started, odd>>
      BY <1>3 DEF Inbox!AlreadySeen
    <2>2. MovesTo(r, "idle") /\ (acked' = acked \/ acked' = acked \cup {i})
      BY <2>1, <1>2, AnswerMoves
    <2>3. seen' = seen
      BY <1>1, <1>3
    <2>4. InboxFirst'
      BY <2>2, <1>1, <1>2, HandlerFirst DEF Places, InboxFirst
    <2> QED
      BY <2>1, <2>2, <2>3, <2>4, <1>1, <1>2, <1>3 DEF TurnsAway, inboxTables
  <1>4. CASE i \notin seen
    <2>1. /\ Inbox!Goto(r, "dispatch") /\ acked' = acked /\ started' = started \cup {i}
          /\ odd' = IF \E j \in started : j > i /\ Inbox!Actor(j) = Inbox!Actor(i)
                    THEN odd \cup {Inbox!Actor(i)} ELSE odd
      BY <1>4 DEF Inbox!AlreadySeen
    <2>2. MovesTo(r, "dispatch")
      BY <2>1, <1>2, GotoMoves DEF Places
    <2>3. odd \subseteq odd'
      BY <2>1
    <2>4. issued[i].actor \in odd' \/ \A j \in started : issued[j].actor = issued[i].actor => ~(j > i)
      BY <2>1 DEF Inbox!Actor
    <2>5. InboxFirst'
      BY <2>2, <1>1, <1>2, HandlerFirst DEF Places, InboxFirst
    <2> QED
      BY <2>1, <2>2, <2>3, <2>4, <2>5, <1>1, <1>2 DEF Begins
  <1> QED
    BY <1>3, <1>4

\* The dispatch proper.
LEMMA WorkStep ==
  ASSUME InboxFirst, NEW r \in Requests,
         \/ Inbox!AcceptFollow(r) \/ Inbox!QueueAccept(r) \/ Inbox!Undo(r)
         \/ Inbox!AcceptReaction(r) \/ Inbox!AcceptCreate(r)
  PROVE  InboxFirst' /\ Works(r)
  <1>1. CASE Inbox!AcceptFollow(r)
    <2>1. req[r].pc = "dispatch" /\ Inbox!Goto(r, "accept")
          /\ UNCHANGED <<issued, acked, key, cache, seen, started, odd, cut, now, wronged>>
      BY <1>1 DEF Inbox!AcceptFollow, Inbox!senders, Inbox!history
    <2>2. MovesTo(r, "accept") /\ Busy(r) /\ AtWork(r)
      BY <2>1, GotoMoves DEF Places, Busy, AtWork, InboxFirst
    <2>3. InboxFirst'
      BY <2>1, <2>2, HandlerFirst DEF Places, InboxFirst
    <2> QED
      BY <1>1, <2>1, <2>2, <2>3 DEF Works, WorksOn
  <1>2. ASSUME AtWork(r), Inbox!Answer(r, TRUE),
               UNCHANGED <<issued, key, cache, seen, started, odd, cut, now, wronged>>
        PROVE  InboxFirst' /\ WorksOn(r, "idle")
    <2>1. MovesTo(r, "idle") /\ Busy(r) /\ (acked' = acked \/ acked' = acked \cup {req[r].i})
      BY <1>2, AnswerMoves DEF Busy, AtWork, InboxFirst
    <2>2. InboxFirst'
      BY <1>2, <2>1, HandlerFirst DEF Places, InboxFirst
    <2> QED
      BY <1>2, <2>1, <2>2 DEF WorksOn
  <1>3. CASE Inbox!QueueAccept(r)
    <2>1. InboxFirst' /\ WorksOn(r, "idle")
      BY <1>2, <1>3 DEF Inbox!QueueAccept, Inbox!senders, Inbox!history, AtWork
    <2> QED
      BY <1>3, <2>1 DEF Works
  <1>4. CASE Inbox!Undo(r)
    <2>1. InboxFirst' /\ WorksOn(r, "idle")
      BY <1>2, <1>4 DEF Inbox!Undo, Inbox!senders, Inbox!history, AtWork
    <2> QED
      BY <1>4, <2>1 DEF Works
  <1>5. CASE Inbox!AcceptReaction(r)
    <2>1. InboxFirst' /\ WorksOn(r, "idle")
      BY <1>2, <1>5 DEF Inbox!AcceptReaction, Inbox!senders, Inbox!history, AtWork
    <2> QED
      BY <1>5, <2>1 DEF Works
  <1>6. CASE Inbox!AcceptCreate(r)
    <2>1. InboxFirst' /\ WorksOn(r, "idle")
      BY <1>2, <1>6 DEF Inbox!AcceptCreate, Inbox!senders, Inbox!history, AtWork
    <2> QED
      BY <1>6, <2>1 DEF Works
  <1> QED
    BY <1>1, <1>3, <1>4, <1>5, <1>6

LEMMA FailStep ==
  ASSUME InboxFirst, NEW r \in Requests, Inbox!Fail(r)
  PROVE  InboxFirst' /\ Gives(r)
  <1>1. Busy(r) /\ cut' = cut \cup {req[r].i} /\ Inbox!Answer(r, FALSE)
        /\ UNCHANGED <<issued, key, cache, inboxTables, started, odd, now, wronged>>
    BY DEF Inbox!Fail, Inbox!senders, Inbox!tables, Inbox!history, inboxTables, Busy
  <1>2. MovesTo(r, "idle") /\ acked' = acked
    BY <1>1, AnswerMoves DEF InboxFirst
  <1>3. InboxFirst'
    BY <1>1, <1>2, HandlerFirst DEF Places, InboxFirst
  <1> QED
    BY <1>1, <1>2, <1>3 DEF Gives

\* A failure that is only logged.
LEMMA LoggedStep ==
  ASSUME InboxFirst, NEW r \in Requests, Inbox!Logged(r)
  PROVE  InboxFirst' /\ (Passes(r) \/ Begins(r) \/ Gives(r))
  <1> DEFINE a == Inbox!Actor(req[r].i)
  <1>1. cut' = cut \cup {req[r].i} /\ UNCHANGED <<issued, key, cache, inboxTables, odd, now>>
    BY DEF Inbox!Logged, Inbox!senders, Inbox!tables, inboxTables
  <1>2. InboxTypes /\ ~wronged
    BY DEF InboxFirst
  <1>3. CASE req[r].pc = "auth" /\ Inbox!Goto(r, "fetch") /\ UNCHANGED <<acked, started, wronged>>
    <2>1. MovesTo(r, "fetch") /\ Busy(r) /\ ~AtWork(r)
      BY <1>2, <1>3, GotoMoves DEF Places, Busy, AtWork
    <2>2. InboxFirst'
      BY <2>1, <1>1, <1>2, <1>3, HandlerFirst DEF Places
    <2> QED
      BY <1>1, <1>3, <2>1, <2>2 DEF Passes
  <1>4. CASE req[r].pc = "remember" /\ Inbox!Judge(r, req[r].key) /\ UNCHANGED started
    <2>1. Busy(r) /\ ~AtWork(r)
      BY <1>4 DEF Busy, AtWork
    <2>2. a \in Actors /\ req[r].key \in Nat /\ Learnt(req[r].key, now, a)
      BY <1>2, <1>4, <2>1, ActorFits DEF InboxFirst, InboxTypes, InboxKeys, Handling
    <2>3. ASSUME Inbox!Rightful(r) PROVE req[r].key = key[a].key
      <3>1. now - key[a].at > TTL
        BY <2>3 DEF Inbox!Rightful
      <3>2. key[a].at \in Int /\ now \in Int /\ TTL \in Nat
        BY <1>2, <2>2, InboxAssumption DEF InboxTypes, Dated
      <3>3. key[a].at < now
        BY <3>1, <3>2
      <3> QED
        BY <3>3, <2>2 DEF Learnt
    <2>4. (MovesTo(r, "seen") \/ MovesTo(r, "idle")) /\ acked' = acked /\ ~wronged'
      BY <1>2, <1>4, <2>2, <2>3, JudgeMoves
    <2>5. InboxFirst'
      BY <2>1, <2>4, <1>1, JudgedFirst
    <2> QED
      BY <1>1, <1>4, <2>1, <2>4, <2>5 DEF Passes
  <1>5. CASE /\ req[r].pc = "seen" /\ Inbox!Goto(r, "dispatch") /\ started' = started \cup {req[r].i}
             /\ UNCHANGED <<acked, wronged>>
    <2>1. MovesTo(r, "dispatch") /\ Busy(r) /\ ~AtWork(r)
      BY <1>2, <1>5, GotoMoves DEF Places, Busy, AtWork
    <2>2. InboxFirst'
      BY <2>1, <1>1, <1>2, <1>5, HandlerFirst DEF Places
    <2> QED
      BY <1>1, <1>5, <2>1, <2>2 DEF Begins, inboxTables
  <1>6. CASE AtWork(r) /\ Inbox!Answer(r, TRUE) /\ UNCHANGED <<started, wronged>>
    <2>1. MovesTo(r, "idle") /\ Busy(r) /\ (acked' = acked \/ acked' = acked \cup {req[r].i})
      BY <1>2, <1>6, AnswerMoves DEF Busy, AtWork
    <2>2. InboxFirst'
      BY <2>1, <1>1, <1>2, <1>6, HandlerFirst DEF Places
    <2> QED
      BY <1>1, <1>6, <2>1, <2>2 DEF Gives
  <1> QED
    BY <1>3, <1>4, <1>5, <1>6 DEF Inbox!Logged, AtWork

\* Keys change, moderators decide, marks are forgotten, time passes.
Aside ==
  /\ UNCHANGED <<issued, acked, follower, reaction, replies, accepts, req, started, cut, odd>>
  /\ seen' \subseteq seen

LEMMA AsideStep ==
  ASSUME InboxFirst,
         \/ \E a \in Actors : Inbox!Rotate(a) \/ Inbox!Block(a)
         \/ \E i \in DOMAIN issued : Inbox!ForgetOldActivities(i)
         \/ Inbox!Tick
  PROVE  InboxFirst' /\ Aside
  <1>1. ASSUME NEW a \in Actors, Inbox!Rotate(a) PROVE InboxFirst' /\ Aside
    <2>1. Aside
      BY <1>1 DEF Inbox!Rotate, Inbox!tables, Inbox!history, Aside
    <2> QED
      BY <2>1, <1>1, RotateFirst
  <1>2. ASSUME UNCHANGED <<issued, key, cache, now, req, wronged>> PROVE InboxFirst'
    BY <1>2 DEF InboxFirst, InboxTypes, InboxKeys, Learnt, Inbox!Actor, Busy
  <1>3. ASSUME NEW a \in Actors, Inbox!Block(a) PROVE InboxFirst' /\ Aside
    <2>1. Aside /\ UNCHANGED <<issued, key, cache, now, req, wronged>>
      BY <1>3 DEF Inbox!Block, Inbox!senders, Inbox!tables, Inbox!history, Aside
    <2> QED
      BY <2>1, <1>2
  <1>4. ASSUME NEW i \in DOMAIN issued, Inbox!ForgetOldActivities(i) PROVE InboxFirst' /\ Aside
    <2>1. Aside /\ UNCHANGED <<issued, key, cache, now, req, wronged>>
      BY <1>4 DEF Inbox!ForgetOldActivities, Inbox!senders, Inbox!history, Aside
    <2> QED
      BY <2>1, <1>2
  <1>5. CASE Inbox!Tick
    <2>1. Aside /\ now' = now + 1 /\ UNCHANGED <<issued, key, cache, req, wronged>>
      BY <1>5 DEF Inbox!Tick, Inbox!senders, Inbox!tables, Inbox!history, Aside
    <2>2. now \in Int /\ now' \in Int /\ now <= now'
      BY <2>1 DEF InboxFirst, InboxTypes
    <2>3. \A r \in Requests : req[r].pc # "remember"
      BY <1>5, IdleFits DEF Inbox!Tick
    <2>4. InboxTypes'
      BY <2>1, <2>2 DEF InboxFirst, InboxTypes, Busy
    <2>5. \A a \in Actors : key[a].at <= now' /\ cache[a].at <= now' /\ Learnt(cache[a].key, cache[a].at, a)
      BY <2>2 DEF InboxFirst, InboxTypes, InboxKeys, Dated
    <2>6. InboxKeys'
      BY <2>1, <2>3, <2>5 DEF InboxKeys, Learnt
    <2> QED
      BY <2>1, <2>4, <2>6 DEF InboxFirst
  <1> QED
    BY <1>1, <1>3, <1>4, <1>5

\* Every step is one of four.
LEMMA InboxSteps ==
  ASSUME InboxFirst, Inbox!Next
  PROVE  /\ InboxFirst'
         /\ \/ \E a \in Actors, type \in Types, named \in BOOLEAN : Inbox!Issue(a, type, named)
            \/ \E r \in Requests : \E i \in DOMAIN issued : Inbox!Deliver(r, i)
            \/ \E r \in Requests : HandlerStep(r)
            \/ Aside
  <1>1. ASSUME NEW a \in Actors, NEW type \in Types, NEW named \in BOOLEAN, Inbox!Issue(a, type, named)
        PROVE  InboxFirst'
    BY <1>1, IssueFirst
  <1>2. ASSUME NEW r \in Requests, NEW i \in DOMAIN issued, Inbox!Deliver(r, i) PROVE InboxFirst'
    BY <1>2, DeliverFirst
  <1>3. ASSUME NEW r \in Requests,
               \/ Inbox!Authenticate(r) \/ Inbox!FetchActor(r) \/ Inbox!RememberActor(r)
               \/ Inbox!AlreadySeen(r) \/ Inbox!AcceptFollow(r) \/ Inbox!QueueAccept(r) \/ Inbox!Undo(r)
               \/ Inbox!AcceptReaction(r) \/ Inbox!AcceptCreate(r) \/ Inbox!Fail(r) \/ Inbox!Logged(r)
        PROVE  InboxFirst' /\ HandlerStep(r)
    BY <1>3, AuthenticateStep, FetchStep, RememberStep, SeenStep, WorkStep, FailStep, LoggedStep
       DEF HandlerStep
  <1>4. CASE \E a \in Actors : \E type \in Types, named \in BOOLEAN : Inbox!Issue(a, type, named)
    BY <1>1, <1>4
  <1>5. CASE \E r \in Requests : \E i \in DOMAIN issued : Inbox!Deliver(r, i)
    BY <1>2, <1>5
  <1>6. CASE \E r \in Requests :
               \/ Inbox!Authenticate(r) \/ Inbox!FetchActor(r) \/ Inbox!RememberActor(r)
               \/ Inbox!AlreadySeen(r) \/ Inbox!AcceptFollow(r) \/ Inbox!QueueAccept(r) \/ Inbox!Undo(r)
               \/ Inbox!AcceptReaction(r) \/ Inbox!AcceptCreate(r) \/ Inbox!Fail(r) \/ Inbox!Logged(r)
    BY <1>3, <1>6
  <1>7. CASE \/ \E a \in Actors : Inbox!Rotate(a) \/ Inbox!Block(a)
             \/ \E i \in DOMAIN issued : Inbox!ForgetOldActivities(i)
             \/ Inbox!Tick
    BY <1>7, AsideStep
  <1> QED
    BY <1>4, <1>5, <1>6, <1>7 DEF Inbox!Next

-----------------------------------------------------------------------------
(* What was begun is at work, failed or carried out *)

LEMMA InboxMarksInit == Inbox!Init => InboxMarks
  BY IdleFits DEF Inbox!Init, InboxMarks, AtWork

LEMMA IssueMarks ==
  ASSUME InboxFirst, InboxMarks, NEW a \in Actors, NEW type \in Types, NEW named \in BOOLEAN,
         Inbox!Issue(a, type, named)
  PROVE  InboxMarks'
  <1>1. UNCHANGED <<acked, inboxTables, req, started, cut>>
        /\ issued' = Append(issued, [actor |-> a, type |-> type, named |-> named])
    BY DEF Inbox!Issue, Inbox!tables, Inbox!history, inboxTables
  <1>2. \A i \in DOMAIN issued : i \in DOMAIN issued' /\ issued'[i] = issued[i]
    BY <1>1 DEF InboxFirst, InboxTypes
  <1>3. \A r \in Requests : AtWork(r) => req[r].i \in DOMAIN issued
    BY DEF InboxMarks
  <1>4. \A r \in Requests : req[r].pc = "accept" => AtWork(r)
    BY DEF AtWork
  <1>5. \A i \in started : CarriedOut(i) => CarriedOut(i)'
    BY <1>1, <1>2 DEF CarriedOut, InboxMarks, inboxTables
  <1> QED
    BY <1>1, <1>2, <1>3, <1>4, <1>5 DEF InboxMarks, AtWork, inboxTables

LEMMA DeliverMarks ==
  ASSUME InboxFirst, InboxMarks, NEW r \in Requests, NEW i \in DOMAIN issued, Inbox!Deliver(r, i)
  PROVE  InboxMarks'
  <1>1. UNCHANGED <<issued, acked, inboxTables, started, cut>> /\ req[r] = Inbox!Idle
    BY DEF Inbox!Deliver, Inbox!tables, inboxTables
  <1>2. req'[r].pc = "auth" /\ \A s \in Requests : s # r => req'[s] = req[s]
    BY DeliverFirst
  <1>3. \A s \in Requests : AtWork(s)' = AtWork(s) /\ (AtWork(s) => req'[s] = req[s])
    BY <1>1, <1>2, IdleFits DEF AtWork
  <1> QED
    BY <1>1, <1>2, <1>3 DEF InboxMarks, CarriedOut, AtWork, inboxTables

LEMMA AsideMarks ==
  ASSUME InboxMarks, Aside
  PROVE  InboxMarks'
  BY DEF InboxMarks, Aside, CarriedOut, AtWork

\* A handler that has no activity at work, before and after the step.
LEMMA OtherMarks ==
  ASSUME InboxFirst, InboxMarks, NEW r \in Requests, NEW pc \in Places, MovesTo(r, pc),
         Busy(r), ~AtWork(r), pc \notin {"dispatch", "accept"},
         acked' \subseteq acked \cup {req[r].i}, acked' = acked \/ req[r].i \in cut' \cup started,
         cut \subseteq cut', UNCHANGED <<issued, inboxTables, started>>
  PROVE  InboxMarks'
  <1>1. req[r].i \in DOMAIN issued
    BY DEF InboxFirst, InboxTypes
  <1>2. \A s \in Requests : AtWork(s)' = AtWork(s) /\ (AtWork(s) => req'[s] = req[s])
    BY DEF MovesTo, AtWork
  <1> QED
    BY <1>1, <1>2 DEF InboxMarks, CarriedOut, AtWork, inboxTables

LEMMA BeginsMarks ==
  ASSUME InboxFirst, InboxMarks, NEW r \in Requests, Begins(r)
  PROVE  InboxMarks'
  <1>1. req[r].i \in DOMAIN issued /\ MovesTo(r, "dispatch")
    BY DEF InboxFirst, InboxTypes, Begins
  <1>2. req'[r].pc = "dispatch" /\ req'[r].i = req[r].i
    BY <1>1 DEF MovesTo
  <1>3. \A s \in Requests : s # r => (AtWork(s)' = AtWork(s) /\ (AtWork(s) => req'[s] = req[s]))
    BY <1>1 DEF MovesTo, AtWork
  <1>4. AtWork(r)' /\ ~AtWork(r)
    BY <1>2 DEF AtWork, Begins
  <1>5. \A i \in started : CarriedOut(i)' = CarriedOut(i)
    BY DEF Begins, CarriedOut
  <1>6. \A s \in Requests : AtWork(s) => s # r /\ AtWork(s)' /\ req'[s].i = req[s].i
    BY <1>3, <1>4
  <1> QED
    BY <1>1, <1>2, <1>3, <1>4, <1>5, <1>6 DEF InboxMarks, Begins, AtWork

\* A failure takes its activity out of the promise.
LEMMA GivesMarks ==
  ASSUME InboxFirst, InboxMarks, NEW r \in Requests, Gives(r)
  PROVE  InboxMarks'
  <1>1. req[r].i \in DOMAIN issued /\ MovesTo(r, "idle")
    BY DEF InboxFirst, InboxTypes, Gives
  <1>2. req'[r].pc = "idle" /\ ~AtWork(r)'
    BY <1>1 DEF MovesTo, AtWork
  <1>3. \A s \in Requests : s # r => (AtWork(s)' = AtWork(s) /\ (AtWork(s) => req'[s] = req[s]))
    BY <1>1 DEF MovesTo, AtWork
  <1>4. \A i \in started : CarriedOut(i)' = CarriedOut(i)
    BY DEF Gives, CarriedOut, inboxTables
  <1>5. \A i \in started : i # req[r].i =>
          ((\E s \in Requests : AtWork(s) /\ req[s].i = i) => (\E s \in Requests : AtWork(s)' /\ req'[s].i = i))
    BY <1>3
  <1> QED
    BY <1>1, <1>2, <1>3, <1>4, <1>5 DEF InboxMarks, Gives, AtWork, inboxTables

\* The dispatch of an activity comes to its end.
LEMMA EndsMarks ==
  ASSUME InboxFirst, InboxMarks, NEW r \in Requests, WorksOn(r, "idle"),
         NEW i, i = req[r].i, CarriedOut(i)',
         replies \subseteq replies', replies' \subseteq replies \cup {i},
         accepts \subseteq accepts', accepts' \subseteq accepts \cup {i},
         follower' \cup reaction' \subseteq follower \cup reaction \cup {Inbox!Actor(i)}
  PROVE  InboxMarks'
  <1>1. i \in started /\ i \in DOMAIN issued /\ MovesTo(r, "idle")
    BY DEF WorksOn, InboxMarks
  <1>2. ~AtWork(r)' /\ \A s \in Requests : s # r => (AtWork(s)' = AtWork(s) /\ (AtWork(s) => req'[s] = req[s]))
    BY <1>1 DEF MovesTo, AtWork
  <1>3. UNCHANGED <<issued, seen, started, odd, cut>> /\ acked' \subseteq acked \cup {i}
    BY DEF WorksOn
  <1>4. CarriedOut(i)'
    OBVIOUS
  <1>5. \A j \in started : CarriedOut(j) => CarriedOut(j)'
    BY <1>3 DEF CarriedOut
  <1>6. \A j \in started : j # i =>
          ((\E s \in Requests : AtWork(s) /\ req[s].i = j) => (\E s \in Requests : AtWork(s)' /\ req'[s].i = j))
    BY <1>2
  <1>7. \A j \in started' : j \in cut' \/ CarriedOut(j)' \/ \E s \in Requests : AtWork(s)' /\ req'[s].i = j
    <2> SUFFICES ASSUME NEW j \in started
                 PROVE  j \in cut \/ CarriedOut(j)' \/ \E s \in Requests : AtWork(s)' /\ req'[s].i = j
      BY <1>3
    <2>1. CASE j = i
      BY <1>4, <2>1
    <2>2. CASE j # i
      BY <1>5, <1>6, <2>2 DEF InboxMarks
    <2> QED
      BY <2>1, <2>2
  <1>8. \A b \in follower' \cup reaction' : \E j \in started : issued[j].actor = b
    BY <1>1 DEF InboxMarks, Inbox!Actor
  <1>9. \A s \in Requests : AtWork(s)' => req'[s].i \in started
    BY <1>2 DEF InboxMarks
  <1>10. \A s \in Requests : req'[s].pc = "accept" => issued[req'[s].i].type = "Follow"
    BY <1>2 DEF InboxMarks, AtWork
  <1> QED
    BY <1>1, <1>3, <1>7, <1>8, <1>9, <1>10 DEF InboxMarks

LEMMA WorksMarks ==
  ASSUME InboxFirst, InboxMarks, NEW r \in Requests, Works(r)
  PROVE  InboxMarks'
  <1> PICK i : i = req[r].i
    OBVIOUS
  <1>1. CASE Inbox!AcceptFollow(r) /\ WorksOn(r, "accept")
    <2>1. /\ req[r].pc = "dispatch" /\ issued[i].type = "Follow" /\ follower' = follower \cup {issued[i].actor}
          /\ UNCHANGED <<issued, acked, seen, reaction, replies, accepts, cut, started>>
      BY <1>1 DEF Inbox!AcceptFollow, Inbox!AddFollower, Inbox!Actor, Inbox!senders, Inbox!history
    <2>2. i \in started /\ MovesTo(r, "accept")
      BY <1>1 DEF WorksOn, InboxMarks
    <2>3. req'[r].pc = "accept" /\ req'[r].i = i /\ AtWork(r)'
          /\ \A s \in Requests : s # r => (req'[s] = req[s] /\ AtWork(s)' = AtWork(s))
      BY <2>2 DEF MovesTo, AtWork
    <2>4. \A j \in started : CarriedOut(j)' = CarriedOut(j)
      BY <2>1 DEF CarriedOut
    <2>5. \A s \in Requests : AtWork(s) => AtWork(s)' /\ req'[s].i = req[s].i
      BY <2>3
    <2> QED
      BY <2>1, <2>2, <2>3, <2>4, <2>5 DEF InboxMarks
  <1>2. CASE Inbox!QueueAccept(r) /\ WorksOn(r, "idle")
    <2>1. req[r].pc = "accept" /\ accepts' = accepts \cup {i} /\ UNCHANGED <<issued, follower, reaction, replies>>
      BY <1>2 DEF Inbox!QueueAccept, Inbox!senders
    <2>2. issued[i].type = "Follow"
      BY <2>1 DEF InboxMarks
    <2>3. CarriedOut(i)'
      BY <2>1, <2>2 DEF CarriedOut
    <2> QED
      BY <1>2, <2>1, <2>3, EndsMarks
  <1>3. CASE Inbox!Undo(r) /\ WorksOn(r, "idle")
    <2>1. issued[i].type \in {"Unfollow", "Unlike"} /\ UNCHANGED <<issued, replies, accepts>>
      BY <1>3 DEF Inbox!Undo, Inbox!senders
    <2>2. follower' \subseteq follower /\ reaction' \subseteq reaction
      BY <1>3 DEF Inbox!Undo, Inbox!RemoveFollower, Inbox!ForgetReaction
    <2>3. CarriedOut(i)'
      BY <2>1 DEF CarriedOut
    <2> QED
      BY <1>3, <2>1, <2>2, <2>3, EndsMarks
  <1>4. CASE Inbox!AcceptReaction(r) /\ WorksOn(r, "idle")
    <2>1. /\ issued[i].type = "Like" /\ reaction' = reaction \cup {Inbox!Actor(i)}
          /\ UNCHANGED <<issued, follower, replies, accepts>>
      BY <1>4 DEF Inbox!AcceptReaction, Inbox!RecordReaction, Inbox!senders
    <2>2. CarriedOut(i)'
      BY <2>1 DEF CarriedOut
    <2> QED
      BY <1>4, <2>1, <2>2, EndsMarks
  <1>5. CASE Inbox!AcceptCreate(r) /\ WorksOn(r, "idle")
    <2>1. /\ issued[i].type = "Create" /\ replies' = replies \cup {i}
          /\ UNCHANGED <<issued, follower, reaction, accepts>>
      BY <1>5 DEF Inbox!AcceptCreate, Inbox!senders
    <2>2. CarriedOut(i)'
      BY <2>1 DEF CarriedOut
    <2> QED
      BY <1>5, <2>1, <2>2, EndsMarks
  <1> QED
    BY <1>1, <1>2, <1>3, <1>4, <1>5 DEF Works

LEMMA HandlerMarks ==
  ASSUME InboxFirst, InboxMarks, NEW r \in Requests, HandlerStep(r)
  PROVE  InboxMarks'
  <1>1. CASE Passes(r)
    <2>1. PICK pc \in {"idle", "fetch", "remember", "seen"} : MovesTo(r, pc)
      BY <1>1 DEF Passes
    <2>2. pc \in Places /\ pc \notin {"dispatch", "accept"}
      BY DEF Places
    <2> QED
      BY <1>1, <2>1, <2>2, OtherMarks DEF Passes
  <1>2. CASE TurnsAway(r)
    <2>1. req[r].i \in started
      BY <1>2 DEF TurnsAway, InboxMarks
    <2> QED
      BY <1>2, <2>1, OtherMarks DEF TurnsAway, Places
  <1> QED
    BY <1>1, <1>2, BeginsMarks, GivesMarks, WorksMarks DEF HandlerStep

LEMMA InboxMarksKept ==
  ASSUME InboxFirst, InboxMarks, Inbox!Next
  PROVE  InboxMarks'
  <1>1. CASE \E a \in Actors, type \in Types, named \in BOOLEAN : Inbox!Issue(a, type, named)
    BY <1>1, IssueMarks
  <1>2. CASE \E r \in Requests : \E i \in DOMAIN issued : Inbox!Deliver(r, i)
    BY <1>2, DeliverMarks
  <1>3. CASE \E r \in Requests : HandlerStep(r)
    BY <1>3, HandlerMarks
  <1>4. CASE Aside
    BY <1>4, AsideMarks
  <1> QED
    BY <1>1, <1>2, <1>3, <1>4, InboxSteps

\* What the invariants give for Acknowledged.
LEMMA MarksAcknowledge ==
  ASSUME InboxFirst, InboxMarks
  PROVE  Inbox!Acknowledged
  <1>1. Inbox!TypeOK
    BY DEF InboxFirst, InboxKeys, InboxMarks, Learnt, Inbox!TypeOK, Inbox!Actor
  <1>2. \A r \in Requests : AtWork(r) => req[r].pc # "idle"
    BY DEF AtWork
  <1>3. \A i \in acked \ cut : ~Inbox!UnderWay(i) => CarriedOut(i)
    BY <1>2 DEF InboxMarks, Inbox!UnderWay
  <1> QED
    BY <1>1, <1>3 DEF Inbox!Acknowledged, CarriedOut

-----------------------------------------------------------------------------
(* What the tables say of an orderly actor *)

OrderAt(a) ==
  /\ HasLast(a, "Follow", "Unfollow") /\ HasLast(a, "Like", "Unlike")
  /\ Orderly(a) => Alone(a) /\ Newest(a) /\ Follows(a) /\ Likes(a)

LEMMA InboxOrderInit == Inbox!Init => InboxOrder
  <1> SUFFICES ASSUME Inbox!Init, NEW a \in Actors PROVE OrderAt(a)
    BY DEF InboxOrder, OrderAt
  <1>1. DOMAIN issued = {} /\ started = {} /\ follower = {} /\ reaction = {}
        /\ \A r \in Requests : req[r].pc = "idle"
    BY IdleFits DEF Inbox!Init
  <1>2. HasLast(a, "Follow", "Unfollow") /\ HasLast(a, "Like", "Unlike")
    BY <1>1 DEF HasLast, OfKind
  <1>3. Alone(a) /\ Newest(a)
    BY <1>1 DEF Alone, Newest, Busy, AtWork
  <1>4. Follows(a) /\ Likes(a)
    BY <1>1 DEF Follows, Likes, Says, Begun
  <1> QED
    BY <1>2, <1>3, <1>4 DEF OrderAt

\* A new activity is the last of its kind.
LEMMA LastIssued ==
  ASSUME InboxTypes, NEW a, NEW on, NEW off, HasLast(a, on, off), NEW act \in Activity,
         issued' = Append(issued, act)
  PROVE  HasLast(a, on, off)'
  <1> DEFINE n == Len(issued) + 1
  <1>1. /\ n \in Nat /\ DOMAIN issued = 1..(n - 1) /\ DOMAIN issued' = 1..n
        /\ issued'[n] = act /\ \A i \in DOMAIN issued : issued'[i] = issued[i]
    BY DEF InboxTypes
  <1> HIDE DEF n
  <1>2. n \in DOMAIN issued' /\ \A i \in DOMAIN issued' : i = n \/ i \in DOMAIN issued
    BY <1>1
  <1>3. \A i \in DOMAIN issued' : i \in Nat /\ i <= n
    BY <1>1
  <1>4. CASE act.actor = a /\ act.type \in {on, off}
    <2>1. n \in OfKind(a, on, off)' /\ \A j \in OfKind(a, on, off)' : j <= n
      BY <1>1, <1>2, <1>3, <1>4 DEF OfKind
    <2> QED
      BY <2>1 DEF HasLast
  <1>5. CASE ~(act.actor = a /\ act.type \in {on, off})
    <2>1. OfKind(a, on, off)' = OfKind(a, on, off)
      <3>1. \A i \in OfKind(a, on, off)' : i \in OfKind(a, on, off)
        BY <1>1, <1>2, <1>5 DEF OfKind
      <3>2. \A i \in OfKind(a, on, off) : i \in OfKind(a, on, off)'
        BY <1>1 DEF OfKind
      <3> QED
        BY <3>1, <3>2
    <2> QED
      BY <2>1 DEF HasLast
  <1> QED
    BY <1>4, <1>5

LEMMA IssueOrder ==
  ASSUME InboxFirst, InboxMarks, NEW b \in Actors, OrderAt(b),
         NEW a \in Actors, NEW type \in Types, NEW named \in BOOLEAN, Inbox!Issue(a, type, named)
  PROVE  OrderAt(b)'
  <1> DEFINE act == [actor |-> a, type |-> type, named |-> named]
  <1>1. UNCHANGED <<follower, reaction, req, started, cut, odd>>
        /\ issued' = Append(issued, act) /\ act \in Activity
    BY DEF Inbox!Issue, Inbox!tables, Inbox!history, Activity
  <1> HIDE DEF act
  <1>2. \A i \in DOMAIN issued : i \in DOMAIN issued' /\ issued'[i] = issued[i]
    BY <1>1 DEF InboxFirst, InboxTypes
  <1>3. HasLast(b, "Follow", "Unfollow")' /\ HasLast(b, "Like", "Unlike")'
    BY <1>1, LastIssued DEF OrderAt, InboxFirst
  <1>4. Orderly(b)' => Orderly(b)
    BY <1>1, <1>2 DEF Orderly
  <1>5. \A i \in started : issued'[i] = issued[i]
    BY <1>2 DEF InboxMarks
  <1>6. Begun(b)' = Begun(b)
    BY <1>1, <1>5 DEF Begun
  <1>7. \A r \in Requests : Busy(r) => issued'[req[r].i] = issued[req[r].i]
    BY <1>2 DEF InboxFirst, InboxTypes
  <1>8. Alone(b) => Alone(b)'
    BY <1>1, <1>7 DEF Alone, Busy
  <1>9. Newest(b) => Newest(b)'
    BY <1>1, <1>6, <1>7 DEF Newest, AtWork, Busy
  <1>10. ASSUME NEW on, NEW off
         PROVE  Says(b, on, off)' = Says(b, on, off) /\ Settled(b, on, off)' = Settled(b, on, off)
    <2>1. \A i \in Begun(b) : issued'[i] = issued[i]
      BY <1>5 DEF Begun
    <2>2. Says(b, on, off)' = Says(b, on, off)
      BY <1>6, <2>1 DEF Says
    <2>3. Settled(b, on, off)' = Settled(b, on, off)
      BY <1>1, <1>7 DEF Settled, Busy
    <2> QED
      BY <2>2, <2>3
  <1>11. (Follows(b) => Follows(b)') /\ (Likes(b) => Likes(b)')
    BY <1>1, <1>10 DEF Follows, Likes
  <1> QED
    BY <1>3, <1>4, <1>8, <1>9, <1>11 DEF OrderAt

\* Only a handler of another actor moves.
LEMMA ForeignOrder ==
  ASSUME InboxFirst, NEW b \in Actors, OrderAt(b), NEW r \in Requests, NEW pc, MovesTo(r, pc),
         Busy(r), issued' = issued, issued[req[r].i].actor # b,
         Begun(b)' = Begun(b), b \in follower' <=> b \in follower, b \in reaction' <=> b \in reaction,
         odd \subseteq odd', cut \subseteq cut'
  PROVE  OrderAt(b)'
  <1>1. Orderly(b)' => Orderly(b)
    BY DEF Orderly
  <1>2. \A s \in Requests : req'[s].pc # "idle" /\ issued[req'[s].i].actor = b => req'[s] = req[s]
    BY DEF MovesTo
  <1>3. \A s \in Requests : req[s].pc # "idle" /\ issued[req[s].i].actor = b => req'[s] = req[s]
    BY DEF MovesTo
  <1>4. Alone(b) => Alone(b)'
    BY <1>2 DEF Alone, Busy
  <1>5. Newest(b) => Newest(b)'
    BY <1>2 DEF Newest, AtWork
  <1>6. ASSUME NEW on, NEW off
        PROVE  Says(b, on, off)' = Says(b, on, off) /\ Settled(b, on, off)' = Settled(b, on, off)
    BY <1>2, <1>3 DEF Says, Settled
  <1>7. (Follows(b) => Follows(b)') /\ (Likes(b) => Likes(b)')
    BY <1>6 DEF Follows, Likes
  <1>8. HasLast(b, "Follow", "Unfollow")' /\ HasLast(b, "Like", "Unlike")'
    BY DEF HasLast, OfKind, OrderAt
  <1> QED
    BY <1>1, <1>4, <1>5, <1>7, <1>8 DEF OrderAt

LEMMA DeliverOrder ==
  ASSUME InboxFirst, NEW b \in Actors, OrderAt(b),
         NEW r \in Requests, NEW i \in DOMAIN issued, Inbox!Deliver(r, i)
  PROVE  OrderAt(b)'
  <1>1. UNCHANGED <<issued, follower, reaction, started, cut>> /\ req[r].pc = "idle"
        /\ odd' = IF \E s \in Requests : Busy(s) /\ issued[req[s].i].actor = issued[i].actor
                  THEN odd \cup {issued[i].actor} ELSE odd
    BY IdleFits DEF Inbox!Deliver, Inbox!tables, Inbox!Actor, Busy
  <1>2. req'[r].pc = "auth" /\ req'[r].i = i /\ \A s \in Requests : s # r => req'[s] = req[s]
    BY DeliverFirst
  <1>3. Orderly(b)' => Orderly(b)
    BY <1>1 DEF Orderly
  <1>4. Orderly(b)' /\ Alone(b) => Alone(b)'
    <2> SUFFICES ASSUME Orderly(b)', Alone(b), NEW s \in Requests, NEW t \in Requests,
                        req'[s].pc # "idle", req'[t].pc # "idle",
                        issued[req'[s].i].actor = b, issued[req'[t].i].actor = b, s # t
                 PROVE  FALSE
      BY <1>1 DEF Alone, Busy
    <2>1. b \notin odd'
      BY DEF Orderly
    <2>2. issued[i].actor = b => \A u \in Requests : Busy(u) => issued[req[u].i].actor # b
      BY <1>1, <2>1
    <2>3. CASE s # r /\ t # r
      BY <2>3, <1>2 DEF Alone, Busy
    <2>4. CASE s = r
      BY <2>4, <2>2, <1>2 DEF Busy
    <2>5. CASE t = r
      BY <2>5, <2>2, <1>2 DEF Busy
    <2> QED
      BY <2>3, <2>4, <2>5
  <1>5. Begun(b)' = Begun(b)
    BY <1>1 DEF Begun
  <1>6. Newest(b) => Newest(b)'
    BY <1>1, <1>2, <1>5 DEF Newest, AtWork
  <1>7. ASSUME NEW on, NEW off
        PROVE  Says(b, on, off)' = Says(b, on, off) /\ Settled(b, on, off)' = Settled(b, on, off)
    BY <1>1, <1>2, <1>5 DEF Says, Settled
  <1>8. (Follows(b) => Follows(b)') /\ (Likes(b) => Likes(b)')
    BY <1>1, <1>7 DEF Follows, Likes
  <1>9. HasLast(b, "Follow", "Unfollow")' /\ HasLast(b, "Like", "Unlike")'
    BY <1>1 DEF HasLast, OfKind, OrderAt
  <1> QED
    BY <1>3, <1>4, <1>6, <1>8, <1>9 DEF OrderAt

LEMMA AsideOrder ==
  ASSUME NEW b \in Actors, OrderAt(b), Aside
  PROVE  OrderAt(b)'
  <1>1. UNCHANGED <<issued, follower, reaction, req, started, cut, odd>>
    BY DEF Aside
  <1> QED
    BY <1>1 DEF OrderAt, HasLast, OfKind, Orderly, Alone, Newest, Follows, Likes, Settled, Says, Begun, Busy, AtWork

\* A handler of b that is not at work, before and after.
LEMMA QuietOrder ==
  ASSUME InboxFirst, NEW b \in Actors, OrderAt(b), NEW r \in Requests, NEW pc \in Places, MovesTo(r, pc),
         Busy(r), ~AtWork(r), pc \notin {"dispatch", "accept"},
         UNCHANGED <<issued, follower, reaction, started>>, odd \subseteq odd', cut \subseteq cut'
  PROVE  OrderAt(b)'
  <1>1. Orderly(b)' => Orderly(b)
    BY DEF Orderly
  <1>2. \A s \in Requests : req'[s].pc # "idle" => req[s].pc # "idle" /\ req'[s].i = req[s].i
    BY DEF MovesTo, Busy
  <1>3. \A s \in Requests : AtWork(s)' = AtWork(s) /\ (AtWork(s) => req'[s] = req[s])
    BY DEF MovesTo, AtWork
  <1>4. Begun(b)' = Begun(b)
    BY DEF Begun
  <1>5. Alone(b) => Alone(b)'
    BY <1>2 DEF Alone, Busy
  <1>6. Newest(b) => Newest(b)'
    BY <1>3, <1>4 DEF Newest, AtWork
  <1>7. ASSUME NEW on, NEW off
        PROVE  Says(b, on, off)' = Says(b, on, off) /\ Settled(b, on, off)' = Settled(b, on, off)
    BY <1>3, <1>4 DEF Says, Settled, AtWork
  <1>8. (Follows(b) => Follows(b)') /\ (Likes(b) => Likes(b)')
    BY <1>7 DEF Follows, Likes
  <1>9. HasLast(b, "Follow", "Unfollow")' /\ HasLast(b, "Like", "Unlike")'
    BY DEF HasLast, OfKind, OrderAt
  <1> QED
    BY <1>1, <1>5, <1>6, <1>8, <1>9 DEF OrderAt

\* The one handler of an actor settles what it is not about to change.
LEMMA SettledAlone ==
  ASSUME NEW b, Alone(b), NEW r \in Requests, Busy(r), issued[req[r].i].actor = b, NEW on, NEW off,
         req[r].pc = "dispatch" => issued[req[r].i].type \notin {on, off}
  PROVE  Settled(b, on, off)
  BY DEF Settled, Alone, Busy

\* The last of what was begun decides.
LEMMA LastOn ==
  ASSUME InboxFirst, InboxMarks, NEW b, NEW i \in Begun(b), \A j \in Begun(b) : j <= i,
         NEW on, NEW off, on # off, issued[i].type = on
  PROVE  Says(b, on, off)
  <1>1. \A j \in Begun(b) : j \in Nat
    BY ActorFits DEF Begun, InboxMarks, InboxFirst
  <1>2. \A j \in Begun(b) : issued[j].type = off => j < i
    BY <1>1
  <1> QED
    BY <1>2 DEF Says

LEMMA LastOff ==
  ASSUME InboxFirst, InboxMarks, NEW b, NEW i \in Begun(b), \A j \in Begun(b) : j <= i,
         NEW on, NEW off, issued[i].type = off
  PROVE  ~Says(b, on, off)
  <1>1. \A j \in Begun(b) : j \in Nat
    BY ActorFits DEF Begun, InboxMarks, InboxFirst
  <1> QED
    BY <1>1 DEF Says

LEMMA BeginsOrder ==
  ASSUME InboxFirst, InboxMarks, NEW b \in Actors, OrderAt(b), NEW r \in Requests, Begins(r),
         issued[req[r].i].actor = b
  PROVE  OrderAt(b)'
  <1> PICK i : i = req[r].i
    OBVIOUS
  <1>1. /\ Busy(r) /\ ~AtWork(r) /\ MovesTo(r, "dispatch") /\ started' = started \cup {i}
        /\ odd \subseteq odd' /\ cut \subseteq cut' /\ UNCHANGED <<issued, follower, reaction>>
    BY DEF Begins
  <1>2. req'[r].pc = "dispatch" /\ req'[r].i = i /\ \A s \in Requests : s # r => req'[s] = req[s]
    BY <1>1 DEF MovesTo
  <1>3. HasLast(b, "Follow", "Unfollow")' /\ HasLast(b, "Like", "Unlike")'
    BY <1>1 DEF HasLast, OfKind, OrderAt
  <1>4. SUFFICES ASSUME Orderly(b)' PROVE Alone(b)' /\ Newest(b)' /\ Follows(b)' /\ Likes(b)'
    BY <1>3 DEF OrderAt
  <1>5. Orderly(b) /\ i \in DOMAIN issued
    BY <1>1, <1>4 DEF Orderly, InboxFirst, InboxTypes
  <1>6. Alone(b) /\ Newest(b) /\ Follows(b) /\ Likes(b)
    BY <1>5 DEF OrderAt
  <1>7. Alone(b)'
    BY <1>1, <1>2, <1>6 DEF Alone, Busy
  <1>8. i \notin cut' /\ b \notin odd'
    BY <1>1, <1>4, <1>5 DEF Orderly
  <1>9. \A j \in started : issued[j].actor = b => ~(j > i)
    BY <1>8 DEF Begins
  <1>10. i \in Nat /\ \A j \in started : j \in Nat
    BY <1>5, ActorFits DEF InboxMarks, InboxFirst
  <1>11. \A j \in Begun(b)' : j <= i
    BY <1>1, <1>9, <1>10 DEF Begun
  <1>12. \A s \in Requests : s # r /\ Busy(s) => issued[req[s].i].actor # b
    BY <1>1, <1>6 DEF Alone
  <1>13. Newest(b)'
    BY <1>1, <1>2, <1>11, <1>12 DEF Newest, AtWork, Busy
  <1>14. ASSUME NEW on, NEW off, Settled(b, on, off)'
         PROVE  Settled(b, on, off) /\ Says(b, on, off)' = Says(b, on, off)
    <2>1. Settled(b, on, off)
      BY <1>1, <1>6, SettledAlone DEF AtWork
    <2>2. issued[i].type \notin {on, off}
      BY <1>14, <1>1, <1>2 DEF Settled
    <2>3. Begun(b)' = Begun(b) \cup {i}
      BY <1>1 DEF Begun
    <2>4. Says(b, on, off)' = Says(b, on, off)
      BY <1>1, <2>2, <2>3 DEF Says
    <2> QED
      BY <2>1, <2>4
  <1>15. Follows(b)' /\ Likes(b)'
    BY <1>1, <1>6, <1>14 DEF Follows, Likes
  <1> QED
    BY <1>7, <1>13, <1>15

\* A failure of a handler ends the order of its actor.
LEMMA GivesOrder ==
  ASSUME InboxFirst, NEW b \in Actors, OrderAt(b), NEW r \in Requests, Gives(r),
         issued[req[r].i].actor = b
  PROVE  OrderAt(b)'
  <1>1. req[r].i \in DOMAIN issued /\ issued' = issued /\ req[r].i \in cut'
    BY DEF Gives, InboxFirst, InboxTypes
  <1>2. ~Orderly(b)'
    BY <1>1 DEF Orderly
  <1>3. HasLast(b, "Follow", "Unfollow")' /\ HasLast(b, "Like", "Unlike")'
    BY <1>1 DEF HasLast, OfKind, OrderAt
  <1> QED
    BY <1>2, <1>3 DEF OrderAt

\* Works: what is left of the order once the tables are right.
LEMMA WorkedOrder ==
  ASSUME InboxFirst, NEW b \in Actors, OrderAt(b), NEW r \in Requests, NEW pc \in {"accept", "idle"},
         WorksOn(r, pc), issued[req[r].i].actor = b, Orderly(b) => Follows(b)' /\ Likes(b)'
  PROVE  OrderAt(b)'
  <1>1. Busy(r) /\ AtWork(r) /\ MovesTo(r, pc) /\ UNCHANGED <<issued, started, odd, cut>>
    BY DEF WorksOn, Busy, AtWork
  <1>2. HasLast(b, "Follow", "Unfollow")' /\ HasLast(b, "Like", "Unlike")'
    BY <1>1 DEF HasLast, OfKind, OrderAt
  <1>3. Orderly(b)' => Orderly(b)
    BY <1>1 DEF Orderly
  <1>4. \A s \in Requests : req'[s].pc # "idle" => req[s].pc # "idle" /\ req'[s].i = req[s].i
    BY <1>1 DEF MovesTo, Busy
  <1>5. Alone(b) => Alone(b)'
    BY <1>1, <1>4 DEF Alone, Busy
  <1>6. \A s \in Requests : AtWork(s)' => AtWork(s) /\ req'[s].i = req[s].i
    BY <1>1 DEF MovesTo, AtWork
  <1>7. Begun(b)' = Begun(b)
    BY <1>1 DEF Begun
  <1>8. Newest(b) => Newest(b)'
    BY <1>1, <1>6, <1>7 DEF Newest
  <1> QED
    BY <1>2, <1>3, <1>5, <1>8 DEF OrderAt

LEMMA WorksOrder ==
  ASSUME InboxFirst, InboxMarks, NEW b \in Actors, OrderAt(b), NEW r \in Requests, Works(r),
         issued[req[r].i].actor = b
  PROVE  OrderAt(b)'
  <1> PICK i : i = req[r].i
    OBVIOUS
  <1>1. PICK pc \in {"accept", "idle"} : WorksOn(r, pc)
    BY DEF Works
  <1>2. SUFFICES ASSUME Orderly(b) PROVE Follows(b)' /\ Likes(b)'
    BY <1>1, WorkedOrder
  <1>3. Busy(r) /\ AtWork(r) /\ i \in started /\ UNCHANGED <<issued, started>>
    BY <1>1 DEF WorksOn, Busy, AtWork, InboxMarks
  <1>4. Alone(b) /\ Newest(b) /\ Follows(b) /\ Likes(b)
    BY <1>2 DEF OrderAt
  <1>5. i \in Begun(b) /\ \A j \in Begun(b) : j <= i
    BY <1>3, <1>4 DEF Newest, Begun
  <1>6. issued[i].named
    BY <1>2, <1>3 DEF Orderly, InboxMarks
  <1>7. ASSUME NEW on, NEW off PROVE Says(b, on, off)' = Says(b, on, off)
    BY <1>3 DEF Says, Begun
  <1>8. ASSUME req[r].pc = "accept" \/ issued[i].type \notin {"Follow", "Unfollow"}, follower' = follower
        PROVE  Follows(b)'
    <2>1. Settled(b, "Follow", "Unfollow")
      BY <1>3, <1>4, <1>8, SettledAlone
    <2> QED
      BY <2>1, <1>4, <1>7, <1>8 DEF Follows
  <1>9. ASSUME req[r].pc = "accept" \/ issued[i].type \notin {"Like", "Unlike"}, reaction' = reaction
        PROVE  Likes(b)'
    <2>1. Settled(b, "Like", "Unlike")
      BY <1>3, <1>4, <1>9, SettledAlone
    <2> QED
      BY <2>1, <1>4, <1>7, <1>9 DEF Likes
  <1>10. CASE Inbox!AcceptFollow(r)
    <2>1. issued[i].type = "Follow" /\ b \in follower' /\ reaction' = reaction
      BY <1>10 DEF Inbox!AcceptFollow, Inbox!AddFollower, Inbox!Actor
    <2>2. Says(b, "Follow", "Unfollow")
      BY <2>1, <1>5, LastOn
    <2>3. Follows(b)'
      BY <2>1, <2>2, <1>7 DEF Follows
    <2> QED
      BY <2>1, <2>3, <1>9
  <1>11. CASE Inbox!QueueAccept(r)
    <2>1. req[r].pc = "accept" /\ follower' = follower /\ reaction' = reaction
      BY <1>11 DEF Inbox!QueueAccept
    <2> QED
      BY <2>1, <1>8, <1>9
  <1>12. CASE Inbox!Undo(r) /\ issued[i].type = "Unfollow"
    <2>1. b \notin follower' /\ reaction' = reaction
      BY <1>12, <1>6 DEF Inbox!Undo, Inbox!RemoveFollower, Inbox!Addressee, Inbox!Actor
    <2>2. ~Says(b, "Follow", "Unfollow")
      BY <1>5, <1>12, LastOff
    <2>3. Follows(b)'
      BY <2>1, <2>2, <1>7 DEF Follows
    <2> QED
      BY <2>1, <2>3, <1>9, <1>12
  <1>13. CASE Inbox!Undo(r) /\ issued[i].type = "Unlike"
    <2>1. b \notin reaction' /\ follower' = follower
      BY <1>13 DEF Inbox!Undo, Inbox!ForgetReaction, Inbox!Actor
    <2>2. ~Says(b, "Like", "Unlike")
      BY <1>5, <1>13, LastOff
    <2>3. Likes(b)'
      BY <2>1, <2>2, <1>7 DEF Likes
    <2> QED
      BY <2>1, <2>3, <1>8, <1>13
  <1>14. CASE Inbox!AcceptReaction(r)
    <2>1. issued[i].type = "Like" /\ b \in reaction' /\ follower' = follower
      BY <1>14 DEF Inbox!AcceptReaction, Inbox!RecordReaction, Inbox!Actor
    <2>2. Says(b, "Like", "Unlike")
      BY <2>1, <1>5, LastOn
    <2>3. Likes(b)'
      BY <2>1, <2>2, <1>7 DEF Likes
    <2> QED
      BY <2>1, <2>3, <1>8
  <1>15. CASE Inbox!AcceptCreate(r)
    <2>1. issued[i].type = "Create" /\ follower' = follower /\ reaction' = reaction
      BY <1>15 DEF Inbox!AcceptCreate
    <2> QED
      BY <2>1, <1>8, <1>9
  <1>16. Inbox!Undo(r) => issued[i].type = "Unfollow" \/ issued[i].type = "Unlike"
    BY DEF Inbox!Undo
  <1> QED
    BY <1>10, <1>11, <1>12, <1>13, <1>14, <1>15, <1>16 DEF Works

LEMMA HandlerOrder ==
  ASSUME InboxFirst, InboxMarks, NEW b \in Actors, OrderAt(b), NEW r \in Requests, HandlerStep(r)
  PROVE  OrderAt(b)'
  <1> PICK i : i = req[r].i
    OBVIOUS
  <1>1. CASE Passes(r)
    <2>1. PICK pc \in {"idle", "fetch", "remember", "seen"} : MovesTo(r, pc)
      BY <1>1 DEF Passes
    <2>2. pc \in Places /\ pc \notin {"dispatch", "accept"}
      BY DEF Places
    <2> QED
      BY <1>1, <2>1, <2>2, QuietOrder DEF Passes, inboxTables
  <1>2. CASE TurnsAway(r)
    BY <1>2, QuietOrder DEF TurnsAway, inboxTables, Places
  <1>3. CASE Begins(r) /\ issued[i].actor # b
    <2>1. Begun(b)' = Begun(b)
      BY <1>3 DEF Begins, Begun
    <2> QED
      BY <1>3, <2>1, ForeignOrder DEF Begins
  <1>4. CASE Gives(r) /\ issued[i].actor # b
    <2>1. Begun(b)' = Begun(b)
      BY <1>4 DEF Gives, Begun
    <2> QED
      BY <1>4, <2>1, ForeignOrder DEF Gives, inboxTables
  <1>5. CASE Works(r) /\ issued[i].actor # b
    <2>1. PICK pc \in {"accept", "idle"} : WorksOn(r, pc)
      BY <1>5 DEF Works
    <2>2. Begun(b)' = Begun(b)
      BY <2>1 DEF WorksOn, Begun
    <2>3. b \in follower' <=> b \in follower
      BY <1>5 DEF Works, Inbox!AcceptFollow, Inbox!QueueAccept, Inbox!Undo, Inbox!AcceptReaction,
                  Inbox!AcceptCreate, Inbox!AddFollower, Inbox!RemoveFollower, Inbox!Actor
    <2>4. b \in reaction' <=> b \in reaction
      BY <1>5 DEF Works, Inbox!AcceptFollow, Inbox!QueueAccept, Inbox!Undo, Inbox!AcceptReaction,
                  Inbox!AcceptCreate, Inbox!RecordReaction, Inbox!ForgetReaction, Inbox!Actor
    <2> QED
      BY <1>5, <2>1, <2>2, <2>3, <2>4, ForeignOrder DEF WorksOn, Busy, AtWork
  <1> QED
    BY <1>1, <1>2, <1>3, <1>4, <1>5, BeginsOrder, GivesOrder, WorksOrder DEF HandlerStep

LEMMA InboxOrderKept ==
  ASSUME InboxFirst, InboxMarks, InboxOrder, Inbox!Next
  PROVE  InboxOrder'
  <1> SUFFICES ASSUME NEW b \in Actors PROVE OrderAt(b)'
    BY DEF InboxOrder, OrderAt
  <1>1. OrderAt(b)
    BY DEF InboxOrder, OrderAt
  <1>2. CASE \E a \in Actors, type \in Types, named \in BOOLEAN : Inbox!Issue(a, type, named)
    BY <1>1, <1>2, IssueOrder
  <1>3. CASE \E r \in Requests : \E i \in DOMAIN issued : Inbox!Deliver(r, i)
    BY <1>1, <1>3, DeliverOrder
  <1>4. CASE \E r \in Requests : HandlerStep(r)
    BY <1>1, <1>4, HandlerOrder
  <1>5. CASE Aside
    BY <1>1, <1>5, AsideOrder
  <1> QED
    BY <1>2, <1>3, <1>4, <1>5, InboxSteps

\* What the tables say of an orderly actor is what it said last.
LEMMA SaysLast ==
  ASSUME InboxFirst, InboxMarks, NEW a \in Actors, NEW on, NEW off, on # off, HasLast(a, on, off),
         \A i \in DOMAIN issued : issued[i].actor = a => i \in started
  PROVE  Says(a, on, off) <=> Inbox!LastOf(a, on, off) = on
  <1> DEFINE mine == OfKind(a, on, off)
  <1>1. Inbox!LastOf(a, on, off) =
          IF mine = {} THEN off ELSE issued[CHOOSE i \in mine : \A j \in mine : j <= i].type
    BY DEF Inbox!LastOf, OfKind
  <1>2. Begun(a) = {i \in DOMAIN issued : issued[i].actor = a}
    BY DEF Begun, InboxMarks
  <1>3. mine = {i \in Begun(a) : issued[i].type \in {on, off}}
    BY <1>2 DEF OfKind
  <1>4. CASE mine = {}
    BY <1>1, <1>3, <1>4 DEF Says
  <1>5. CASE mine # {}
    <2> DEFINE last == CHOOSE i \in mine : \A j \in mine : j <= i
    <2>1. last \in mine /\ \A j \in mine : j <= last
      BY <1>5 DEF HasLast
    <2>2. \A j \in mine : j \in Nat
      BY ActorFits DEF OfKind, InboxFirst
    <2>3. Inbox!LastOf(a, on, off) = issued[last].type
      BY <1>1, <1>5
    <2> HIDE DEF last, mine
    <2>4. CASE issued[last].type = on
      <3>1. \A j \in Begun(a) : issued[j].type = off => j \in mine /\ j # last
        BY <1>3, <2>4
      <3>2. \A j \in Begun(a) : issued[j].type = off => j < last
        BY <3>1, <2>1, <2>2
      <3> QED
        BY <1>3, <2>1, <2>3, <2>4, <3>2 DEF Says
    <2>5. CASE issued[last].type # on
      <3>1. last \in Begun(a) /\ issued[last].type = off
        BY <1>3, <2>1, <2>5
      <3>2. \A i \in Begun(a) : issued[i].type = on => ~(last < i)
        BY <1>3, <2>1, <2>2
      <3>3. ~Says(a, on, off)
        BY <3>1, <3>2 DEF Says
      <3> QED
        BY <2>3, <2>5, <3>3
    <2> QED
      BY <2>4, <2>5
  <1> QED
    BY <1>4, <1>5

LEMMA OrderMatches ==
  ASSUME InboxFirst, InboxMarks, InboxOrder
  PROVE  Inbox!MatchesWish
  <1> SUFFICES ASSUME NEW a \in Actors,
                      \A i \in DOMAIN issued : issued[i].actor = a =>
                        i \in acked /\ i \notin cut /\ ~Inbox!UnderWay(i) /\ issued[i].named,
                      a \notin odd
               PROVE  /\ a \in follower <=> Inbox!LastOf(a, "Follow", "Unfollow") = "Follow"
                      /\ a \in reaction <=> Inbox!LastOf(a, "Like", "Unlike") = "Like"
    BY DEF Inbox!MatchesWish, Inbox!Actor, Inbox!Addressee
  <1>1. Orderly(a)
    BY DEF Orderly
  <1>2. Follows(a) /\ Likes(a) /\ HasLast(a, "Follow", "Unfollow") /\ HasLast(a, "Like", "Unlike")
    BY <1>1 DEF InboxOrder
  <1>3. \A i \in DOMAIN issued : issued[i].actor = a => i \in started
    BY DEF InboxMarks
  <1>4. ASSUME NEW on, NEW off PROVE Settled(a, on, off)
    BY DEF Settled, Inbox!UnderWay, InboxFirst, InboxTypes, Busy
  <1>5. a \in follower <=> Says(a, "Follow", "Unfollow")
    BY <1>2, <1>4 DEF Follows
  <1>6. a \in reaction <=> Says(a, "Like", "Unlike")
    BY <1>2, <1>4 DEF Likes
  <1> QED
    BY <1>2, <1>3, <1>5, <1>6, SaysLast

-----------------------------------------------------------------------------
(* The inbox as a part of the federation *)

InboxIInv == part = "inbox" => InboxFirst /\ InboxMarks /\ InboxOrder

LEMMA InboxIInvInit == Init => InboxIInv
  BY InboxFirstInit, InboxMarksInit, InboxOrderInit DEF Init, InboxIInv

LEMMA InboxIInvKept == InboxIInv /\ [Next]_all => InboxIInv'
  <1> SUFFICES ASSUME InboxIInv, [Next]_all, part' = "inbox" PROVE (InboxFirst /\ InboxMarks /\ InboxOrder)'
    BY DEF InboxIInv
  <1>1. part = "inbox" /\ (Inbox!Next \/ UNCHANGED all)
    BY DEF Next, all
  <1>2. InboxFirst /\ InboxMarks /\ InboxOrder
    BY <1>1 DEF InboxIInv
  <1>3. CASE Inbox!Next
    BY <1>2, <1>3, InboxSteps, InboxMarksKept, InboxOrderKept
  <1>4. CASE UNCHANGED all
    <2>1. UNCHANGED <<issued, acked, key, cache, now, inboxTables, req, started, cut, odd, wronged>>
      BY <1>4 DEF all, OfInbox, inboxTables
    <2>2. InboxFirst'
      BY <1>2, <2>1 DEF InboxFirst, InboxTypes, InboxKeys, Learnt, Inbox!Actor, Busy
    <2>3. Aside
      BY <2>1 DEF Aside, inboxTables
    <2>4. InboxMarks'
      BY <1>2, <2>3, AsideMarks
    <2>5. InboxOrder'
      BY <1>2, <2>3, AsideOrder DEF InboxOrder, OrderAt
    <2> QED
      BY <2>2, <2>4, <2>5
  <1> QED
    BY <1>1, <1>3, <1>4

LEMMA InboxIInvHolds == Spec => []InboxIInv
  BY InboxIInvInit, InboxIInvKept, PTL DEF Spec

\* Nobody whose key, clock and standing are right is refused, once the cache
\* of keys may have run out (internal/web/activitypub.go, authenticateDelivery).
THEOREM NobodyWronged == Spec => []NotWronged
  <1>1. InboxIInv => NotWronged
    BY DEF InboxIInv, InboxFirst, NotWronged, Inbox!NotWronged
  <1> QED
    BY <1>1, InboxIInvHolds, PTL

\* Whatever was acknowledged was done, however deliveries repeat and handlers
\* overlap, unless a handler of it failed (internal/web/activitypub.go).
THEOREM AcknowledgedIsDone == Spec => []Acknowledged
  <1>1. InboxIInv => Acknowledged
    BY MarksAcknowledge DEF InboxIInv, Acknowledged
  <1> QED
    BY <1>1, InboxIInvHolds, PTL

\* The tables of followers and reactions say what an orderly actor said last
\* (internal/activitypub/store.go).
THEOREM TablesSayTheLast == Spec => []MatchesWish
  <1>1. InboxIInv => MatchesWish
    BY OrderMatches DEF InboxIInv, MatchesWish
  <1> QED
    BY <1>1, InboxIInvHolds, PTL

-----------------------------------------------------------------------------
(* Push *)

Modes == {"none", "subscribe", "unsubscribe"}
Intents == [mode : Modes, secret : 0..MaxAsks]
Rows == [mode : Modes, secret : 0..MaxAsks, challenge : 0..MaxAsks, lease : 0..(MaxTime + Lease),
         verified : BOOLEAN]
Asked == [n : 0..MaxAsks, protocol : {"websub", "rsscloud"}, mode : Modes, secret : 0..MaxAsks]
Points == {"new", "asked", "refused", "confirm", "write", "clear", "echoed"}
Verification == [n : 0..MaxAsks, protocol : {"websub", "rsscloud"}, pc : Points, mode : Modes,
                 challenge : 0..MaxAsks, intent : Intents]
Letters == [protocol : {"websub", "rsscloud"}, secret : 0..MaxAsks, n : Nat, safe : BOOLEAN]

PushTypes ==
  /\ now \in 0..MaxTime /\ secret \in 0..MaxAsks /\ next \in Nat \ {0} /\ lost \in Nat /\ news \in Nat
  /\ offered \subseteq Push!Protocols
  /\ until \in [Push!Protocols -> 0..(MaxTime + Lease)] /\ intent \in [Push!Protocols -> Intents]
  /\ listed \in [Push!Protocols -> Rows]
  /\ clean \in [Push!Protocols -> BOOLEAN] /\ sure \in [Push!Protocols -> BOOLEAN]
  /\ asks \subseteq Asked /\ checks \subseteq Verification /\ mail \subseteq Letters

\* Where rows and requests come from.
PushSense ==
  /\ \A x \in asks \cup checks : x.protocol \in offered
  /\ \A m \in mail : m.protocol \in offered
  /\ \A c \in checks : c.pc = "new" => c.protocol = "websub"
  /\ \A p \in Push!Protocols : listed[p] # Push!NoSub \/ until[p] # 0 => p \in offered
  /\ \A p \in Push!Protocols : until[p] <= now + Lease /\ (intent[p].mode = "none" => intent[p] = Push!NoIntent)
  /\ \A p \in Push!Protocols : intent[p].mode = "unsubscribe" => p = "websub"
  /\ row => known
  /\ leaving => row
  /\ ~row => secret = 0 /\ \A p \in Push!Protocols : intent[p] = Push!NoIntent /\ until[p] = 0

\* One exchange at most, if it is clean; and an exchange that is not puts in
\* doubt what both sides know.
Single(p) ==
  /\ clean[p] =>
       /\ \A a, b \in asks : a.protocol = p /\ b.protocol = p => a = b
       /\ \A c, d \in checks : c.protocol = p /\ d.protocol = p => c = d
       /\ \A a \in asks, c \in checks : ~(a.protocol = p /\ c.protocol = p)
  /\ sure[p] /\ ~Push!Still(p) => clean[p]

\* A clean exchange, by how far it came.
AskStage(a) ==
  /\ a.protocol = "websub" /\ a.mode = "subscribe" =>
       row /\ ~leaving /\ intent["websub"] = [mode |-> "subscribe", secret |-> a.secret]
  /\ a.protocol = "websub" /\ a.mode # "subscribe" =>
       a.mode = "unsubscribe" /\ (leaving \/ ~row) /\ (row => intent["websub"].mode = "unsubscribe")
  /\ a.protocol = "rsscloud" =>
       a.mode = "subscribe" /\ (row => intent["rsscloud"].mode = "subscribe")

Early == {"new", "asked", "confirm", "write"}
Late == {"clear", "echoed"}

JoinStage(c) ==
  /\ row /\ ~leaving /\ c.pc # "refused"
  /\ listed["websub"].mode = "subscribe" /\ listed["websub"].lease = now + Lease
  /\ c.pc \in Early => intent["websub"] = [mode |-> "subscribe", secret |-> listed["websub"].secret]
  /\ c.pc = "write" => c.intent = intent["websub"]
  /\ c.pc \in Late => until["websub"] = now + Lease /\ secret = listed["websub"].secret

PartStage(c) ==
  /\ leaving \/ ~row
  /\ c.pc = "new" => listed["websub"].mode = "unsubscribe" /\ listed["websub"].lease = now + Lease
  /\ c.pc \in Early /\ row => intent["websub"].mode = "unsubscribe"
  /\ c.pc = "write" /\ row => c.intent.mode = "unsubscribe"
  /\ c.pc \in Late /\ row => until["websub"] = 0
  /\ c.pc = "refused" => ~row

CloudStage(c) ==
  /\ c.pc # "new"
  /\ c.pc \in Early /\ row => intent["rsscloud"].mode = "subscribe"
  /\ c.pc = "write" => c.intent.mode = "subscribe"
  /\ c.pc \in Late /\ row => until["rsscloud"] = now + Lease
  /\ c.pc = "refused" => ~row

CheckStage(c) ==
  /\ c.protocol = "websub" /\ c.mode = "subscribe" => JoinStage(c)
  /\ c.protocol = "websub" /\ c.mode # "subscribe" => c.mode = "unsubscribe" /\ PartStage(c)
  /\ c.protocol = "rsscloud" => CloudStage(c)

Staged(p) ==
  clean[p] =>
    /\ \A a \in asks : a.protocol = p => AskStage(a)
    /\ \A c \in checks : c.protocol = p => CheckStage(c)

Active(p) == listed[p].verified /\ listed[p].mode = "subscribe"

\* What both sides know fits.
Fits(p) ==
  /\ Push!Holds(p) /\ ~leaving =>
       Active(p) /\ until[p] <= listed[p].lease /\ (p = "websub" => listed[p].secret = secret)
  /\ p = "websub" /\ (leaving \/ ~row) => ~Active(p)
  /\ p = "websub" /\ row /\ Active(p) => secret = 0 \/ listed[p].secret = secret

\* No exchange of p has changed anything yet.
Untouched(p) ==
  /\ \A a \in asks : a.protocol = p => a.mode = "subscribe"
  /\ \A c \in checks : c.protocol = p => p = "rsscloud" /\ c.pc \notin Late

Fitting(p) == sure[p] /\ Untouched(p) => Fits(p)

\* A delivery that met no exchange carries the secret of the follower.
Mailed(m) ==
  m.safe => Push!Still(m.protocol)
            /\ (m.protocol = "websub" /\ row => secret = 0 \/ m.secret = secret)

\* Hours of a lease are only used up by requests that are lost and upkeeps that
\* pass it over.
Lasting(p) ==
  sure[p] /\ row /\ until[p] # 0 =>
    until[p] >= now + RenewAt - lost - (IF duty \/ ~Push!Still(p) THEN 1 ELSE 0)

PartOf(p) == Single(p) /\ Staged(p) /\ Fitting(p) /\ Lasting(p)

Posted == ~missed /\ \A m \in mail : Mailed(m)

PushInv ==
  /\ PushTypes /\ PushSense
  /\ \A p \in Push!Protocols : PartOf(p)
  /\ Posted

LEMMA TwoProtocols == Push!Protocols \subseteq {"websub", "rsscloud"}
  BY PushAssumption DEF Push!Protocols

LEMMA PushInit == Push!Init => PushInv
  <1> SUFFICES ASSUME Push!Init PROVE PushInv
    OBVIOUS
  <1>1. asks = {} /\ checks = {} /\ mail = {} /\ now = 0 /\ lost = 0 /\ secret = 0 /\ next = 1 /\ news = 0
        /\ ~row /\ ~leaving /\ ~missed /\ offered \in Offers
    BY DEF Push!Init
  <1>2. Push!NoIntent \in Intents /\ Push!NoIntent.mode = "none"
    BY PushAssumption DEF Push!NoIntent, Intents, Modes
  <1>3. Push!NoSub \in Rows /\ ~Push!NoSub.verified
    BY PushAssumption DEF Push!NoSub, Rows, Modes
  <1>4. \A p \in Push!Protocols : listed[p] = Push!NoSub /\ intent[p] = Push!NoIntent /\ until[p] = 0
    BY DEF Push!Init
  <1>5. PushTypes
    <2>1. now \in 0..MaxTime /\ secret \in 0..MaxAsks /\ 0 \in 0..(MaxTime + Lease)
      BY <1>1, PushAssumption
    <2>2. offered \subseteq Push!Protocols
      BY <1>1 DEF Push!Protocols
    <2>3. until \in [Push!Protocols -> 0..(MaxTime + Lease)] /\ intent \in [Push!Protocols -> Intents]
          /\ listed \in [Push!Protocols -> Rows]
      BY <1>2, <1>3, <2>1 DEF Push!Init
    <2>4. clean \in [Push!Protocols -> BOOLEAN] /\ sure \in [Push!Protocols -> BOOLEAN]
      BY DEF Push!Init
    <2> QED
      BY <1>1, <2>1, <2>2, <2>3, <2>4 DEF PushTypes
  <1>6. PushSense
    BY <1>1, <1>2, <1>4, PushAssumption DEF PushSense
  <1>7. ASSUME NEW p \in Push!Protocols PROVE PartOf(p)
    <2>1. Single(p) /\ Staged(p)
      BY <1>1 DEF Single, Staged, Push!Still
    <2>2. Fitting(p) /\ Lasting(p)
      BY <1>1, <1>3, <1>4 DEF Fitting, Fits, Push!Holds, Active, Lasting
    <2> QED
      BY <2>1, <2>2 DEF PartOf
  <1> QED
    BY <1>1, <1>5, <1>6, <1>7 DEF PushInv, Posted

\* What a step that is not about p leaves alone.
SameItems(p) ==
  /\ \A a : a \in asks' /\ a.protocol = p <=> a \in asks /\ a.protocol = p
  /\ \A c : c \in checks' /\ c.protocol = p <=> c \in checks /\ c.protocol = p

SameFacts(p) ==
  /\ until'[p] = until[p] /\ intent'[p] = intent[p] /\ listed'[p] = listed[p]
  /\ clean'[p] = clean[p] /\ sure'[p] = sure[p]
  /\ p = "websub" => secret' = secret

LEMMA SameStill ==
  ASSUME NEW p, SameItems(p)
  PROVE  Push!Still(p)' <=> Push!Still(p)
  BY DEF SameItems, Push!Still

LEMMA PartSame ==
  ASSUME NEW p \in Push!Protocols, Single(p), Staged(p), Fitting(p), SameItems(p), SameFacts(p),
         now' = now, row' = row, leaving' = leaving
  PROVE  Single(p)' /\ Staged(p)' /\ Fitting(p)'
  <1>1. clean'[p] = clean[p] /\ sure'[p] = sure[p] /\ until'[p] = until[p] /\ intent'[p] = intent[p]
        /\ listed'[p] = listed[p] /\ (p = "websub" => secret' = secret)
    BY DEF SameFacts
  <1>2. Single(p)'
    BY <1>1, SameStill DEF Single, SameItems
  <1>3. ASSUME NEW a, a.protocol = p PROVE AskStage(a)' = AskStage(a)
    BY <1>1, <1>3 DEF AskStage
  <1>4. ASSUME NEW c, c.protocol = p PROVE CheckStage(c)' = CheckStage(c)
    BY <1>1, <1>4 DEF CheckStage, JoinStage, PartStage, CloudStage
  <1>5. Staged(p)'
    BY <1>1, <1>3, <1>4 DEF Staged, SameItems
  <1>6. Untouched(p)' <=> Untouched(p)
    BY DEF Untouched, SameItems
  <1>7. Fits(p) => Fits(p)'
    BY <1>1 DEF Fits, Push!Holds, Active
  <1>8. Fitting(p)'
    BY <1>1, <1>6, <1>7 DEF Fitting
  <1> QED
    BY <1>2, <1>5, <1>8

LEMMA LastingSame ==
  ASSUME NEW p \in Push!Protocols, PushTypes, Lasting(p), SameItems(p), SameFacts(p),
         now' = now, row' = row, duty' = duty, lost' \in Nat, lost <= lost'
  PROVE  Lasting(p)'
  <1>1. sure'[p] = sure[p] /\ until'[p] = until[p] /\ until[p] \in Int /\ now \in Int /\ lost \in Nat
        /\ RenewAt \in Int
    BY PushAssumption DEF SameFacts, PushTypes
  <1>2. Push!Still(p)' <=> Push!Still(p)
    BY SameStill
  <1>3. SUFFICES ASSUME sure[p], row, until[p] # 0
                 PROVE  until[p] >= now + RenewAt - lost' - (IF duty \/ ~Push!Still(p) THEN 1 ELSE 0)
    BY <1>1, <1>2 DEF Lasting
  <1>4. until[p] >= now + RenewAt - lost - (IF duty \/ ~Push!Still(p) THEN 1 ELSE 0)
    BY <1>3 DEF Lasting
  <1> QED
    BY <1>1, <1>4

LEMMA OtherPart ==
  ASSUME NEW p \in Push!Protocols, PushTypes, PartOf(p), SameItems(p), SameFacts(p),
         UNCHANGED <<now, row, leaving, duty>>, lost' \in Nat, lost <= lost'
  PROVE  PartOf(p)'
  BY PartSame, LastingSame DEF PartOf

\* Nothing was ever asked about a protocol the feed does not offer.
LEMMA AbsentPart ==
  ASSUME NEW p \in Push!Protocols, PushSense', now' \in 0..MaxTime, p \notin offered'
  PROVE  PartOf(p)'
  <1>1. /\ \A a \in asks' : a.protocol # p
        /\ \A c \in checks' : c.protocol # p
        /\ listed'[p] = Push!NoSub /\ until'[p] = 0
    BY DEF PushSense
  <1>2. Single(p)' /\ Staged(p)'
    BY <1>1 DEF Single, Staged, Push!Still
  <1>3. ~Active(p)'
    BY <1>1 DEF Active, Push!NoSub
  <1>4. Fitting(p)' /\ Lasting(p)'
    BY <1>1, <1>3, PushAssumption DEF Fitting, Fits, Push!Holds, Lasting
  <1> QED
    BY <1>2, <1>4 DEF PartOf

\* A verification goes on: another record of the same protocol takes its place.
Swaps(c, d) ==
  /\ c \in checks /\ d \in Verification /\ d.protocol = c.protocol /\ asks' = asks
  /\ d.pc = "new" => d.protocol = "websub"
  /\ checks' = (checks \ {c}) \cup {d}

\* A verification is over.
Closes(c) == c \in checks /\ asks' = asks /\ checks' = checks \ {c}

LEMMA SwapOthers ==
  ASSUME NEW c, NEW d, Swaps(c, d), NEW p, p # c.protocol
  PROVE  SameItems(p)
  BY DEF Swaps, SameItems

LEMMA CloseOthers ==
  ASSUME NEW c, Closes(c), NEW p, p # c.protocol
  PROVE  SameItems(p)
  BY DEF Closes, SameItems

LEMMA SwapSingle ==
  ASSUME NEW c, NEW d, Swaps(c, d), Single(c.protocol),
         clean'[c.protocol] => clean[c.protocol],
         sure'[c.protocol] => sure[c.protocol] /\ clean'[c.protocol]
  PROVE  /\ Single(c.protocol)'
         /\ ~Push!Still(c.protocol) /\ ~Push!Still(c.protocol)'
  <1>1. c \in checks /\ d \in checks' /\ d.protocol = c.protocol
    BY DEF Swaps
  <1>2. ~Push!Still(c.protocol) /\ ~Push!Still(c.protocol)'
    BY <1>1 DEF Push!Still
  <1>3. Single(c.protocol)'
    BY <1>1, <1>2 DEF Single, Swaps
  <1> QED
    BY <1>2, <1>3

LEMMA CloseSingle ==
  ASSUME NEW c, Closes(c), Single(c.protocol),
         clean'[c.protocol] => clean[c.protocol],
         sure'[c.protocol] => clean'[c.protocol]
  PROVE  /\ Single(c.protocol)'
         /\ ~Push!Still(c.protocol)
         /\ clean[c.protocol] => Push!Still(c.protocol)'
  <1>1. ~Push!Still(c.protocol)
    BY DEF Push!Still, Closes
  <1>2. clean[c.protocol] => Push!Still(c.protocol)'
    BY DEF Push!Still, Closes, Single
  <1>3. Single(c.protocol)'
    BY <1>1, <1>2 DEF Single, Closes
  <1> QED
    BY <1>1, <1>2, <1>3

-----------------------------------------------------------------------------
(* Requests *)

LEMMA CountFits ==
  ASSUME NEW protocols \in SUBSET {"websub", "rsscloud"}
  PROVE  /\ Cardinality(protocols) \in Nat
         /\ "websub" \in protocols => Cardinality(protocols \cap {"websub"}) = 1 /\ Cardinality(protocols) >= 1
         /\ "websub" \notin protocols => Cardinality(protocols \cap {"websub"}) = 0
         /\ "rsscloud" \in protocols =>
              Cardinality(protocols \cap {"websub"}) + 1 = Cardinality(protocols)
  <1>1. /\ IsFiniteSet({"websub", "rsscloud"}) /\ Cardinality({"websub", "rsscloud"}) = 2
        /\ IsFiniteSet({"websub"}) /\ Cardinality({"websub"}) = 1
        /\ Cardinality({"rsscloud"}) = 1 /\ Cardinality({}) = 0
    <2>1. IsFiniteSet({"websub"}) /\ Cardinality({"websub"}) = 1 /\ Cardinality({"rsscloud"}) = 1
      BY FS_Singleton
    <2>2. Cardinality({}) = 0
      BY FS_EmptySet
    <2>3. {"websub"} \cup {"rsscloud"} = {"websub", "rsscloud"} /\ "rsscloud" \notin {"websub"}
      OBVIOUS
    <2>4. /\ IsFiniteSet({"websub"} \cup {"rsscloud"})
          /\ Cardinality({"websub"} \cup {"rsscloud"}) = Cardinality({"websub"}) + 1
      BY <2>1, <2>3, FS_AddElement
    <2> QED
      BY <2>1, <2>2, <2>3, <2>4
  <1>2. protocols = {} \/ protocols = {"websub"} \/ protocols = {"rsscloud"} \/ protocols = {"websub", "rsscloud"}
    OBVIOUS
  <1>3. CASE protocols = {}
    <2>1. protocols \cap {"websub"} = {}
      BY <1>3
    <2> QED
      BY <1>1, <1>3, <2>1
  <1>4. CASE protocols = {"websub"}
    <2>1. protocols \cap {"websub"} = {"websub"}
      BY <1>4
    <2> QED
      BY <1>1, <1>4, <2>1
  <1>5. CASE protocols = {"rsscloud"}
    <2>1. protocols \cap {"websub"} = {}
      BY <1>5
    <2> QED
      BY <1>1, <1>5, <2>1
  <1>6. CASE protocols = {"websub", "rsscloud"}
    <2>1. protocols \cap {"websub"} = {"websub"}
      BY <1>6
    <2> QED
      BY <1>1, <1>6, <2>1
  <1> QED
    BY <1>2, <1>3, <1>4, <1>5, <1>6

\* What a round of requests comes to.
NewAsk(a, protocols, mode) ==
  /\ a \in Asked /\ a.protocol \in protocols /\ a.mode = mode
  /\ intent'[a.protocol] = [mode |-> mode, secret |-> a.secret]

Talked(protocols, mode) ==
  /\ \A a \in asks' : a \in asks \/ NewAsk(a, protocols, mode)
  /\ asks \subseteq asks'
  /\ \A a, b \in asks' : a \notin asks /\ b \notin asks /\ a.protocol = b.protocol => a = b
  /\ \A p \in protocols : \E a \in asks' : a.protocol = p /\ a.mode = mode
  /\ intent' \in [Push!Protocols -> Intents] /\ \A p \in protocols : intent'[p].mode = mode
  /\ \A p \in Push!Protocols \ protocols : intent'[p] = intent[p] /\ clean'[p] = clean[p]
  /\ clean' \in [Push!Protocols -> BOOLEAN] /\ sure' \in [Push!Protocols -> BOOLEAN]
  /\ \A p \in protocols : clean'[p] => Push!Still(p) /\ ~leaving
  /\ \A p \in protocols : sure'[p] => clean'[p]
  /\ \A p \in Push!Protocols : sure'[p] => sure[p]
  /\ \A p \in Push!Protocols \ protocols : sure[p] /\ clean[p] => sure'[p]
  /\ \A m \in mail' : \E o \in mail :
       /\ m.protocol = o.protocol /\ m.secret = o.secret /\ m \in Letters
       /\ m.safe => o.safe /\ m.protocol \notin protocols
  /\ next' \in Nat \ {0}

LEMMA TalkComes ==
  ASSUME PushTypes, NEW protocols \in SUBSET Push!Protocols, NEW mode \in {"subscribe", "unsubscribe"},
         Push!Talk(protocols, mode)
  PROVE  Talked(protocols, mode)
  <1> DEFINE number(p) == IF p = "websub" THEN next
                          ELSE next + Push!Cardinality(protocols \cap {"websub"})
  <1> DEFINE sent == IF mode = "subscribe" THEN [p \in protocols |-> IF p = "websub" THEN number(p) ELSE 0]
                     ELSE [p \in protocols |-> 0]
  <1> DEFINE ask(p) == [n |-> number(p), protocol |-> p, mode |-> mode, secret |-> sent[p]]
  <1>1. /\ next + Push!Cardinality(protocols) <= MaxAsks + 1
        /\ next' = next + Push!Cardinality(protocols)
        /\ intent' = Push!Intend(sent, mode)
        /\ asks' = asks \cup {ask(p) : p \in protocols}
        /\ clean' = [p \in Push!Protocols |-> IF p \in protocols THEN Push!Still(p) /\ ~leaving ELSE clean[p]]
        /\ sure' = [p \in Push!Protocols |-> sure[p] /\ clean'[p]]
        /\ mail' = {[m EXCEPT !.safe = @ /\ m.protocol \notin protocols] : m \in mail}
    BY DEF Push!Talk
  <1>2. protocols \in SUBSET {"websub", "rsscloud"}
    BY TwoProtocols
  <1>3. Push!Cardinality(protocols) = Cardinality(protocols)
        /\ Push!Cardinality(protocols \cap {"websub"}) = Cardinality(protocols \cap {"websub"})
    BY DEF Cardinality, Push!Cardinality, IsFiniteSet, Push!IsFiniteSet
  <1>4. next \in Nat \ {0} /\ MaxAsks \in Nat
    BY PushAssumption DEF PushTypes
  <1>5. next' \in Nat \ {0}
    BY <1>1, <1>2, <1>3, <1>4, CountFits
  <1>6. \A p \in protocols : number(p) \in 0..MaxAsks
    <2> SUFFICES ASSUME NEW p \in protocols PROVE number(p) \in 0..MaxAsks
      OBVIOUS
    <2>1. CASE p = "websub"
      BY <2>1, <1>1, <1>2, <1>3, <1>4, CountFits
    <2>2. CASE p = "rsscloud"
      <3>1. /\ Cardinality(protocols \cap {"websub"}) + 1 = Cardinality(protocols)
            /\ Cardinality(protocols) \in Nat /\ Cardinality(protocols \cap {"websub"}) \in Nat
        BY <2>2, <1>2, CountFits
      <3>2. number(p) = next + Cardinality(protocols \cap {"websub"})
        BY <2>2, <1>3
      <3> QED
        BY <3>1, <3>2, <1>1, <1>3, <1>4
    <2> QED
      BY <2>1, <2>2, <1>2
  <1> HIDE DEF number
  <1>7. \A p \in protocols : sent[p] \in 0..MaxAsks
    BY <1>4, <1>6
  <1>8. DOMAIN sent = protocols
    OBVIOUS
  <1> HIDE DEF sent
  <1>9. \A p \in protocols : ask(p) \in Asked /\ ask(p).protocol = p /\ ask(p).mode = mode /\ ask(p).secret = sent[p]
    BY <1>2, <1>6, <1>7 DEF Asked, Modes
  <1> HIDE DEF ask
  <1>10. \A p \in protocols : intent'[p] = [mode |-> mode, secret |-> sent[p]]
    BY <1>1, <1>8 DEF Push!Intend
  <1>11. \A p \in Push!Protocols \ protocols : intent'[p] = intent[p]
    BY <1>1, <1>8 DEF Push!Intend
  <1>12. intent' \in [Push!Protocols -> Intents]
    <2>1. \A p \in Push!Protocols :
            (IF p \in DOMAIN sent THEN [mode |-> mode, secret |-> sent[p]] ELSE intent[p]) \in Intents
      BY <1>7, <1>8 DEF Intents, Modes, PushTypes
    <2> QED
      BY <1>1, <2>1 DEF Push!Intend
  <1>13. \A p \in protocols : intent'[p].mode = mode
    <2> SUFFICES ASSUME NEW p \in protocols PROVE intent'[p].mode = mode
      OBVIOUS
    <2>1. intent'[p] = [mode |-> mode, secret |-> sent[p]]
      BY <1>10
    <2> QED
      BY <2>1
  <1>14. \A a \in asks' : a \in asks \/ \E p \in protocols : a = ask(p)
    BY <1>1
  <1>15. \A a \in asks' : a \in asks \/ NewAsk(a, protocols, mode)
    BY <1>9, <1>10, <1>14 DEF NewAsk
  <1>16. \A a, b \in asks' : a \notin asks /\ b \notin asks /\ a.protocol = b.protocol => a = b
    BY <1>9, <1>14
  <1>17. \A p \in protocols : ask(p) \in asks' /\ ask(p).protocol = p /\ ask(p).mode = mode
    BY <1>1, <1>9
  <1>18. \A m \in mail' : \E o \in mail :
           /\ m.protocol = o.protocol /\ m.secret = o.secret /\ m \in Letters
           /\ m.safe => o.safe /\ m.protocol \notin protocols
    <2> SUFFICES ASSUME NEW o \in mail, NEW m, m = [o EXCEPT !.safe = @ /\ o.protocol \notin protocols]
                 PROVE  /\ m.protocol = o.protocol /\ m.secret = o.secret /\ m \in Letters
                        /\ m.safe => o.safe /\ m.protocol \notin protocols
      BY <1>1
    <2>1. o \in Letters
      BY DEF PushTypes
    <2>2. (o.safe /\ o.protocol \notin protocols) \in BOOLEAN
      OBVIOUS
    <2>3. m \in Letters /\ m.protocol = o.protocol /\ m.secret = o.secret
      BY <2>1, <2>2 DEF Letters
    <2>4. m.safe = (o.safe /\ o.protocol \notin protocols)
      BY <2>1 DEF Letters
    <2> QED
      BY <2>3, <2>4
  <1>19. clean' \in [Push!Protocols -> BOOLEAN] /\ sure' \in [Push!Protocols -> BOOLEAN]
    <2>1. \A p \in Push!Protocols : (IF p \in protocols THEN Push!Still(p) /\ ~leaving ELSE clean[p]) \in BOOLEAN
      BY DEF PushTypes
    <2> QED
      BY <1>1, <2>1
  <1>20. \A p \in protocols : clean'[p] => Push!Still(p) /\ ~leaving
    BY <1>1
  <1>21. \A p \in Push!Protocols \ protocols : clean'[p] = clean[p]
    BY <1>1
  <1>22. \A p \in Push!Protocols : sure'[p] = (sure[p] /\ clean'[p])
    BY <1>1
  <1>23. asks \subseteq asks'
    BY <1>1
  <1>24. \A p \in protocols : \E a \in asks' : a.protocol = p /\ a.mode = mode
    BY <1>17
  <1>25. \A p \in Push!Protocols \ protocols : intent'[p] = intent[p] /\ clean'[p] = clean[p]
    BY <1>11, <1>21
  <1>26. protocols \subseteq Push!Protocols
    OBVIOUS
  <1>27. \A p \in protocols : sure'[p] => clean'[p]
    BY <1>22, <1>26
  <1>28. \A p \in Push!Protocols : sure'[p] => sure[p]
    BY <1>22
  <1>29. \A p \in Push!Protocols \ protocols : sure[p] /\ clean[p] => sure'[p]
    BY <1>21, <1>22
  <1> HIDE DEF NewAsk
  <1> QED
    BY <1>5, <1>12, <1>13, <1>15, <1>16, <1>18, <1>19, <1>20, <1>23, <1>24, <1>25, <1>27, <1>28, <1>29 DEF Talked

\* A round of requests, for a protocol it asks about.
LEMMA TalkSingle ==
  ASSUME NEW protocols, NEW mode, Talked(protocols, mode), checks' = checks,
         NEW p \in protocols, Single(p)
  PROVE  Single(p)' /\ ~Push!Still(p)'
         /\ (clean'[p] => \A a \in asks' : a.protocol = p => NewAsk(a, protocols, mode))
         /\ (clean'[p] => \A c \in checks : c.protocol # p)
  <1>1. ~Push!Still(p)'
    BY DEF Talked, Push!Still
  <1>2. clean'[p] => (\A a \in asks : a.protocol # p) /\ \A c \in checks : c.protocol # p
    BY DEF Talked, Push!Still
  <1>3. \A a, b \in asks' : a \notin asks /\ b \notin asks /\ a.protocol = b.protocol => a = b
    BY DEF Talked
  <1>4. sure'[p] => clean'[p]
    BY DEF Talked
  <1>5. Single(p)'
    BY <1>1, <1>2, <1>3, <1>4 DEF Single
  <1>6. clean'[p] => \A a \in asks' : a.protocol = p => NewAsk(a, protocols, mode)
    BY <1>2 DEF Talked
  <1> QED
    BY <1>1, <1>2, <1>5, <1>6

\* ... and for one it does not.
LEMMA TalkOthers ==
  ASSUME NEW protocols \in SUBSET Push!Protocols, NEW mode, Talked(protocols, mode), checks' = checks,
         NEW p \in Push!Protocols, p \notin protocols, Single(p)
  PROVE  SameItems(p) /\ intent'[p] = intent[p] /\ clean'[p] = clean[p]
         /\ (sure'[p] => sure[p]) /\ (Push!Still(p)' <=> Push!Still(p))
  <1>1. SameItems(p)
    BY DEF Talked, NewAsk, SameItems
  <1> QED
    BY <1>1, SameStill DEF Talked

LEMMA TalkOtherPart ==
  ASSUME NEW protocols \in SUBSET Push!Protocols, NEW mode, Talked(protocols, mode),
         NEW p \in Push!Protocols, p \notin protocols, PartOf(p), PushTypes,
         UNCHANGED <<checks, now, until, listed, secret, lost, row>>,
         leaving => leaving',
         leaving' = leaving \/ p = "rsscloud",
         duty' => duty, duty' = duty \/ (row => until[p] >= now + RenewAt)
  PROVE  PartOf(p)'
  <1>1. SameItems(p) /\ intent'[p] = intent[p] /\ clean'[p] = clean[p] /\ (sure'[p] => sure[p])
        /\ (Push!Still(p)' <=> Push!Still(p))
    BY TalkOthers DEF PartOf
  <1>2. Single(p)'
    BY <1>1 DEF PartOf, Single, SameItems
  <1>3. ASSUME NEW a, a.protocol = p, AskStage(a) PROVE AskStage(a)'
    BY <1>1, <1>3 DEF AskStage
  <1>4. ASSUME NEW c, c.protocol = p, CheckStage(c) PROVE CheckStage(c)'
    BY <1>1, <1>4 DEF CheckStage, JoinStage, PartStage, CloudStage
  <1>5. Staged(p)'
    BY <1>1, <1>3, <1>4 DEF Staged, SameItems, PartOf
  <1>6. Untouched(p)' => Untouched(p)
    BY <1>1 DEF Untouched, SameItems
  <1>7. Fits(p) => Fits(p)'
    BY DEF Fits, Push!Holds, Active
  <1>8. Fitting(p)'
    BY <1>1, <1>6, <1>7 DEF Fitting, PartOf
  <1>9. Lasting(p)'
    <2>1. until[p] \in Int /\ now \in Int /\ lost \in Nat /\ RenewAt \in Int
      BY PushAssumption DEF PushTypes
    <2>2. SUFFICES ASSUME sure'[p], row, until[p] # 0
                   PROVE  until[p] >= now + RenewAt - lost - (IF duty' \/ ~Push!Still(p) THEN 1 ELSE 0)
      BY <1>1 DEF Lasting
    <2>3. until[p] >= now + RenewAt - lost - (IF duty \/ ~Push!Still(p) THEN 1 ELSE 0)
      BY <1>1, <2>2 DEF Lasting, PartOf
    <2>4. CASE duty' = duty
      BY <2>3, <2>4
    <2>5. CASE row => until[p] >= now + RenewAt
      BY <2>1, <2>2, <2>5
    <2> QED
      BY <2>4, <2>5
  <1> QED
    BY <1>2, <1>5, <1>8, <1>9 DEF PartOf

LEMMA TalkPosted ==
  ASSUME Posted, NEW protocols \in SUBSET Push!Protocols, NEW mode, Talked(protocols, mode),
         UNCHANGED <<checks, secret, missed>>, PushTypes, PushSense,
         row' => row \/ protocols = offered
  PROVE  Posted'
  <1>1. SUFFICES ASSUME NEW m \in mail', m.safe PROVE Mailed(m)'
    BY DEF Posted, Mailed
  <1>2. PICK o \in mail : m.protocol = o.protocol /\ m.secret = o.secret /\ o.safe /\ m.protocol \notin protocols
    BY <1>1 DEF Talked
  <1>3. Mailed(o) /\ o.protocol \in offered
    BY DEF Posted, PushSense
  <1>4. \A a \in asks' : a.protocol = m.protocol => a \in asks
    BY <1>2 DEF Talked, NewAsk
  <1>5. Push!Still(m.protocol)'
    BY <1>2, <1>3, <1>4 DEF Mailed, Push!Still
  <1>6. row' => row
    BY <1>2, <1>3
  <1> QED
    BY <1>2, <1>3, <1>5, <1>6 DEF Mailed

LEMMA TalkTypes ==
  ASSUME PushTypes, NEW protocols \in SUBSET Push!Protocols, NEW mode, Talked(protocols, mode),
         UNCHANGED <<now, offered, until, secret, checks, listed, lost, news>>
  PROVE  PushTypes'
  BY DEF PushTypes, Talked, NewAsk

LEMMA TalkSense ==
  ASSUME PushTypes, PushSense, NEW protocols \in SUBSET Push!Protocols,
         NEW mode \in {"subscribe", "unsubscribe"}, Talked(protocols, mode),
         protocols \subseteq offered, mode = "unsubscribe" => protocols \subseteq {"websub"},
         UNCHANGED <<now, offered, until, secret, checks, listed>>,
         row' => known', leaving' => row', protocols = {} \/ row', row => row'
  PROVE  PushSense'
  <1>1. \A x \in asks' \cup checks' : x.protocol \in offered
    BY DEF PushSense, Talked, NewAsk
  <1>2. \A m \in mail' : m.protocol \in offered
    BY DEF PushSense, Talked
  <1>3. \A p \in protocols : intent'[p].mode = mode
    BY DEF Talked
  <1>4. \A p \in Push!Protocols \ protocols : intent'[p] = intent[p]
    BY DEF Talked
  <1>5. \A p \in Push!Protocols : intent'[p].mode = "none" => intent'[p] = Push!NoIntent
    BY <1>3, <1>4 DEF PushSense
  <1>6. \A p \in Push!Protocols : intent'[p].mode = "unsubscribe" => p = "websub"
    BY <1>3, <1>4 DEF PushSense
  <1>7. ~row' => secret = 0 /\ \A p \in Push!Protocols : intent'[p] = Push!NoIntent /\ until[p] = 0
    BY <1>4 DEF PushSense
  <1> QED
    BY <1>1, <1>2, <1>5, <1>6, <1>7 DEF PushSense

-----------------------------------------------------------------------------
(* The follower *)

LEMMA SubscribeStep ==
  ASSUME PushInv, Push!Subscribe
  PROVE  PushInv'
  <1>1. PushTypes /\ PushSense /\ Posted /\ \A p \in Push!Protocols : PartOf(p)
    BY DEF PushInv
  <1>2. offered \in SUBSET Push!Protocols
    BY <1>1 DEF PushTypes
  <1>3. /\ ~leaving /\ row' /\ known' /\ Push!Talk(offered, "subscribe")
        /\ UNCHANGED <<now, offered, until, secret, leaving, duty, checks, listed, missed, lost, news>>
    BY DEF Push!Subscribe, Push!AskForPush
  <1>4. Talked(offered, "subscribe")
    BY <1>1, <1>2, <1>3, TalkComes
  <1>5. PushTypes'
    BY <1>1, <1>2, <1>3, <1>4, TalkTypes
  <1>6. PushSense'
    BY <1>1, <1>2, <1>3, <1>4, TalkSense
  <1>7. Posted'
    BY <1>1, <1>2, <1>3, <1>4, TalkPosted
  <1>8. ASSUME NEW p \in Push!Protocols PROVE PartOf(p)'
    <2>1. CASE p \notin offered
      <3>1. now' \in 0..MaxTime /\ p \notin offered'
        BY <1>3, <1>5, <2>1 DEF PushTypes
      <3> QED
        BY <1>6, <3>1, AbsentPart
    <2>2. CASE p \in offered
      <3>1. PartOf(p) /\ p \in Push!Protocols
        BY <1>1
      <3>2. /\ Single(p)' /\ ~Push!Still(p)'
            /\ (clean'[p] => \A a \in asks' : a.protocol = p => NewAsk(a, offered, "subscribe"))
            /\ (clean'[p] => \A c \in checks : c.protocol # p)
        BY <1>3, <1>4, <2>2, <3>1, TalkSingle DEF PartOf
      <3>3. Staged(p)'
        <4>1. ASSUME NEW a, a.protocol = p, NewAsk(a, offered, "subscribe") PROVE AskStage(a)'
          BY <1>3, <4>1 DEF NewAsk, AskStage
        <4> QED
          BY <1>3, <3>2, <4>1 DEF Staged
      <3>4. sure'[p] => (sure[p] /\ Push!Still(p))
        BY <1>4, <2>2 DEF Talked
      <3>5. ~row => (secret = 0 /\ until[p] = 0)
        BY <1>1 DEF PushSense
      <3>6. Fitting(p)'
        <4>1. SUFFICES ASSUME sure'[p] PROVE Fits(p)'
          BY DEF Fitting
        <4>2. Untouched(p)
          BY <3>4, <4>1 DEF Untouched, Push!Still
        <4>3. Fits(p)
          BY <3>1, <3>4, <4>1, <4>2 DEF PartOf, Fitting
        <4>4. CASE row
          BY <1>3, <4>3, <4>4 DEF Fits, Push!Holds, Active
        <4>5. CASE ~row
          <5>1. ~(until[p] > now)
            BY <3>5, <4>5, <1>1, PushAssumption DEF PushTypes
          <5> QED
            BY <1>3, <3>5, <4>5, <5>1 DEF Fits, Push!Holds
        <4> QED
          BY <4>4, <4>5
      <3>7. Lasting(p)'
        <4>1. SUFFICES ASSUME sure'[p], until[p] # 0 PROVE until[p] >= now + RenewAt - lost - 1
          BY <1>3, <3>2 DEF Lasting
        <4>2. sure[p] /\ row
          BY <3>4, <3>5, <4>1
        <4>3. until[p] >= now + RenewAt - lost - (IF duty \/ ~Push!Still(p) THEN 1 ELSE 0)
          BY <3>1, <4>1, <4>2 DEF PartOf, Lasting
        <4>4. until[p] \in Int /\ now \in Int /\ lost \in Int /\ RenewAt \in Int
          BY <1>1, PushAssumption DEF PushTypes
        <4> QED
          BY <4>3, <4>4
      <3> QED
        BY <3>2, <3>3, <3>6, <3>7 DEF PartOf
    <2> QED
      BY <2>1, <2>2
  <1> QED
    BY <1>5, <1>6, <1>7, <1>8 DEF PushInv

LEMMA RenewStep ==
  ASSUME PushInv, Push!RenewPush
  PROVE  PushInv'
  <1> DEFINE due == Push!DueForRenewal
  <1>1. PushTypes /\ PushSense /\ Posted /\ \A p \in Push!Protocols : PartOf(p)
    BY DEF PushInv
  <1>2. due \in SUBSET Push!Protocols /\ due \subseteq offered
        /\ \A p \in due : row /\ known
    BY <1>1 DEF PushTypes, Push!DueForRenewal
  <1>3. /\ duty /\ ~duty' /\ duty' \in BOOLEAN /\ Push!Talk(due, "subscribe")
        /\ UNCHANGED <<now, offered, row, known, until, secret, leaving, checks, listed, missed, lost, news>>
    BY DEF Push!RenewPush
  <1>4. \A p \in offered \ due : row => ~(until[p] < now + RenewAt)
    BY <1>1 DEF Push!DueForRenewal, PushSense
  <1> HIDE DEF due
  <1>5. Talked(due, "subscribe")
    BY <1>1, <1>2, <1>3, TalkComes
  <1>6. PushTypes'
    BY <1>1, <1>2, <1>3, <1>5, TalkTypes
  <1>7. due = {} \/ row'
    BY <1>2, <1>3
  <1>8. PushSense'
    <2>1. (row' => known') /\ (leaving' => row') /\ (row => row')
      BY <1>1, <1>3 DEF PushSense
    <2> QED
      BY <1>1, <1>2, <1>3, <1>5, <1>7, <2>1, TalkSense
  <1>9. Posted'
    BY <1>1, <1>2, <1>3, <1>5, TalkPosted
  <1>10. ASSUME NEW p \in Push!Protocols PROVE PartOf(p)'
    <2>1. CASE p \notin offered
      <3>1. now' \in 0..MaxTime /\ p \notin offered'
        BY <1>3, <1>6, <2>1 DEF PushTypes
      <3> QED
        BY <1>8, <3>1, AbsentPart
    <2>2. CASE p \in offered /\ p \notin due
      <3>1. until[p] \in Int /\ now + RenewAt \in Int
        BY <1>1, PushAssumption DEF PushTypes
      <3>2. row => until[p] >= now + RenewAt
        BY <1>4, <2>2, <3>1
      <3> QED
        BY <1>1, <1>2, <1>3, <1>5, <2>2, <3>2, TalkOtherPart
    <2>3. CASE p \in due
      <3>1. PartOf(p) /\ row
        BY <1>1, <1>2, <2>3
      <3>2. /\ Single(p)' /\ ~Push!Still(p)'
            /\ (clean'[p] => \A a \in asks' : a.protocol = p => NewAsk(a, due, "subscribe"))
            /\ (clean'[p] => \A c \in checks : c.protocol # p)
        BY <1>3, <1>5, <2>3, <3>1, TalkSingle DEF PartOf
      <3>3. clean'[p] => ~leaving
        BY <1>5, <2>3 DEF Talked
      <3>4. Staged(p)'
        <4>1. ASSUME NEW a, a.protocol = p, NewAsk(a, due, "subscribe"), ~leaving PROVE AskStage(a)'
          BY <1>3, <3>1, <4>1 DEF NewAsk, AskStage
        <4> QED
          BY <1>3, <3>2, <3>3, <4>1 DEF Staged
      <3>5. sure'[p] => (sure[p] /\ Push!Still(p))
        BY <1>5, <2>3 DEF Talked
      <3>6. Fitting(p)'
        <4>1. SUFFICES ASSUME sure'[p] PROVE Fits(p)'
          BY DEF Fitting
        <4>2. Untouched(p)
          BY <3>5, <4>1 DEF Untouched, Push!Still
        <4>3. Fits(p)
          BY <3>1, <3>5, <4>1, <4>2 DEF PartOf, Fitting
        <4> QED
          BY <1>3, <4>3 DEF Fits, Push!Holds, Active
      <3>7. Lasting(p)'
        <4>1. SUFFICES ASSUME sure'[p], until[p] # 0 PROVE until[p] >= now + RenewAt - lost - 1
          BY <1>3, <3>2 DEF Lasting
        <4>2. until[p] >= now + RenewAt - lost - (IF duty \/ ~Push!Still(p) THEN 1 ELSE 0)
          BY <3>1, <3>5, <4>1 DEF PartOf, Lasting
        <4> QED
          BY <1>3, <4>2
      <3> QED
        BY <3>2, <3>4, <3>6, <3>7 DEF PartOf
    <2> QED
      BY <2>1, <2>2, <2>3
  <1> QED
    BY <1>6, <1>8, <1>9, <1>10 DEF PushInv

\* An upkeep that passes the feed over uses up an hour, and is counted.
LEMMA PassStep ==
  ASSUME PushInv, Push!PassOver
  PROVE  PushInv'
  <1>1. PushTypes /\ PushSense /\ Posted /\ \A p \in Push!Protocols : PartOf(p)
    BY DEF PushInv
  <1>2. /\ duty /\ ~duty' /\ lost' = lost + 1
        /\ UNCHANGED <<now, offered, row, known, intent, until, secret, leaving, asks, checks, listed, mail,
                       clean, sure, missed, next, news>>
    BY DEF Push!PassOver, Push!history
  <1>3. lost \in Nat /\ now \in Int /\ RenewAt \in Int
    BY <1>1, PushAssumption DEF PushTypes
  <1>4. PushTypes'
    BY <1>1, <1>2, <1>3 DEF PushTypes
  <1>5. PushSense'
    BY <1>1, <1>2 DEF PushSense
  <1>6. Posted'
    BY <1>1, <1>2 DEF Posted, Mailed, Push!Still
  <1>7. ASSUME NEW p \in Push!Protocols PROVE PartOf(p)'
    <2>1. SameItems(p) /\ SameFacts(p)
      BY <1>2 DEF SameItems, SameFacts
    <2>2. Single(p)' /\ Staged(p)' /\ Fitting(p)'
      BY <1>1, <1>2, <2>1, PartSame DEF PartOf
    <2>3. Lasting(p)'
      <3>1. SUFFICES ASSUME sure[p], row, until[p] # 0
                     PROVE  until[p] >= now + RenewAt - (lost + 1) - (IF duty' \/ ~Push!Still(p)' THEN 1 ELSE 0)
        BY <1>2 DEF Lasting
      <3>2. until[p] >= now + RenewAt - lost - 1
        BY <1>1, <1>2, <3>1 DEF PartOf, Lasting
      <3>3. until[p] \in Int
        BY <1>1 DEF PushTypes
      <3> QED
        BY <1>3, <3>2, <3>3
    <2> QED
      BY <2>2, <2>3 DEF PartOf
  <1> QED
    BY <1>4, <1>5, <1>6, <1>7 DEF PushInv

LEMMA LeaveStep ==
  ASSUME PushInv, Push!LeaveHub
  PROVE  PushInv'
  <1> DEFINE gone == IF known THEN offered \cap {"websub"} ELSE {}
  <1>1. PushTypes /\ PushSense /\ Posted /\ \A p \in Push!Protocols : PartOf(p)
    BY DEF PushInv
  <1>2. /\ row /\ ~leaving /\ leaving' /\ Push!Talk(gone, "unsubscribe")
        /\ UNCHANGED <<now, offered, row, known, until, secret, duty, checks, listed, missed, lost, news>>
    BY DEF Push!LeaveHub
  <1>3. known
    BY <1>1, <1>2 DEF PushSense
  <1>4. gone = offered \cap {"websub"}
    BY <1>3
  <1> HIDE DEF gone
  <1>5. gone \in SUBSET Push!Protocols /\ gone \subseteq offered /\ gone \subseteq {"websub"}
    BY <1>1, <1>4 DEF PushTypes
  <1>6. Talked(gone, "unsubscribe")
    BY <1>1, <1>2, <1>5, TalkComes
  <1>7. PushTypes'
    BY <1>1, <1>2, <1>5, <1>6, TalkTypes
  <1>8. PushSense'
    BY <1>1, <1>2, <1>3, <1>5, <1>6, TalkSense
  <1>9. Posted'
    BY <1>1, <1>2, <1>5, <1>6, TalkPosted
  <1>10. ASSUME NEW p \in Push!Protocols PROVE PartOf(p)'
    <2>1. CASE p \notin offered
      <3>1. now' \in 0..MaxTime /\ p \notin offered'
        BY <1>2, <1>7, <2>1 DEF PushTypes
      <3> QED
        BY <1>8, <3>1, AbsentPart
    <2>2. CASE p \in offered /\ p \notin gone
      <3>1. p = "rsscloud"
        BY <1>4, <2>2, TwoProtocols
      <3> QED
        BY <1>1, <1>2, <1>5, <1>6, <2>2, <3>1, TalkOtherPart
    <2>3. CASE p \in gone
      <3>1. PartOf(p) /\ p = "websub"
        BY <1>1, <1>5, <2>3
      <3>2. /\ Single(p)' /\ ~Push!Still(p)'
            /\ (clean'[p] => \A a \in asks' : a.protocol = p => NewAsk(a, gone, "unsubscribe"))
            /\ (clean'[p] => \A c \in checks : c.protocol # p)
        BY <1>2, <1>6, <2>3, <3>1, TalkSingle DEF PartOf
      <3>3. Staged(p)'
        <4>1. ASSUME NEW a, a.protocol = p, NewAsk(a, gone, "unsubscribe") PROVE AskStage(a)'
          BY <1>2, <3>1, <4>1 DEF NewAsk, AskStage
        <4> QED
          BY <1>2, <3>2, <4>1 DEF Staged
      <3>4. sure'[p] => (sure[p] /\ Push!Still(p))
        BY <1>6, <2>3 DEF Talked
      <3>5. Fitting(p)'
        <4>1. PICK a \in asks' : a.protocol = p /\ a.mode = "unsubscribe"
          BY <1>6, <2>3 DEF Talked
        <4>2. ~Untouched(p)'
          BY <4>1 DEF Untouched
        <4> QED
          BY <4>2 DEF Fitting
      <3>6. Lasting(p)'
        <4>1. SUFFICES ASSUME sure'[p], until[p] # 0 PROVE until[p] >= now + RenewAt - lost - 1
          BY <1>2, <3>2 DEF Lasting
        <4>2. until[p] >= now + RenewAt - lost - (IF duty \/ ~Push!Still(p) THEN 1 ELSE 0)
          BY <1>2, <3>1, <3>4, <4>1 DEF PartOf, Lasting
        <4>3. until[p] \in Int /\ now \in Int /\ lost \in Int /\ RenewAt \in Int
          BY <1>1, PushAssumption DEF PushTypes
        <4> QED
          BY <4>2, <4>3
      <3> QED
        BY <3>2, <3>3, <3>5, <3>6 DEF PartOf
    <2> QED
      BY <2>1, <2>2, <2>3
  <1> QED
    BY <1>7, <1>8, <1>9, <1>10 DEF PushInv

LEMMA RemoveStep ==
  ASSUME PushInv, Push!RemoveSource
  PROVE  PushInv'
  <1>1. PushTypes /\ PushSense /\ Posted /\ \A p \in Push!Protocols : PartOf(p)
    BY DEF PushInv
  <1>2. /\ leaving /\ ~leaving' /\ ~row' /\ secret' = 0
        /\ until' = [p \in Push!Protocols |-> 0] /\ intent' = [p \in Push!Protocols |-> Push!NoIntent]
        /\ UNCHANGED <<now, offered, duty, asks, checks, listed, mail, clean, sure, missed, next, lost, news>>
    BY DEF Push!RemoveSource, Push!history, Push!bounds
  <1>3. Push!NoIntent \in Intents /\ Push!NoIntent.mode = "none" /\ 0 \in 0..(MaxTime + Lease) /\ 0 \in 0..MaxAsks
    BY PushAssumption DEF Push!NoIntent, Intents, Modes
  <1>4. PushTypes'
    BY <1>1, <1>2, <1>3 DEF PushTypes
  <1>5. \A p \in Push!Protocols : until'[p] = 0 /\ intent'[p] = Push!NoIntent
    BY <1>2
  <1>6. \A p \in Push!Protocols : until'[p] <= now' + Lease
    BY <1>1, <1>2, <1>5, PushAssumption DEF PushTypes
  <1>7. PushSense'
    BY <1>1, <1>2, <1>3, <1>5, <1>6 DEF PushSense
  <1>8. ASSUME NEW p PROVE Push!Still(p)' <=> Push!Still(p)
    BY <1>2 DEF Push!Still
  <1>9. Posted'
    BY <1>1, <1>2, <1>8 DEF Posted, Mailed
  <1>10. ASSUME NEW p \in Push!Protocols PROVE PartOf(p)'
    <2>1. Single(p)'
      BY <1>1, <1>2, <1>8 DEF PartOf, Single
    <2>2. Staged(p)'
      <3>1. ASSUME NEW a, AskStage(a) PROVE AskStage(a)'
        BY <1>2, <3>1 DEF AskStage
      <3>2. ASSUME NEW c, CheckStage(c) PROVE CheckStage(c)'
        BY <1>2, <3>2 DEF CheckStage, JoinStage, PartStage, CloudStage
      <3> QED
        BY <1>1, <1>2, <3>1, <3>2 DEF PartOf, Staged
    <2>3. Fitting(p)'
      <3>1. Untouched(p)' => Untouched(p)
        BY <1>2 DEF Untouched
      <3>2. Fits(p) => Fits(p)'
        BY <1>2 DEF Fits, Push!Holds, Active
      <3> QED
        BY <1>1, <1>2, <3>1, <3>2 DEF PartOf, Fitting
    <2>4. Lasting(p)'
      BY <1>2 DEF Lasting
    <2> QED
      BY <2>1, <2>2, <2>3, <2>4 DEF PartOf
  <1> QED
    BY <1>4, <1>7, <1>9, <1>10 DEF PushInv

-----------------------------------------------------------------------------
(* Verifications *)

\* Moved.
LEMMA MovedSwaps ==
  ASSUME PushTypes, NEW c \in checks, NEW pc \in Points \ {"new"}, Push!Moved(c, pc), asks' = asks
  PROVE  \E d \in Verification : Swaps(c, d) /\ d.pc = pc /\ d.mode = c.mode /\ d.intent = c.intent
  <1> DEFINE d == [c EXCEPT !.pc = pc]
  <1>1. c \in Verification
    BY DEF PushTypes
  <1>2. d \in Verification /\ d.pc = pc /\ d.protocol = c.protocol /\ d.mode = c.mode /\ d.intent = c.intent
    BY <1>1 DEF Verification
  <1>3. checks' = (checks \ {c}) \cup {d}
    BY DEF Push!Moved
  <1> HIDE DEF d
  <1> QED
    BY <1>2, <1>3 DEF Swaps

LEMMA CheckPosted ==
  ASSUME Posted, NEW c, (\E d : Swaps(c, d)) \/ Closes(c),
         UNCHANGED <<mail, missed, row>>, secret' = secret \/ c.protocol = "websub"
  PROVE  Posted'
  <1>1. SUFFICES ASSUME NEW m \in mail, m.safe PROVE Mailed(m)'
    BY DEF Posted, Mailed
  <1>2. Mailed(m)
    BY DEF Posted
  <1>3. c \in checks
    BY DEF Swaps, Closes
  <1>4. m.protocol # c.protocol
    BY <1>1, <1>2, <1>3 DEF Mailed, Push!Still
  <1>5. SameItems(m.protocol)
    BY <1>4, SwapOthers, CloseOthers
  <1>6. Push!Still(m.protocol)' <=> Push!Still(m.protocol)
    BY <1>5, SameStill
  <1> QED
    BY <1>2, <1>4, <1>6 DEF Mailed

LEMMA CheckSense ==
  ASSUME PushTypes, PushSense, NEW c, (\E d : Swaps(c, d)) \/ Closes(c),
         UNCHANGED <<now, offered, row, known, leaving, mail>>,
         ~row => secret' = 0,
         \A p \in Push!Protocols :
           /\ listed'[p] # Push!NoSub \/ until'[p] # 0 => p \in offered
           /\ until'[p] <= now + Lease
           /\ intent'[p] = intent[p] \/ intent'[p] = Push!NoIntent
           /\ ~row => until'[p] = 0
  PROVE  PushSense'
  <1>1. /\ \A x \in asks' \cup checks' : x.protocol \in offered
        /\ \A x \in checks' : x.pc = "new" => x.protocol = "websub"
    BY DEF PushSense, Swaps, Closes
  <1>2. Push!NoIntent.mode = "none"
    BY DEF Push!NoIntent
  <1>3. \A p \in Push!Protocols :
          /\ intent'[p].mode = "none" => intent'[p] = Push!NoIntent
          /\ intent'[p].mode = "unsubscribe" => p = "websub"
          /\ ~row => intent'[p] = Push!NoIntent
    BY <1>2 DEF PushSense
  <1> QED
    BY <1>1, <1>3 DEF PushSense

\* Only the verification moves.
LEMMA QuietSwap ==
  ASSUME PushInv, NEW c, NEW d, Swaps(c, d),
         UNCHANGED <<now, offered, row, known, intent, until, secret, leaving, duty, listed, mail, clean,
                     missed, next, lost, news>>,
         sure' = sure,
         clean[c.protocol] /\ CheckStage(c) => CheckStage(d),
         sure[c.protocol] /\ clean[c.protocol] /\ Untouched(c.protocol)' => c.pc \notin Late /\ c.protocol = "rsscloud"
  PROVE  PushInv'
  <1>1. PushTypes /\ PushSense /\ Posted /\ \A p \in Push!Protocols : PartOf(p)
    BY DEF PushInv
  <1>2. c \in checks /\ d \in Verification /\ d.protocol = c.protocol /\ asks' = asks
        /\ checks' = (checks \ {c}) \cup {d}
    BY DEF Swaps
  <1>3. PushTypes'
    BY <1>1, <1>2 DEF PushTypes
  <1>4. PushSense'
    BY <1>1, CheckSense DEF PushSense
  <1>5. Posted'
    BY <1>1, CheckPosted
  <1>6. ASSUME NEW p \in Push!Protocols PROVE PartOf(p)'
    <2>1. CASE p # c.protocol
      <3>1. SameItems(p) /\ SameFacts(p)
        BY <2>1, SwapOthers DEF SameFacts
      <3>2. lost' \in Nat /\ lost <= lost'
        BY <1>1 DEF PushTypes
      <3> QED
        BY <1>1, <3>1, <3>2, OtherPart
    <2>2. CASE p = c.protocol
      <3>1. PartOf(p)
        BY <1>1
      <3>2. Single(p)' /\ ~Push!Still(p) /\ ~Push!Still(p)'
        <4>1. ~Push!Still(p)
          BY <1>2, <2>2 DEF Push!Still
        <4>2. Single(p)
          BY <3>1 DEF PartOf
        <4>3. sure[p] => clean[p]
          BY <4>1, <4>2 DEF Single
        <4> QED
          BY <2>2, <4>2, <4>3, SwapSingle
      <3>3. ASSUME NEW x, CheckStage(x) PROVE CheckStage(x)'
        BY <3>3 DEF CheckStage, JoinStage, PartStage, CloudStage
      <3>4. ASSUME NEW x, AskStage(x) PROVE AskStage(x)'
        BY <3>4 DEF AskStage
      <3>5. Staged(p)'
        <4>1. SUFFICES ASSUME clean[p]
                       PROVE  /\ \A a \in asks' : a.protocol = p => AskStage(a)'
                              /\ \A x \in checks' : x.protocol = p => CheckStage(x)'
          BY DEF Staged
        <4>2. CheckStage(c) /\ \A a \in asks : a.protocol = p => AskStage(a)
          BY <1>2, <2>2, <3>1, <4>1 DEF PartOf, Staged
        <4>3. CheckStage(d)
          BY <2>2, <4>1, <4>2
        <4>4. \A x \in checks' : x.protocol = p => CheckStage(x)
          BY <1>2, <3>1, <4>1, <4>3 DEF PartOf, Staged
        <4> QED
          BY <1>2, <3>3, <3>4, <4>2, <4>4
      <3>6. Fitting(p)'
        <4>1. SUFFICES ASSUME sure[p], Untouched(p)' PROVE Fits(p)'
          BY DEF Fitting
        <4>2. clean[p]
          BY <3>1, <3>2, <4>1 DEF PartOf, Single
        <4>3. c.pc \notin Late /\ p = "rsscloud"
          BY <2>2, <4>1, <4>2
        <4>4. Untouched(p)
          BY <1>2, <4>1, <4>3 DEF Untouched
        <4>5. Fits(p)
          BY <3>1, <4>1, <4>4 DEF PartOf, Fitting
        <4> QED
          BY <4>5 DEF Fits, Push!Holds, Active
      <3>7. Lasting(p)'
        BY <3>1, <3>2 DEF PartOf, Lasting
      <3> QED
        BY <3>2, <3>5, <3>6, <3>7 DEF PartOf
    <2> QED
      BY <2>1, <2>2
  <1> QED
    BY <1>3, <1>4, <1>5, <1>6 DEF PushInv

LEMMA IntentStep ==
  ASSUME PushInv, NEW c \in checks, Push!VerifyIntent(c)
  PROVE  PushInv'
  <1> DEFINE asked == intent[c.protocol] # Push!NoIntent
                      /\ (c.protocol = "websub" => intent[c.protocol].mode = c.mode)
  <1>1. PushTypes /\ PushSense
    BY DEF PushInv
  <1>2. /\ c.pc = "asked" /\ Push!Moved(c, IF asked THEN "confirm" ELSE "refused")
        /\ UNCHANGED <<now, offered, row, known, intent, until, secret, leaving, duty, asks, listed, mail,
                       clean, sure, missed, next, lost, news>>
    BY DEF Push!VerifyIntent, Push!bob, Push!history, Push!bounds
  <1>3. (IF asked THEN "confirm" ELSE "refused") \in Points \ {"new"}
    BY DEF Points
  <1>4. PICK d \in Verification :
          Swaps(c, d) /\ d.pc = (IF asked THEN "confirm" ELSE "refused") /\ d.mode = c.mode /\ d.intent = c.intent
    BY <1>1, <1>2, <1>3, MovedSwaps
  <1>5. c.protocol \in {"websub", "rsscloud"} /\ c.protocol \in Push!Protocols /\ d.protocol = c.protocol
    BY <1>1, <1>4 DEF PushTypes, PushSense, Verification, Swaps
  <1>6. Push!NoIntent.mode = "none"
    BY DEF Push!NoIntent
  <1>7. CheckStage(c) => CheckStage(d)
    <2> SUFFICES ASSUME CheckStage(c) PROVE CheckStage(d)
      OBVIOUS
    <2>1. CASE c.protocol = "websub" /\ c.mode = "subscribe"
      <3>1. JoinStage(c)
        BY <2>1 DEF CheckStage
      <3>2. intent["websub"].mode = "subscribe"
        BY <3>1, <1>2 DEF JoinStage, Early
      <3>3. asked
        BY <2>1, <3>2, <1>6
      <3>4. JoinStage(d)
        BY <1>2, <1>4, <3>1, <3>3 DEF JoinStage, Early, Late
      <3> QED
        BY <1>4, <1>5, <2>1, <3>4 DEF CheckStage
    <2>2. CASE c.protocol = "websub" /\ c.mode # "subscribe"
      <3>1. PartStage(c) /\ c.mode = "unsubscribe"
        BY <2>2 DEF CheckStage
      <3>2. row => asked
        BY <2>2, <3>1, <1>2, <1>6 DEF PartStage, Early
      <3>3. PartStage(d)
        BY <1>2, <1>4, <3>1, <3>2 DEF PartStage, Early, Late
      <3> QED
        BY <1>4, <1>5, <2>2, <3>1, <3>3 DEF CheckStage
    <2>3. CASE c.protocol = "rsscloud"
      <3>1. CloudStage(c)
        BY <2>3 DEF CheckStage
      <3>2. row => asked
        BY <2>3, <3>1, <1>2, <1>6 DEF CloudStage, Early
      <3>3. CloudStage(d)
        BY <1>2, <1>4, <3>1, <3>2 DEF CloudStage, Early, Late
      <3> QED
        BY <1>4, <1>5, <2>3, <3>3 DEF CheckStage
    <2> QED
      BY <1>5, <2>1, <2>2, <2>3
  <1>8. Untouched(c.protocol)' => c.pc \notin Late /\ c.protocol = "rsscloud"
    BY <1>2, <1>4, <1>5 DEF Untouched, Swaps, Late
  <1> QED
    BY <1>2, <1>4, <1>7, <1>8, QuietSwap

LEMMA ReadStep ==
  ASSUME PushInv, NEW c \in checks, Push!ConfirmRead(c)
  PROVE  PushInv'
  <1> DEFINE i == intent[c.protocol]
  <1> DEFINE pc == IF i = Push!NoIntent THEN "echoed" ELSE "write"
  <1> DEFINE one == [c EXCEPT !.pc = pc]
  <1> DEFINE d == [one EXCEPT !.intent = i]
  <1>1. PushTypes /\ PushSense
    BY DEF PushInv
  <1>2. /\ c.pc = "confirm" /\ checks' = (checks \ {c}) \cup {[c EXCEPT !.pc = pc, !.intent = i]}
        /\ UNCHANGED <<now, offered, row, known, intent, until, secret, leaving, duty, asks, listed, mail,
                       clean, sure, missed, next, lost, news>>
    BY DEF Push!ConfirmRead, Push!bob, Push!history, Push!bounds
  <1>3. checks' = (checks \ {c}) \cup {d}
    BY <1>2
  <1>4. c \in Verification /\ c.protocol \in {"websub", "rsscloud"} /\ c.protocol \in Push!Protocols
    BY <1>1 DEF PushTypes, PushSense, Verification
  <1>5. i \in Intents /\ Push!NoIntent.mode = "none"
    BY <1>1, <1>4 DEF PushTypes, Push!NoIntent
  <1>6. pc \in Points /\ pc # "new"
    BY DEF Points
  <1> HIDE DEF i, pc
  <1>7. one \in Verification /\ one.pc = pc /\ one.protocol = c.protocol /\ one.mode = c.mode
    BY <1>4, <1>6 DEF Verification
  <1> HIDE DEF one
  <1>8. d \in Verification /\ d.pc = pc /\ d.protocol = c.protocol /\ d.mode = c.mode /\ d.intent = i
    BY <1>5, <1>7 DEF Verification
  <1> HIDE DEF d
  <1>9. Swaps(c, d)
    BY <1>2, <1>3, <1>6, <1>8 DEF Swaps
  <1>10. CheckStage(c) => CheckStage(d)
    <2> SUFFICES ASSUME CheckStage(c) PROVE CheckStage(d)
      OBVIOUS
    <2>1. CASE c.protocol = "websub" /\ c.mode = "subscribe"
      <3>1. JoinStage(c)
        BY <2>1 DEF CheckStage
      <3>2. i = intent["websub"] /\ i.mode = "subscribe"
        BY <2>1, <3>1, <1>2 DEF JoinStage, Early, i
      <3>3. pc = "write"
        BY <3>2, <1>5 DEF pc
      <3>4. JoinStage(d)
        BY <1>2, <1>8, <3>1, <3>2, <3>3 DEF JoinStage, Early, Late
      <3> QED
        BY <1>8, <2>1, <3>4 DEF CheckStage
    <2>2. CASE c.protocol = "websub" /\ c.mode # "subscribe"
      <3>1. PartStage(c) /\ c.mode = "unsubscribe"
        BY <2>2 DEF CheckStage
      <3>2. row => i.mode = "unsubscribe" /\ pc = "write"
        BY <2>2, <3>1, <1>2, <1>5 DEF PartStage, Early, i, pc
      <3>3. pc = "write" \/ pc = "echoed"
        BY DEF pc
      <3>4. PartStage(d)
        BY <1>2, <1>8, <3>1, <3>2, <3>3 DEF PartStage, Early, Late
      <3> QED
        BY <1>8, <2>2, <3>1, <3>4 DEF CheckStage
    <2>3. CASE c.protocol = "rsscloud"
      <3>1. CloudStage(c)
        BY <2>3 DEF CheckStage
      <3>2. row => pc = "write"
        BY <2>3, <3>1, <1>2, <1>5 DEF CloudStage, Early, i, pc
      <3>3. pc = "write" => i.mode = "subscribe"
        BY <2>3, <1>1, <1>4, <1>5 DEF PushSense, Intents, Modes, i, pc
      <3>4. pc = "write" \/ pc = "echoed"
        BY DEF pc
      <3>5. CloudStage(d)
        BY <1>2, <1>8, <3>1, <3>2, <3>3, <3>4 DEF CloudStage, Early, Late
      <3> QED
        BY <1>8, <2>3, <3>5 DEF CheckStage
    <2> QED
      BY <1>4, <2>1, <2>2, <2>3
  <1>11. Untouched(c.protocol)' => c.pc \notin Late /\ c.protocol = "rsscloud"
    BY <1>2, <1>3, <1>8 DEF Untouched, Late
  <1> QED
    BY <1>2, <1>9, <1>10, <1>11, QuietSwap

\* Confirm writes what the intent says.
LEMMA WriteStep ==
  ASSUME PushInv, NEW c \in checks, Push!ConfirmWrite(c)
  PROVE  PushInv'
  <1>1. PushTypes /\ PushSense /\ Posted /\ \A p \in Push!Protocols : PartOf(p)
    BY DEF PushInv
  <1>2. /\ c.pc = "write" /\ Push!Moved(c, "clear")
        /\ UNCHANGED <<now, offered, row, known, intent, leaving, duty, asks, listed, mail,
                       clean, sure, missed, next, lost, news>>
    BY DEF Push!ConfirmWrite, Push!history, Push!bounds
  <1> PICK q : q = c.protocol
    OBVIOUS
  <1>3. q \in {"websub", "rsscloud"} /\ q \in Push!Protocols /\ q \in offered /\ c \in Verification
        /\ c.intent \in Intents /\ c.intent.secret \in 0..MaxAsks
    BY <1>1 DEF PushTypes, PushSense, Verification, Intents
  <1>4. PICK d \in Verification : Swaps(c, d) /\ d.pc = "clear" /\ d.mode = c.mode /\ d.intent = c.intent
    BY <1>1, <1>2, MovedSwaps DEF Points
  <1>5. d.protocol = q /\ asks' = asks /\ checks' = (checks \ {c}) \cup {d}
    BY <1>4 DEF Swaps
  <1> DEFINE lease == IF c.intent.mode = "unsubscribe" THEN 0 ELSE now + Lease
  <1>6. row => (until' = [until EXCEPT ![q] = lease]
                /\ secret' = IF q = "websub" THEN c.intent.secret ELSE secret)
    BY DEF Push!ConfirmWrite
  <1>7. ~row => (until' = until /\ secret' = secret)
    BY DEF Push!ConfirmWrite
  <1>8. now \in Nat /\ now <= MaxTime /\ Lease \in Nat /\ MaxTime \in Nat /\ RenewAt \in 0..Lease /\ lost \in Nat
    BY <1>1, PushAssumption DEF PushTypes
  <1>9. lease \in 0..(MaxTime + Lease) /\ lease <= now + Lease
    BY <1>8
  <1>10. (c.intent.mode # "unsubscribe" => lease = now + Lease) /\ (c.intent.mode = "unsubscribe" => lease = 0)
    OBVIOUS
  <1> HIDE DEF lease
  <1>11. /\ until' \in [Push!Protocols -> 0..(MaxTime + Lease)] /\ secret' \in 0..MaxAsks
         /\ \A p \in Push!Protocols : p # q => until'[p] = until[p]
         /\ row => until'[q] = lease
         /\ ~row => until'[q] = until[q]
         /\ q # "websub" => secret' = secret
    <2>1. until \in [Push!Protocols -> 0..(MaxTime + Lease)] /\ secret \in 0..MaxAsks
      BY <1>1 DEF PushTypes
    <2>2. CASE row
      BY <2>1, <2>2, <1>3, <1>6, <1>9
    <2>3. CASE ~row
      BY <2>1, <2>3, <1>7
    <2> QED
      BY <2>2, <2>3
  <1>12. PushTypes'
    BY <1>1, <1>2, <1>4, <1>5, <1>11 DEF PushTypes
  <1>13. \A p \in Push!Protocols :
           /\ listed'[p] # Push!NoSub \/ until'[p] # 0 => p \in offered
           /\ until'[p] <= now + Lease
           /\ intent'[p] = intent[p] \/ intent'[p] = Push!NoIntent
           /\ ~row => until'[p] = 0
    BY <1>1, <1>2, <1>3, <1>9, <1>11 DEF PushSense
  <1>14. ~row => secret' = 0
    BY <1>1, <1>7 DEF PushSense
  <1>15. PushSense'
    BY <1>1, <1>2, <1>4, <1>13, <1>14, CheckSense
  <1>16. Posted'
    BY <1>1, <1>2, <1>4, <1>11, CheckPosted
  <1>17. ASSUME NEW p \in Push!Protocols PROVE PartOf(p)'
    <2>1. CASE p # q
      <3>1. SameItems(p)
        BY <2>1, <1>4, SwapOthers
      <3>2. p = "websub" => secret' = secret
        BY <2>1, <1>3, <1>11
      <3>3. SameFacts(p)
        BY <2>1, <3>2, <1>2, <1>11 DEF SameFacts
      <3>4. lost' \in Nat /\ lost <= lost'
        BY <1>2, <1>8
      <3> QED
        BY <1>1, <1>2, <3>1, <3>3, <3>4, OtherPart
    <2>2. CASE p = q
      <3>1. PartOf(p)
        BY <1>1
      <3>2. ~Push!Still(p)
        BY <2>2 DEF Push!Still
      <3>3. sure[p] => clean[p]
        BY <3>1, <3>2 DEF PartOf, Single
      <3>4. Single(p)' /\ ~Push!Still(p)'
        BY <1>2, <1>4, <2>2, <3>1, <3>3, SwapSingle DEF PartOf
      <3>5. clean[p] => (CheckStage(c) /\ (\A a \in asks : a.protocol # p) /\ \A x \in checks' : x.protocol = p => x = d)
        BY <1>5, <2>2, <3>1 DEF PartOf, Staged, Single
      <3>6. CheckStage(c) => CheckStage(d)'
        <4> SUFFICES ASSUME CheckStage(c) PROVE CheckStage(d)'
          OBVIOUS
        <4>1. CASE q = "websub" /\ c.mode = "subscribe"
          <5>1. JoinStage(c)
            BY <4>1 DEF CheckStage
          <5>2. row /\ c.intent.mode = "subscribe" /\ c.intent.secret = listed["websub"].secret
            BY <5>1, <1>2 DEF JoinStage, Early
          <5>3. until'["websub"] = now + Lease /\ secret' = listed["websub"].secret
            BY <4>1, <5>2, <1>6, <1>10, <1>11
          <5>4. JoinStage(d)'
            BY <1>2, <1>4, <5>1, <5>3 DEF JoinStage, Early, Late
          <5> QED
            BY <1>4, <1>5, <4>1, <5>4 DEF CheckStage
        <4>2. CASE q = "websub" /\ c.mode # "subscribe"
          <5>1. PartStage(c) /\ c.mode = "unsubscribe"
            BY <4>2 DEF CheckStage
          <5>2. row => until'["websub"] = 0
            BY <4>2, <5>1, <1>2, <1>10, <1>11 DEF PartStage
          <5>3. PartStage(d)'
            BY <1>2, <1>4, <5>1, <5>2 DEF PartStage, Early, Late
          <5> QED
            BY <1>4, <1>5, <4>2, <5>1, <5>3 DEF CheckStage
        <4>3. CASE q = "rsscloud"
          <5>1. CloudStage(c)
            BY <4>3 DEF CheckStage
          <5>2. row => until'["rsscloud"] = now + Lease
            BY <4>3, <5>1, <1>2, <1>10, <1>11 DEF CloudStage
          <5>3. CloudStage(d)'
            BY <1>2, <1>4, <5>1, <5>2 DEF CloudStage, Early, Late
          <5> QED
            BY <1>4, <1>5, <4>3, <5>3 DEF CheckStage
        <4> QED
          BY <1>3, <4>1, <4>2, <4>3
      <3>7. Staged(p)'
        BY <1>2, <1>5, <3>5, <3>6 DEF Staged
      <3>8. Fitting(p)'
        BY <1>4, <1>5, <2>2 DEF Fitting, Untouched, Late
      <3>9. Lasting(p)'
        <4>1. SUFFICES ASSUME sure[p], row, until'[p] # 0 PROVE until'[p] >= now + RenewAt - lost - 1
          BY <1>2, <3>4 DEF Lasting
        <4>2. CheckStage(d)' /\ d \in checks'
          BY <1>5, <3>3, <3>5, <3>6, <4>1
        <4>3. until'[p] = now + Lease
          BY <1>2, <1>3, <1>4, <1>5, <2>2, <4>1, <4>2 DEF CheckStage, JoinStage, PartStage, CloudStage, Late
        <4> QED
          BY <4>3, <1>8
      <3> QED
        BY <3>4, <3>7, <3>8, <3>9 DEF PartOf
    <2> QED
      BY <2>1, <2>2
  <1> QED
    BY <1>12, <1>15, <1>16, <1>17 DEF PushInv

\* Confirm forgets the intent, and the challenge is echoed.
LEMMA ClearStep ==
  ASSUME PushInv, NEW c \in checks, Push!ConfirmClear(c)
  PROVE  PushInv'
  <1>1. PushTypes /\ PushSense /\ Posted /\ \A p \in Push!Protocols : PartOf(p)
    BY DEF PushInv
  <1> PICK q : q = c.protocol
    OBVIOUS
  <1>2. /\ c.pc = "clear" /\ Push!Moved(c, "echoed") /\ intent' = [intent EXCEPT ![q] = Push!NoIntent]
        /\ UNCHANGED <<now, offered, row, known, until, secret, leaving, duty, asks, listed, mail,
                       clean, sure, missed, next, lost, news>>
    BY DEF Push!ConfirmClear, Push!history, Push!bounds
  <1>3. q \in {"websub", "rsscloud"} /\ q \in Push!Protocols
    BY <1>1 DEF PushTypes, PushSense, Verification
  <1>4. PICK d \in Verification : Swaps(c, d) /\ d.pc = "echoed" /\ d.mode = c.mode /\ d.intent = c.intent
    BY <1>1, <1>2, MovedSwaps DEF Points
  <1>5. d.protocol = q /\ asks' = asks /\ checks' = (checks \ {c}) \cup {d}
    BY <1>4 DEF Swaps
  <1>6. Push!NoIntent \in Intents
    BY PushAssumption DEF Push!NoIntent, Intents, Modes
  <1>7. /\ intent' \in [Push!Protocols -> Intents]
        /\ \A p \in Push!Protocols : p # q => intent'[p] = intent[p]
        /\ intent'[q] = Push!NoIntent
    BY <1>1, <1>2, <1>3, <1>6 DEF PushTypes
  <1>8. PushTypes'
    BY <1>1, <1>2, <1>4, <1>5, <1>7 DEF PushTypes
  <1>9. \A p \in Push!Protocols :
          /\ listed'[p] # Push!NoSub \/ until'[p] # 0 => p \in offered
          /\ until'[p] <= now + Lease
          /\ intent'[p] = intent[p] \/ intent'[p] = Push!NoIntent
          /\ ~row => until'[p] = 0
    BY <1>1, <1>2, <1>7 DEF PushSense
  <1>10. ~row => secret' = 0
    BY <1>1, <1>2 DEF PushSense
  <1>11. PushSense'
    BY <1>1, <1>2, <1>4, <1>9, <1>10, CheckSense
  <1>12. Posted'
    BY <1>1, <1>2, <1>4, CheckPosted
  <1>13. ASSUME NEW p \in Push!Protocols PROVE PartOf(p)'
    <2>1. CASE p # q
      <3>1. SameItems(p)
        BY <2>1, <1>4, SwapOthers
      <3>2. SameFacts(p)
        BY <2>1, <1>2, <1>7 DEF SameFacts
      <3>3. lost' \in Nat /\ lost <= lost'
        BY <1>1, <1>2 DEF PushTypes
      <3> QED
        BY <1>1, <1>2, <3>1, <3>2, <3>3, OtherPart
    <2>2. CASE p = q
      <3>1. PartOf(p)
        BY <1>1
      <3>2. ~Push!Still(p)
        BY <2>2 DEF Push!Still
      <3>3. sure[p] => clean[p]
        BY <3>1, <3>2 DEF PartOf, Single
      <3>4. Single(p)' /\ ~Push!Still(p)'
        BY <1>2, <1>4, <2>2, <3>1, <3>3, SwapSingle DEF PartOf
      <3>5. clean[p] => (CheckStage(c) /\ (\A a \in asks : a.protocol # p) /\ \A x \in checks' : x.protocol = p => x = d)
        BY <1>5, <2>2, <3>1 DEF PartOf, Staged, Single
      <3>6. CheckStage(c) => CheckStage(d)'
        <4>1. JoinStage(c) => JoinStage(d)'
          BY <1>2, <1>4 DEF JoinStage, Early, Late
        <4>2. PartStage(c) => PartStage(d)'
          BY <1>2, <1>4 DEF PartStage, Early, Late
        <4>3. CloudStage(c) => CloudStage(d)'
          BY <1>2, <1>4 DEF CloudStage, Early, Late
        <4> QED
          BY <1>4, <1>5, <4>1, <4>2, <4>3 DEF CheckStage
      <3>7. Staged(p)'
        BY <1>2, <1>5, <3>5, <3>6 DEF Staged
      <3>8. Fitting(p)'
        BY <1>4, <1>5, <2>2 DEF Fitting, Untouched, Late
      <3>9. Lasting(p)'
        BY <1>2, <3>1, <3>2, <3>4 DEF PartOf, Lasting
      <3> QED
        BY <3>4, <3>7, <3>8, <3>9 DEF PartOf
    <2> QED
      BY <2>1, <2>2
  <1> QED
    BY <1>8, <1>11, <1>12, <1>13 DEF PushInv

-----------------------------------------------------------------------------
(* The hub *)

\* The verification of protocol q ends: what is left is what both sides know.
LEMMA CloseStep ==
  ASSUME PushInv, NEW c, NEW q, Closes(c), q = c.protocol,
         UNCHANGED <<now, offered, row, known, intent, until, secret, leaving, duty, mail, missed, next,
                     lost, news>>,
         listed' \in [Push!Protocols -> Rows], clean' \in [Push!Protocols -> BOOLEAN],
         sure' \in [Push!Protocols -> BOOLEAN],
         \A p \in Push!Protocols : p # q => listed'[p] = listed[p] /\ clean'[p] = clean[p] /\ sure'[p] = sure[p],
         clean'[q] => clean[q], sure'[q] => clean'[q],
         sure'[q] /\ CheckStage(c) =>
           Fits(q)' /\ (row /\ until[q] # 0 => until[q] >= now + RenewAt - lost)
  PROVE  PushInv'
  <1>1. PushTypes /\ PushSense /\ Posted /\ \A p \in Push!Protocols : PartOf(p)
    BY DEF PushInv
  <1>2. c \in checks /\ asks' = asks /\ checks' = checks \ {c}
    BY DEF Closes
  <1>3. q \in Push!Protocols /\ q \in offered
    BY <1>1, <1>2 DEF PushTypes, PushSense
  <1>4. PushTypes'
    BY <1>1, <1>2 DEF PushTypes
  <1>5. \A p \in Push!Protocols :
          /\ listed'[p] # Push!NoSub \/ until'[p] # 0 => p \in offered
          /\ until'[p] <= now + Lease
          /\ intent'[p] = intent[p] \/ intent'[p] = Push!NoIntent
          /\ ~row => until'[p] = 0
    BY <1>1, <1>3 DEF PushSense
  <1>6. ~row => secret' = 0
    BY <1>1 DEF PushSense
  <1>7. PushSense'
    BY <1>1, <1>5, <1>6, CheckSense
  <1>8. Posted'
    BY <1>1, CheckPosted
  <1>9. ASSUME NEW p \in Push!Protocols PROVE PartOf(p)'
    <2>1. CASE p # q
      <3>1. SameItems(p)
        BY <2>1, CloseOthers
      <3>2. SameFacts(p)
        BY <2>1 DEF SameFacts
      <3>3. lost' \in Nat /\ lost <= lost'
        BY <1>1 DEF PushTypes
      <3> QED
        BY <1>1, <3>1, <3>2, <3>3, OtherPart
    <2>2. CASE p = q
      <3>1. PartOf(p)
        BY <1>1
      <3>2. Single(p)' /\ (clean[p] => Push!Still(p)')
        BY <2>2, <3>1, CloseSingle DEF PartOf
      <3>3. Staged(p)'
        BY <2>2, <3>2 DEF Staged, Push!Still
      <3>4. sure'[p] => (clean[p] /\ CheckStage(c))
        BY <1>2, <2>2, <3>1 DEF PartOf, Staged
      <3>5. Fitting(p)'
        BY <2>2, <3>4 DEF Fitting
      <3>6. Lasting(p)'
        <4>1. SUFFICES ASSUME sure'[p], row, until[p] # 0
                       PROVE  until[p] >= now + RenewAt - lost - (IF duty \/ ~Push!Still(p)' THEN 1 ELSE 0)
          BY DEF Lasting
        <4>2. until[p] >= now + RenewAt - lost
          BY <2>2, <3>4, <4>1
        <4>3. until[p] \in Int /\ now \in Int /\ lost \in Int /\ RenewAt \in Int
          BY <1>1, PushAssumption DEF PushTypes
        <4> QED
          BY <4>2, <4>3
      <3> QED
        BY <3>2, <3>3, <3>5, <3>6 DEF PartOf
    <2> QED
      BY <2>1, <2>2
  <1> QED
    BY <1>4, <1>7, <1>8, <1>9 DEF PushInv

LEMMA NoSubFits == Push!NoSub \in Rows /\ Push!NoSub.mode = "none" /\ ~Push!NoSub.verified
  BY PushAssumption DEF Push!NoSub, Rows, Modes

\* verifySubscriber reads the row.
LEMMA LookStep ==
  ASSUME PushInv, NEW c \in checks, Push!ReadSubscriber(c)
  PROVE  PushInv'
  <1> DEFINE s == listed["websub"]
  <1>1. PushTypes /\ PushSense
    BY DEF PushInv
  <1>2. /\ c.pc = "new"
        /\ checks' = (checks \ {c}) \cup
             IF s = Push!NoSub THEN {}
             ELSE {[c EXCEPT !.pc = "asked", !.mode = s.mode, !.challenge = s.challenge]}
        /\ sure' = [sure EXCEPT ![c.protocol] = sure[c.protocol] /\ s # Push!NoSub]
        /\ UNCHANGED <<now, offered, row, known, intent, until, secret, leaving, duty, asks, listed, mail,
                       clean, missed, next, lost, news>>
    BY DEF Push!ReadSubscriber, Push!bob, Push!bounds
  <1>3. c.protocol = "websub" /\ "websub" \in Push!Protocols /\ c \in Verification
    BY <1>1, <1>2 DEF PushTypes, PushSense
  <1>4. s \in Rows /\ s.mode \in Modes /\ s.challenge \in 0..MaxAsks
    BY <1>1, <1>3 DEF PushTypes, Rows
  <1>5. CASE s = Push!NoSub
    <2>1. Closes(c)
      BY <1>2, <1>5 DEF Closes
    <2>2. sure' = [sure EXCEPT !["websub"] = FALSE]
      BY <1>2, <1>3, <1>5
    <2>3. sure' \in [Push!Protocols -> BOOLEAN] /\ ~sure'["websub"]
          /\ \A p \in Push!Protocols : p # "websub" => sure'[p] = sure[p]
      BY <1>1, <1>3, <2>2 DEF PushTypes
    <2>4. listed' \in [Push!Protocols -> Rows] /\ clean' \in [Push!Protocols -> BOOLEAN]
      BY <1>1, <1>2 DEF PushTypes
    <2> QED
      BY <1>2, <1>3, <2>1, <2>3, <2>4, CloseStep
  <1>6. CASE s # Push!NoSub
    <2> DEFINE one == [c EXCEPT !.pc = "asked"]
    <2> DEFINE two == [one EXCEPT !.mode = s.mode]
    <2> DEFINE d == [two EXCEPT !.challenge = s.challenge]
    <2>1. checks' = (checks \ {c}) \cup {d}
      BY <1>2, <1>6
    <2> HIDE DEF s
    <2>2. one \in Verification /\ one.pc = "asked" /\ one.protocol = "websub"
      BY <1>3 DEF Verification, Points
    <2> HIDE DEF one
    <2>3. two \in Verification /\ two.pc = "asked" /\ two.protocol = "websub" /\ two.mode = s.mode
      BY <1>4, <2>2 DEF Verification
    <2> HIDE DEF two
    <2>4. d \in Verification /\ d.pc = "asked" /\ d.protocol = "websub" /\ d.mode = s.mode
      BY <1>4, <2>3 DEF Verification
    <2> HIDE DEF d
    <2>5. Swaps(c, d)
      BY <1>2, <1>3, <2>1, <2>4 DEF Swaps
    <2>6. sure' = sure
      <3>1. (sure["websub"] /\ s # Push!NoSub) = sure["websub"]
        BY <1>1, <1>3, <1>6 DEF PushTypes
      <3>2. sure' = [sure EXCEPT !["websub"] = sure["websub"]]
        BY <1>2, <1>3, <3>1 DEF s
      <3> QED
        BY <3>2, <1>1 DEF PushTypes
    <2>7. CheckStage(c) => CheckStage(d)
      <3>1. CASE c.mode = "subscribe"
        <4>1. CheckStage(c) => JoinStage(c)
          BY <1>3, <3>1 DEF CheckStage
        <4>2. JoinStage(c) => d.mode = "subscribe"
          BY <2>4 DEF JoinStage, s
        <4>3. JoinStage(c) => JoinStage(d)
          BY <1>2, <2>4 DEF JoinStage, Early, Late
        <4> QED
          BY <2>4, <4>1, <4>2, <4>3 DEF CheckStage
      <3>2. CASE c.mode # "subscribe"
        <4>1. CheckStage(c) => PartStage(c)
          BY <1>3, <3>2 DEF CheckStage
        <4>2. PartStage(c) => d.mode = "unsubscribe"
          BY <1>2, <2>4 DEF PartStage, s
        <4>3. PartStage(c) => PartStage(d)
          BY <1>2, <2>4 DEF PartStage, Early, Late
        <4> QED
          BY <2>4, <4>1, <4>2, <4>3 DEF CheckStage
      <3> QED
        BY <3>1, <3>2
    <2>8. ~Untouched(c.protocol)'
      BY <1>3, <2>1, <2>4 DEF Untouched
    <2> QED
      BY <1>2, <2>5, <2>6, <2>7, <2>8, QuietSwap
  <1> QED
    BY <1>5, <1>6

\* verifySubscriber does what the answer says.
LEMMA VerifyStep ==
  ASSUME PushInv, NEW c \in checks, Push!VerifySubscriber(c)
  PROVE  PushInv'
  <1> DEFINE s == listed["websub"]
  <1>1. PushTypes /\ PushSense
    BY DEF PushInv
  <1>2. /\ c.protocol = "websub" /\ c.pc \in {"echoed", "refused"} /\ checks' = checks \ {c}
        /\ listed' = (IF c.pc = "refused" \/ c.mode = "unsubscribe"
                      THEN [listed EXCEPT !["websub"] = Push!NoSub]
                      ELSE IF s = Push!NoSub THEN listed
                      ELSE [listed EXCEPT !["websub"] = Push!Verified])
        /\ sure' = [sure EXCEPT !["websub"] = clean["websub"]]
        /\ UNCHANGED <<now, offered, row, known, intent, until, secret, leaving, duty, asks, mail,
                       clean, missed, next, lost, news>>
    BY DEF Push!VerifySubscriber, Push!Known, Push!bob, Push!bounds
  <1>3. "websub" \in Push!Protocols
    BY <1>1, <1>2 DEF PushTypes, PushSense
  <1>4. s \in Rows
    BY <1>1, <1>3 DEF PushTypes
  <1>5. Push!Verified \in Rows /\ Push!Verified.verified /\ Push!Verified.mode = s.mode
        /\ Push!Verified.lease = s.lease /\ Push!Verified.secret = s.secret
    <2> HIDE DEF s
    <2> DEFINE one == [s EXCEPT !.verified = TRUE]
    <2> DEFINE two == [one EXCEPT !.challenge = 0]
    <2>1. Push!Verified = two
      BY DEF Push!Verified, s
    <2>2. one \in Rows /\ one.verified /\ one.mode = s.mode /\ one.lease = s.lease /\ one.secret = s.secret
      BY <1>4 DEF Rows
    <2> HIDE DEF one
    <2>3. two \in Rows /\ two.verified /\ two.mode = s.mode /\ two.lease = s.lease /\ two.secret = s.secret
      BY <2>2, PushAssumption DEF Rows
    <2> QED
      BY <2>1, <2>3
  <1>6. Closes(c)
    BY <1>2 DEF Closes
  <1>7. /\ listed' \in [Push!Protocols -> Rows]
        /\ \A p \in Push!Protocols : p # "websub" => listed'[p] = listed[p]
    BY <1>1, <1>2, <1>3, <1>5, NoSubFits DEF PushTypes
  <1>8. /\ sure' \in [Push!Protocols -> BOOLEAN] /\ clean' \in [Push!Protocols -> BOOLEAN]
        /\ sure'["websub"] = clean["websub"]
        /\ \A p \in Push!Protocols : p # "websub" => sure'[p] = sure[p]
    BY <1>1, <1>2, <1>3 DEF PushTypes
  <1>9. now \in Nat /\ Lease \in Nat /\ RenewAt \in 0..Lease /\ lost \in Nat
    BY <1>1, PushAssumption DEF PushTypes
  <1>10. ASSUME CheckStage(c)
         PROVE  Fits("websub")' /\ (row /\ until["websub"] # 0 => until["websub"] >= now + RenewAt - lost)
    <2>1. CASE c.mode = "subscribe"
      <3>1. JoinStage(c)
        BY <1>2, <1>10, <2>1 DEF CheckStage
      <3>2. /\ row /\ ~leaving /\ c.pc = "echoed" /\ s.mode = "subscribe" /\ s.lease = now + Lease
            /\ until["websub"] = now + Lease /\ secret = s.secret
        BY <3>1, <1>2 DEF JoinStage, Late
      <3>3. s # Push!NoSub
        BY <3>2, NoSubFits
      <3>4. listed'["websub"] = Push!Verified
        BY <1>1, <1>2, <1>3, <2>1, <3>2, <3>3 DEF PushTypes
      <3> HIDE DEF s
      <3>5. Active("websub")'
        BY <3>2, <3>4, <1>5 DEF Active
      <3>6. listed'["websub"].lease = now + Lease /\ listed'["websub"].secret = secret
        BY <3>2, <3>4, <1>5
      <3>7. now + Lease <= now + Lease /\ now + Lease >= now + RenewAt - lost
        BY <1>9
      <3>8. Fits("websub")'
        BY <1>2, <3>2, <3>5, <3>6, <3>7 DEF Fits
      <3> QED
        BY <3>2, <3>7, <3>8
    <2>2. CASE c.mode # "subscribe"
      <3>1. PartStage(c) /\ c.mode = "unsubscribe"
        BY <1>2, <1>10, <2>2 DEF CheckStage
      <3>2. listed'["websub"] = Push!NoSub
        BY <1>1, <1>2, <1>3, <3>1 DEF PushTypes
      <3>3. ~Active("websub")'
        BY <3>2, NoSubFits DEF Active
      <3>4. leaving \/ ~row
        BY <3>1 DEF PartStage
      <3>5. row => until["websub"] = 0
        BY <1>2, <3>1 DEF PartStage, Late
      <3>6. Fits("websub")'
        BY <1>2, <3>3, <3>4 DEF Fits, Push!Holds
      <3> QED
        BY <3>5, <3>6
    <2> QED
      BY <2>1, <2>2
  <1> QED
    BY <1>2, <1>6, <1>7, <1>8, <1>10, CloseStep

\* RegisterCloud.
LEMMA RegisterStep ==
  ASSUME PushInv, NEW c \in checks, Push!RegisterCloud(c)
  PROVE  PushInv'
  <1> DEFINE new == [Push!NoSub EXCEPT !.mode = "subscribe", !.lease = now + Lease, !.verified = TRUE]
  <1>1. PushTypes /\ PushSense /\ PartOf("rsscloud")
    BY DEF PushInv, Push!RegisterCloud, PushSense, PushTypes
  <1>2. /\ c.protocol = "rsscloud" /\ c.pc \in {"echoed", "refused"} /\ checks' = checks \ {c}
        /\ listed' = (IF c.pc = "refused" THEN listed ELSE [listed EXCEPT !["rsscloud"] = new])
        /\ sure' = (IF c.pc = "refused" THEN sure ELSE [sure EXCEPT !["rsscloud"] = clean["rsscloud"]])
        /\ UNCHANGED <<now, offered, row, known, intent, until, secret, leaving, duty, asks, mail,
                       clean, missed, next, lost, news>>
    BY DEF Push!RegisterCloud, Push!Known, Push!bob, Push!bounds
  <1>3. "rsscloud" \in Push!Protocols
    BY <1>1, <1>2 DEF PushTypes, PushSense
  <1>4. now \in Nat /\ now <= MaxTime /\ MaxTime \in Nat /\ Lease \in Nat /\ RenewAt \in 0..Lease /\ lost \in Nat
        /\ MaxAsks \in Nat
    BY <1>1, PushAssumption DEF PushTypes
  <1>5. now + Lease \in 0..(MaxTime + Lease)
    BY <1>4
  <1>7. new \in Rows /\ new.verified /\ new.mode = "subscribe" /\ new.lease = now + Lease
    <2> DEFINE one == [Push!NoSub EXCEPT !.mode = "subscribe"]
    <2> DEFINE two == [one EXCEPT !.lease = now + Lease]
    <2> DEFINE three == [two EXCEPT !.verified = TRUE]
    <2>1. new = three
      OBVIOUS
    <2> HIDE DEF new
    <2>2. one \in Rows /\ one.mode = "subscribe"
      BY NoSubFits DEF Rows, Modes
    <2> HIDE DEF one
    <2>3. two \in Rows /\ two.mode = "subscribe" /\ two.lease = now + Lease
      BY <1>5, <2>2 DEF Rows
    <2> HIDE DEF two
    <2>4. three \in Rows /\ three.mode = "subscribe" /\ three.lease = now + Lease /\ three.verified
      BY <2>3 DEF Rows
    <2> QED
      BY <2>1, <2>4
  <1> HIDE DEF new
  <1>8. Closes(c)
    BY <1>2 DEF Closes
  <1>9. /\ listed' \in [Push!Protocols -> Rows]
        /\ \A p \in Push!Protocols : p # "rsscloud" => listed'[p] = listed[p]
        /\ c.pc = "echoed" => listed'["rsscloud"] = new
    BY <1>1, <1>2, <1>3, <1>7 DEF PushTypes
  <1>10. ~Push!Still("rsscloud")
    BY <1>2 DEF Push!Still
  <1>11. sure["rsscloud"] => clean["rsscloud"]
    BY <1>1, <1>10 DEF PartOf, Single
  <1>12. /\ sure' \in [Push!Protocols -> BOOLEAN] /\ clean' \in [Push!Protocols -> BOOLEAN]
         /\ sure'["rsscloud"] => clean["rsscloud"]
         /\ c.pc = "refused" => sure' = sure /\ listed' = listed
         /\ \A p \in Push!Protocols : p # "rsscloud" => sure'[p] = sure[p]
    BY <1>1, <1>2, <1>3, <1>11 DEF PushTypes
  <1>13. until["rsscloud"] <= now + Lease
    BY <1>1, <1>3 DEF PushSense
  <1>14. ASSUME CheckStage(c), sure'["rsscloud"]
         PROVE  Fits("rsscloud")' /\ (row /\ until["rsscloud"] # 0 => until["rsscloud"] >= now + RenewAt - lost)
    <2>1. CloudStage(c) /\ clean["rsscloud"]
      BY <1>2, <1>12, <1>14 DEF CheckStage
    <2>2. CASE c.pc = "refused"
      <3>1. ~row
        BY <2>1, <2>2 DEF CloudStage
      <3>2. Fits("rsscloud")'
        BY <1>2, <3>1 DEF Fits, Push!Holds
      <3> QED
        BY <3>1, <3>2
    <2>3. CASE c.pc = "echoed"
      <3>1. row => until["rsscloud"] = now + Lease
        BY <2>1, <2>3 DEF CloudStage, Late
      <3>2. Fits("rsscloud")'
        BY <1>2, <1>7, <1>9, <1>13, <2>3 DEF Fits, Active
      <3>3. now + Lease >= now + RenewAt - lost
        BY <1>4
      <3> QED
        BY <3>1, <3>2, <3>3
    <2> QED
      BY <1>2, <2>2, <2>3
  <1> QED
    BY <1>2, <1>8, <1>9, <1>12, <1>14, CloseStep

\* The process that verifies stops, or gets no answer.
LEMMA StopStep ==
  ASSUME PushInv, NEW c \in checks, Push!CutVerifier(c)
  PROVE  PushInv'
  <1> PICK q : q = c.protocol
    OBVIOUS
  <1>1. PushTypes /\ PushSense
    BY DEF PushInv
  <1>2. /\ checks' = checks \ {c}
        /\ clean' = [clean EXCEPT ![q] = FALSE] /\ sure' = [sure EXCEPT ![q] = FALSE]
        /\ UNCHANGED <<now, offered, row, known, intent, until, secret, leaving, duty, asks, listed, mail,
                       missed, next, lost, news>>
    BY DEF Push!CutVerifier, Push!Cut, Push!bob
  <1>3. q \in Push!Protocols
    BY <1>1 DEF PushTypes, PushSense
  <1>4. /\ clean' \in [Push!Protocols -> BOOLEAN] /\ sure' \in [Push!Protocols -> BOOLEAN] /\ ~clean'[q] /\ ~sure'[q]
        /\ \A p \in Push!Protocols : p # q => clean'[p] = clean[p] /\ sure'[p] = sure[p]
    BY <1>1, <1>2, <1>3 DEF PushTypes
  <1>5. Closes(c) /\ listed' \in [Push!Protocols -> Rows] 
    BY <1>1, <1>2 DEF Closes, PushTypes
  <1>6. q = c.protocol /\ (clean'[q] => clean[q]) /\ (sure'[q] => clean'[q])
        /\ \A p \in Push!Protocols : p # q => listed'[p] = listed[p] /\ clean'[p] = clean[p] /\ sure'[p] = sure[p]
    BY <1>2, <1>4
  <1>7. sure'[q] /\ CheckStage(c) =>
          Fits(q)' /\ (row /\ until[q] # 0 => until[q] >= now + RenewAt - lost)
    BY <1>4
  <1> QED
    BY <1>2, <1>4, <1>5, <1>6, <1>7, CloseStep

LEMMA CutStep ==
  ASSUME PushInv, NEW c \in checks, Push!CutAnswer(c)
  PROVE  PushInv'
  <1> DEFINE q == c.protocol
  <1>1. PushTypes /\ PushSense /\ Posted /\ \A p \in Push!Protocols : PartOf(p)
    BY DEF PushInv
  <1>2. /\ Push!Moved(c, "refused")
        /\ clean' = [clean EXCEPT ![q] = FALSE] /\ sure' = [sure EXCEPT ![q] = FALSE]
        /\ UNCHANGED <<now, offered, row, known, intent, until, secret, leaving, duty, asks, listed, mail,
                       missed, next, lost, news>>
    BY DEF Push!CutAnswer, Push!Cut, Push!bob
  <1>3. q \in Push!Protocols
    BY <1>1 DEF PushTypes, PushSense
  <1>4. /\ clean' \in [Push!Protocols -> BOOLEAN] /\ sure' \in [Push!Protocols -> BOOLEAN] /\ ~clean'[q] /\ ~sure'[q]
        /\ \A p \in Push!Protocols : p # q => clean'[p] = clean[p] /\ sure'[p] = sure[p]
    BY <1>1, <1>2, <1>3 DEF PushTypes
  <1>5. "refused" \in Points \ {"new"}
    BY DEF Points
  <1>6. PICK d \in Verification : Swaps(c, d) /\ d.pc = "refused" /\ d.mode = c.mode /\ d.intent = c.intent
    BY <1>1, <1>2, <1>5, MovedSwaps
  <1>7. PushTypes'
    BY <1>1, <1>2, <1>4, <1>6 DEF PushTypes, Swaps
  <1>8. PushSense'
    BY <1>1, <1>2, <1>6, CheckSense DEF PushSense
  <1>9. Posted'
    BY <1>1, <1>2, <1>6, CheckPosted
  <1>10. ASSUME NEW p \in Push!Protocols PROVE PartOf(p)'
    <2>1. CASE p # q
      <3>1. SameItems(p)
        BY <1>6, <2>1, SwapOthers
      <3>2. SameFacts(p)
        BY <1>2, <1>4, <2>1 DEF SameFacts
      <3>3. lost' \in Nat /\ lost <= lost'
        BY <1>1, <1>2 DEF PushTypes
      <3> QED
        BY <1>1, <1>2, <3>1, <3>2, <3>3, OtherPart
    <2>2. CASE p = q
      BY <1>4, <2>2 DEF PartOf, Single, Staged, Fitting, Lasting
    <2> QED
      BY <2>1, <2>2
  <1> QED
    BY <1>7, <1>8, <1>9, <1>10 DEF PushInv

\* A request arrives: a verification of its protocol takes its place.
Arrives(a, d) ==
  /\ a \in asks /\ asks' = asks \ {a}
  /\ d \in Verification /\ d.protocol = a.protocol /\ d.mode = a.mode /\ d.pc \in {"new", "asked"}
  /\ d.pc = "new" <=> d.protocol = "websub"
  /\ checks' = checks \cup {d}

LEMMA ChecksFit ==
  ASSUME PushTypes, NEW a \in asks, NEW pc \in Points
  PROVE  /\ Push!Check(a, pc, a.mode) \in Verification
         /\ Push!Check(a, pc, a.mode).protocol = a.protocol
         /\ Push!Check(a, pc, a.mode).mode = a.mode
         /\ Push!Check(a, pc, a.mode).pc = pc
  <1>1. a \in Asked
    BY DEF PushTypes
  <1>2. Push!NoIntent \in Intents
    BY PushAssumption DEF Push!NoIntent, Intents, Modes
  <1> QED
    BY <1>1, <1>2 DEF Push!Check, Asked, Verification

LEMMA ArriveSingle ==
  ASSUME NEW a, NEW d, Arrives(a, d), Single(a.protocol), UNCHANGED <<clean, sure>>
  PROVE  /\ Single(a.protocol)'
         /\ ~Push!Still(a.protocol) /\ ~Push!Still(a.protocol)'
         /\ clean[a.protocol] => /\ \A b \in asks' : b.protocol # a.protocol
                                 /\ \A c \in checks' : c.protocol = a.protocol => c = d
         /\ sure[a.protocol] => clean[a.protocol]
  <1>1. ~Push!Still(a.protocol) /\ ~Push!Still(a.protocol)'
    BY DEF Arrives, Push!Still
  <1>2. clean[a.protocol] => /\ \A b \in asks' : b.protocol # a.protocol
                             /\ \A c \in checks' : c.protocol = a.protocol => c = d
    BY DEF Arrives, Single
  <1>3. sure[a.protocol] => clean[a.protocol]
    BY <1>1 DEF Single
  <1>4. Single(a.protocol)'
    BY <1>2, <1>3 DEF Single
  <1> QED
    BY <1>1, <1>2, <1>3, <1>4

LEMMA ArriveOthers ==
  ASSUME NEW a, NEW d, Arrives(a, d), NEW p, p # a.protocol
  PROVE  SameItems(p)
  BY DEF Arrives, SameItems

LEMMA ArriveStep ==
  ASSUME PushInv, NEW a, NEW d, Arrives(a, d),
         UNCHANGED <<now, offered, row, known, intent, until, secret, leaving, duty, mail, clean, sure, missed,
                     next, lost, news>>,
         listed' \in [Push!Protocols -> Rows],
         \A p \in Push!Protocols : p # a.protocol => listed'[p] = listed[p],
         clean[a.protocol] /\ AskStage(a) => CheckStage(d)',
         sure[a.protocol] /\ Staged(a.protocol) /\ Untouched(a.protocol)' =>
           Untouched(a.protocol) /\ listed'[a.protocol] = listed[a.protocol]
  PROVE  PushInv'
  <1>1. PushTypes /\ PushSense /\ Posted /\ \A p \in Push!Protocols : PartOf(p)
    BY DEF PushInv
  <1>2. /\ a \in asks /\ asks' = asks \ {a} /\ d \in Verification /\ d.protocol = a.protocol
        /\ checks' = checks \cup {d} /\ (d.pc = "new" => d.protocol = "websub")
    BY DEF Arrives
  <1>3. a.protocol \in Push!Protocols /\ a.protocol \in offered
    BY <1>1, <1>2 DEF PushTypes, PushSense
  <1>4. PushTypes'
    BY <1>1, <1>2 DEF PushTypes
  <1>5. PushSense'
    <2>1. /\ \A x \in asks' \cup checks' : x.protocol \in offered
          /\ \A x \in checks' : x.pc = "new" => x.protocol = "websub"
      BY <1>1, <1>2, <1>3 DEF PushSense
    <2>2. \A p \in Push!Protocols : listed'[p] # Push!NoSub \/ until'[p] # 0 => p \in offered
      BY <1>1, <1>3 DEF PushSense
    <2> QED
      BY <1>1, <2>1, <2>2 DEF PushSense
  <1>6. Posted'
    <2>1. SUFFICES ASSUME NEW m \in mail, m.safe PROVE Mailed(m)'
      BY <1>1 DEF Posted, Mailed
    <2>2. Mailed(m)
      BY <1>1 DEF Posted
    <2>3. m.protocol # a.protocol
      BY <1>2, <2>1, <2>2 DEF Mailed, Push!Still
    <2>4. Push!Still(m.protocol)' <=> Push!Still(m.protocol)
      BY <2>3, ArriveOthers, SameStill
    <2> QED
      BY <2>2, <2>4 DEF Mailed
  <1>7. ASSUME NEW p \in Push!Protocols PROVE PartOf(p)'
    <2>1. CASE p # a.protocol
      <3>1. SameItems(p)
        BY <2>1, ArriveOthers
      <3>2. SameFacts(p)
        BY <2>1 DEF SameFacts
      <3>3. lost' \in Nat /\ lost <= lost'
        BY <1>1 DEF PushTypes
      <3> QED
        BY <1>1, <3>1, <3>2, <3>3, OtherPart
    <2>2. CASE p = a.protocol
      <3>1. PartOf(p)
        BY <1>1
      <3>2. /\ Single(p)' /\ ~Push!Still(p) /\ ~Push!Still(p)'
            /\ clean[p] => /\ \A b \in asks' : b.protocol # p
                           /\ \A c \in checks' : c.protocol = p => c = d
            /\ sure[p] => clean[p]
        BY <2>2, <3>1, ArriveSingle DEF PartOf
      <3>3. clean[p] => AskStage(a)
        BY <1>2, <2>2, <3>1 DEF PartOf, Staged
      <3>4. Staged(p)'
        BY <2>2, <3>2, <3>3 DEF Staged
      <3>5. Fitting(p)'
        <4>1. SUFFICES ASSUME sure[p], Untouched(p)' PROVE Fits(p)'
          BY DEF Fitting
        <4>2. Untouched(p) /\ listed'[p] = listed[p]
          BY <2>2, <3>1, <4>1 DEF PartOf
        <4>3. Fits(p)
          BY <3>1, <4>1, <4>2 DEF PartOf, Fitting
        <4> QED
          BY <4>2, <4>3 DEF Fits, Push!Holds, Active
      <3>6. Lasting(p)'
        BY <3>1, <3>2 DEF PartOf, Lasting
      <3> QED
        BY <3>2, <3>4, <3>5, <3>6 DEF PartOf
    <2> QED
      BY <2>1, <2>2
  <1> QED
    BY <1>4, <1>5, <1>6, <1>7 DEF PushInv

\* hubEndpoint.
LEMMA HubStep ==
  ASSUME PushInv, NEW a \in asks, Push!HubEndpoint(a)
  PROVE  PushInv'
  <1> DEFINE s == listed["websub"]
  <1> DEFINE d == Push!Check(a, "new", a.mode)
  <1>1. PushTypes /\ PushSense
    BY DEF PushInv
  <1>2. /\ a.protocol = "websub" /\ asks' = asks \ {a} /\ checks' = checks \cup {d}
        /\ listed' = [listed EXCEPT !["websub"] = Push!Pending(a)]
        /\ UNCHANGED <<now, offered, row, known, intent, until, secret, leaving, duty, mail, clean, sure,
                       missed, next, lost, news>>
    BY DEF Push!HubEndpoint, Push!bob, Push!history, Push!bounds
  <1>3. "websub" \in Push!Protocols /\ a \in Asked
    BY <1>1, <1>2 DEF PushTypes, PushSense
  <1>4. s \in Rows
    BY <1>1, <1>3 DEF PushTypes
  <1>5. now + Lease \in 0..(MaxTime + Lease)
    BY <1>1, PushAssumption DEF PushTypes
  <1>6. Push!Pending(a) \in Rows /\ Push!Pending(a).mode = a.mode /\ Push!Pending(a).lease = now + Lease
        /\ Push!Pending(a).secret = a.secret
    <2> DEFINE one == [s EXCEPT !.mode = a.mode]
    <2> DEFINE two == [one EXCEPT !.challenge = a.n]
    <2> DEFINE three == [two EXCEPT !.lease = now + Lease]
    <2> DEFINE four == [three EXCEPT !.secret = a.secret]
    <2>1. Push!Pending(a) = four
      BY DEF Push!Pending
    <2>2. a.mode \in Modes /\ a.n \in 0..MaxAsks /\ a.secret \in 0..MaxAsks
      BY <1>3 DEF Asked
    <2> HIDE DEF s
    <2>3. one \in Rows /\ one.mode = a.mode
      BY <1>4, <2>2 DEF Rows
    <2> HIDE DEF one
    <2>4. two \in Rows /\ two.mode = a.mode
      BY <2>2, <2>3 DEF Rows
    <2> HIDE DEF two
    <2>5. three \in Rows /\ three.mode = a.mode /\ three.lease = now + Lease
      BY <1>5, <2>4 DEF Rows
    <2> HIDE DEF three
    <2>6. four \in Rows /\ four.mode = a.mode /\ four.lease = now + Lease /\ four.secret = a.secret
      BY <2>2, <2>5 DEF Rows
    <2> QED
      BY <2>1, <2>6
  <1>7. /\ listed' \in [Push!Protocols -> Rows] /\ listed'["websub"] = Push!Pending(a)
        /\ \A p \in Push!Protocols : p # "websub" => listed'[p] = listed[p]
    BY <1>1, <1>2, <1>3, <1>6 DEF PushTypes
  <1>8. "new" \in Points
    BY DEF Points
  <1>9. d \in Verification /\ d.protocol = a.protocol /\ d.mode = a.mode /\ d.pc = "new"
    BY <1>1, <1>8, ChecksFit
  <1> HIDE DEF d
  <1>10. Arrives(a, d)
    BY <1>2, <1>9 DEF Arrives
  <1>11. AskStage(a) => CheckStage(d)'
    <2> SUFFICES ASSUME AskStage(a) PROVE CheckStage(d)'
      OBVIOUS
    <2>1. CASE a.mode = "subscribe"
      <3>1. row /\ ~leaving /\ intent["websub"] = [mode |-> "subscribe", secret |-> a.secret]
        BY <1>2, <2>1 DEF AskStage
      <3>2. JoinStage(d)'
        BY <1>2, <1>6, <1>7, <1>9, <2>1, <3>1 DEF JoinStage, Early, Late
      <3> QED
        BY <1>2, <1>9, <2>1, <3>2 DEF CheckStage
    <2>2. CASE a.mode # "subscribe"
      <3>1. a.mode = "unsubscribe" /\ (leaving \/ ~row) /\ (row => intent["websub"].mode = "unsubscribe")
        BY <1>2, <2>2 DEF AskStage
      <3>2. PartStage(d)'
        BY <1>2, <1>6, <1>7, <1>9, <3>1 DEF PartStage, Early, Late
      <3> QED
        BY <1>2, <1>9, <3>1, <3>2 DEF CheckStage
    <2> QED
      BY <2>1, <2>2
  <1>12. ~Untouched("websub")'
    BY <1>2, <1>9 DEF Untouched
  <1> QED
    BY <1>2, <1>7, <1>10, <1>11, <1>12, ArriveStep

\* cloudRegister.
LEMMA CloudStep ==
  ASSUME PushInv, NEW a \in asks, Push!CloudRegister(a)
  PROVE  PushInv'
  <1> DEFINE d == Push!Check(a, "asked", a.mode)
  <1>1. PushTypes /\ PushSense
    BY DEF PushInv
  <1>2. /\ a.protocol = "rsscloud" /\ asks' = asks \ {a} /\ checks' = checks \cup {d}
        /\ UNCHANGED <<now, offered, row, known, intent, until, secret, leaving, duty, listed, mail, clean, sure,
                       missed, next, lost, news>>
    BY DEF Push!CloudRegister, Push!bob, Push!history, Push!bounds
  <1>3. listed' \in [Push!Protocols -> Rows]
    BY <1>1, <1>2 DEF PushTypes
  <1>4. "asked" \in Points
    BY DEF Points
  <1>5. d \in Verification /\ d.protocol = a.protocol /\ d.mode = a.mode /\ d.pc = "asked"
    BY <1>1, <1>4, ChecksFit
  <1> HIDE DEF d
  <1>6. Arrives(a, d)
    BY <1>2, <1>5 DEF Arrives
  <1>7. AskStage(a) => CheckStage(d)'
    BY <1>2, <1>5 DEF AskStage, CheckStage, CloudStage, Early, Late
  <1>8. ASSUME sure["rsscloud"], Staged("rsscloud"), Untouched("rsscloud")' PROVE Untouched("rsscloud")
    <2>1. ~Push!Still("rsscloud") /\ PartOf("rsscloud")
      BY <1>1, <1>2 DEF Push!Still, PushInv, PushSense, PushTypes
    <2>2. clean["rsscloud"]
      BY <1>8, <2>1 DEF PartOf, Single
    <2>3. AskStage(a)
      BY <1>2, <1>8, <2>2 DEF Staged
    <2>4. a.mode = "subscribe"
      BY <1>2, <2>3 DEF AskStage
    <2> QED
      BY <1>2, <1>8, <2>4 DEF Untouched
  <1> QED
    BY <1>2, <1>3, <1>6, <1>7, <1>8, ArriveStep

-----------------------------------------------------------------------------
(* Deliveries and time *)

\* A request is lost.
LEMMA LostStep ==
  ASSUME PushInv, NEW a \in asks, Push!LoseAsk(a)
  PROVE  PushInv'
  <1>1. PushTypes /\ PushSense /\ Posted /\ \A p \in Push!Protocols : PartOf(p)
    BY DEF PushInv
  <1>2. /\ lost' = lost + 1 /\ asks' = asks \ {a}
        /\ sure' = [sure EXCEPT ![a.protocol] = sure[a.protocol] /\ a.mode = "subscribe"]
        /\ UNCHANGED <<now, offered, row, known, intent, until, secret, leaving, duty, checks, listed, mail,
                       clean, missed, next, news>>
    BY DEF Push!LoseAsk, Push!bob
  <1>3. a.protocol \in Push!Protocols /\ lost \in Nat
    BY <1>1 DEF PushTypes, PushSense
  <1>4. /\ sure' \in [Push!Protocols -> BOOLEAN]
        /\ sure'[a.protocol] => sure[a.protocol] /\ a.mode = "subscribe"
        /\ \A p \in Push!Protocols : p # a.protocol => sure'[p] = sure[p]
    <2>1. (sure[a.protocol] /\ a.mode = "subscribe") \in BOOLEAN
      BY <1>1, <1>3 DEF PushTypes
    <2> QED
      BY <1>1, <1>2, <1>3, <2>1 DEF PushTypes
  <1>5. PushTypes'
    BY <1>1, <1>2, <1>4 DEF PushTypes
  <1>6. PushSense'
    BY <1>1, <1>2 DEF PushSense
  <1>7. \A p : Push!Still(p) => Push!Still(p)'
    BY <1>2 DEF Push!Still
  <1>8. Posted'
    BY <1>1, <1>2, <1>7 DEF Posted, Mailed
  <1>9. ASSUME NEW p \in Push!Protocols PROVE PartOf(p)'
    <2>1. CASE p # a.protocol
      <3>1. SameItems(p)
        BY <1>2, <2>1 DEF SameItems
      <3>2. SameFacts(p)
        BY <1>2, <1>4, <2>1 DEF SameFacts
      <3>3. lost' \in Nat /\ lost <= lost'
        BY <1>2, <1>3
      <3> QED
        BY <1>1, <1>2, <3>1, <3>2, <3>3, OtherPart
    <2>2. CASE p = a.protocol
      <3>1. Single(p) /\ Staged(p) /\ Fitting(p) /\ Lasting(p)
        BY <1>1 DEF PartOf
      <3>2. ~Push!Still(p)
        BY <2>2 DEF Push!Still
      <3>3. sure'[p] => sure[p] /\ clean[p] /\ a.mode = "subscribe"
        BY <1>4, <2>2, <3>1, <3>2 DEF Single
      <3>4. Single(p)'
        BY <1>2, <3>1, <3>3 DEF Single
      <3>5. Staged(p)'
        <4>1. ASSUME NEW x, AskStage(x) PROVE AskStage(x)'
          BY <1>2, <4>1 DEF AskStage
        <4>2. ASSUME NEW x, CheckStage(x) PROVE CheckStage(x)'
          BY <1>2, <4>2 DEF CheckStage, JoinStage, PartStage, CloudStage
        <4> QED
          BY <1>2, <3>1, <4>1, <4>2 DEF Staged
      <3>6. Fitting(p)'
        <4>1. SUFFICES ASSUME sure'[p] PROVE Fits(p)'
          BY DEF Fitting
        <4>2. Untouched(p)
          BY <2>2, <3>1, <3>3, <4>1 DEF Single, Untouched
        <4>3. Fits(p)
          BY <3>1, <3>3, <4>1, <4>2 DEF Fitting
        <4> QED
          BY <1>2, <4>3 DEF Fits, Push!Holds, Active
      <3>7. Lasting(p)'
        <4>1. SUFFICES ASSUME sure'[p], row, until[p] # 0 PROVE until[p] >= now + RenewAt - (lost + 1) - 0
          <5>1. until[p] \in Int /\ now \in Int /\ RenewAt \in Int
            BY <1>1, PushAssumption DEF PushTypes
          <5> QED
            BY <1>2, <1>3, <5>1 DEF Lasting
        <4>2. until[p] >= now + RenewAt - lost - 1
          BY <3>1, <3>2, <3>3, <4>1 DEF Lasting
        <4>3. until[p] \in Int /\ now \in Int /\ RenewAt \in Int
          BY <1>1, PushAssumption DEF PushTypes
        <4> QED
          BY <1>3, <4>2, <4>3
      <3> QED
        BY <3>4, <3>5, <3>6, <3>7 DEF PartOf
    <2> QED
      BY <2>1, <2>2
  <1> QED
    BY <1>5, <1>6, <1>8, <1>9 DEF PushInv

\* Nothing but deliveries moves.
LEMMA MailPart ==
  ASSUME PushInv, NEW p \in Push!Protocols,
         UNCHANGED <<now, offered, row, known, intent, until, secret, leaving, duty, asks, checks, listed,
                     clean, sure, next, lost>>
  PROVE  PartOf(p)'
  <1>1. PushTypes /\ PartOf(p)
    BY DEF PushInv
  <1>2. SameItems(p) /\ SameFacts(p)
    BY DEF SameItems, SameFacts
  <1>3. lost' \in Nat /\ lost <= lost'
    BY <1>1 DEF PushTypes
  <1> QED
    BY <1>1, <1>2, <1>3, OtherPart

LEMMA MailStep ==
  ASSUME PushInv, mail' \subseteq mail, ~missed',
         UNCHANGED <<now, offered, row, known, intent, until, secret, leaving, duty, asks, checks, listed,
                     clean, sure, next, lost, news>>
  PROVE  PushInv'
  <1>1. PushTypes /\ PushSense /\ Posted
    BY DEF PushInv
  <1>2. PushTypes'
    BY <1>1 DEF PushTypes
  <1>3. PushSense'
    BY <1>1 DEF PushSense
  <1>4. Posted'
    BY <1>1 DEF Posted, Mailed, Push!Still
  <1>5. \A p \in Push!Protocols : PartOf(p)'
    BY MailPart
  <1> QED
    BY <1>2, <1>3, <1>4, <1>5 DEF PushInv

LEMMA AcceptStep ==
  ASSUME PushInv, NEW m \in mail, Push!AcceptPush(m)
  PROVE  PushInv'
  <1> DEFINE taken == row /\ (m.protocol = "websub" => Push!CheckSignature(m.secret))
  <1>1. /\ mail' = mail \ {m} /\ missed' = (missed \/ (~taken /\ m.safe /\ row))
        /\ UNCHANGED <<now, offered, row, known, intent, until, secret, leaving, duty, asks, checks, listed,
                       clean, sure, next, lost, news>>
    BY DEF Push!AcceptPush, Push!bob, Push!bounds
  <1>2. Mailed(m) /\ ~missed
    BY DEF PushInv, Posted
  <1>3. m.safe /\ row => taken
    BY <1>2 DEF Mailed, Push!CheckSignature
  <1> HIDE DEF taken
  <1>4. ~missed' /\ mail' \subseteq mail
    BY <1>1, <1>2, <1>3
  <1> QED
    BY <1>1, <1>4, MailStep

\* Distribute.
LEMMA DistributeStep ==
  ASSUME PushInv, Push!Distribute
  PROVE  PushInv'
  <1>1. PushTypes /\ PushSense /\ Posted /\ \A p \in Push!Protocols : PartOf(p)
    BY DEF PushInv
  <1>2. /\ news' = news + 1
        /\ mail' = mail \cup {Push!Delivery(p) : p \in {q \in Push!Protocols : Push!Listed(q)}}
        /\ UNCHANGED <<now, offered, row, known, intent, until, secret, leaving, duty, asks, checks, listed,
                       clean, sure, missed, next, lost>>
    BY DEF Push!Distribute, Push!bob
  <1>3. ASSUME NEW p \in Push!Protocols, Push!Listed(p)
        PROVE  Push!Delivery(p) \in Letters /\ Mailed(Push!Delivery(p)) /\ Push!Delivery(p).protocol \in offered
    <2> DEFINE m == Push!Delivery(p)
    <2>1. listed[p] \in Rows /\ Active(p) /\ sure[p] \in BOOLEAN /\ news \in Nat
      BY <1>1, <1>3 DEF PushTypes, Push!Listed, Active
    <2>2. m = [protocol |-> p, secret |-> listed[p].secret, n |-> news + 1, safe |-> Push!Still(p) /\ sure[p]]
      BY DEF Push!Delivery
    <2>3. p \in {"websub", "rsscloud"} /\ listed[p].secret \in 0..MaxAsks /\ news + 1 \in Nat
          /\ (Push!Still(p) /\ sure[p]) \in BOOLEAN
      BY <2>1, TwoProtocols DEF Rows
    <2>4. m \in Letters /\ m.protocol = p /\ m.secret = listed[p].secret /\ m.safe = (Push!Still(p) /\ sure[p])
      BY <2>2, <2>3 DEF Letters
    <2>5. p \in offered
      <3>1. listed[p] # Push!NoSub
        BY <2>1, NoSubFits DEF Active
      <3> QED
        BY <1>1, <3>1 DEF PushSense
    <2>6. ASSUME Push!Still(p), sure[p] PROVE p = "websub" /\ row => secret = 0 \/ listed[p].secret = secret
      <3>1. Untouched(p)
        BY <2>6 DEF Untouched, Push!Still
      <3>2. Fits(p)
        BY <1>1, <2>6, <3>1 DEF PartOf, Fitting
      <3> QED
        BY <2>1, <3>2 DEF Fits
    <2> HIDE DEF m
    <2>7. Mailed(m)
      BY <2>4, <2>6 DEF Mailed
    <2> QED
      BY <2>4, <2>5, <2>7 DEF m
  <1>4. \A m \in mail' : m \in mail \/ (m \in Letters /\ Mailed(m) /\ m.protocol \in offered)
    BY <1>2, <1>3
  <1>5. PushTypes'
    <2>1. news' \in Nat /\ mail' \subseteq Letters
      BY <1>1, <1>2, <1>4 DEF PushTypes
    <2> QED
      BY <1>1, <1>2, <2>1 DEF PushTypes
  <1>6. PushSense'
    <2>1. \A m \in mail' : m.protocol \in offered
      BY <1>1, <1>4 DEF PushSense
    <2> QED
      BY <1>1, <1>2, <2>1 DEF PushSense
  <1>7. Posted'
    <2>1. \A m \in mail' : Mailed(m)
      BY <1>1, <1>4 DEF Posted
    <2>2. ASSUME NEW m, Mailed(m) PROVE Mailed(m)'
      BY <1>2, <2>2 DEF Mailed, Push!Still
    <2> QED
      BY <1>1, <1>2, <2>1, <2>2 DEF Posted
  <1>8. \A p \in Push!Protocols : PartOf(p)'
    BY <1>2, MailPart
  <1> QED
    BY <1>5, <1>6, <1>7, <1>8 DEF PushInv

\* ForgetExpired.
LEMMA ForgetStep ==
  ASSUME PushInv, Push!ForgetExpired
  PROVE  PushInv'
  <1>1. PushTypes /\ PushSense /\ Posted /\ \A p \in Push!Protocols : PartOf(p)
    BY DEF PushInv
  <1>2. /\ listed' = [p \in Push!Protocols |-> IF listed[p].lease < now THEN Push!NoSub ELSE listed[p]]
        /\ UNCHANGED <<now, offered, row, known, intent, until, secret, leaving, duty, asks, checks, mail,
                       clean, sure, missed, next, lost, news>>
    BY DEF Push!ForgetExpired, Push!bob, Push!history, Push!bounds
  <1>3. listed' \in [Push!Protocols -> Rows]
    <2>1. \A p \in Push!Protocols : (IF listed[p].lease < now THEN Push!NoSub ELSE listed[p]) \in Rows
      BY <1>1, NoSubFits DEF PushTypes
    <2> QED
      BY <1>2, <2>1
  <1>4. \A p \in Push!Protocols :
          /\ listed[p].lease < now => listed'[p] = Push!NoSub
          /\ ~(listed[p].lease < now) => listed'[p] = listed[p]
    BY <1>2
  <1>5. PushTypes'
    BY <1>1, <1>2, <1>3 DEF PushTypes
  <1>6. PushSense'
    BY <1>1, <1>2, <1>4 DEF PushSense
  <1>7. Posted'
    BY <1>1, <1>2 DEF Posted, Mailed, Push!Still
  <1>8. ASSUME NEW p \in Push!Protocols PROVE PartOf(p)'
    <2>1. CASE ~(listed[p].lease < now)
      <3>1. SameItems(p) /\ SameFacts(p)
        BY <1>2, <1>4, <2>1 DEF SameItems, SameFacts
      <3>2. lost' \in Nat /\ lost <= lost'
        BY <1>1, <1>2 DEF PushTypes
      <3> QED
        BY <1>1, <1>2, <3>1, <3>2, OtherPart
    <2>2. CASE listed[p].lease < now
      <3>1. listed'[p] = Push!NoSub /\ ~Active(p)'
        BY <1>4, <2>2, NoSubFits DEF Active
      <3>2. Single(p) /\ Staged(p) /\ Fitting(p) /\ Lasting(p)
        BY <1>1 DEF PartOf
      <3>3. now \in Int /\ Lease \in Nat /\ until[p] \in Int /\ listed[p].lease \in Int
        BY <1>1, PushAssumption DEF PushTypes, Rows
      <3>4. listed[p].lease # now + Lease
        BY <2>2, <3>3
      <3>5. Single(p)'
        BY <1>2, <3>2 DEF Single, Push!Still
      <3>6. Staged(p)'
        <4>1. ASSUME NEW a, AskStage(a) PROVE AskStage(a)'
          BY <1>2, <4>1 DEF AskStage
        <4>2. ASSUME NEW c, c.protocol = p, CheckStage(c) PROVE CheckStage(c)'
          BY <1>2, <3>4, <4>2 DEF CheckStage, JoinStage, PartStage, CloudStage
        <4> QED
          BY <1>2, <3>2, <4>1, <4>2 DEF Staged
      <3>7. Fitting(p)'
        <4>1. SUFFICES ASSUME sure[p], Untouched(p)' PROVE Fits(p)'
          BY <1>2 DEF Fitting
        <4>2. Untouched(p)
          BY <1>2, <4>1 DEF Untouched
        <4>3. Fits(p)
          BY <3>2, <4>1, <4>2 DEF Fitting
        <4>4. ~(Push!Holds(p) /\ ~leaving)
          BY <2>2, <3>3, <4>3 DEF Fits, Push!Holds
        <4> QED
          BY <1>2, <3>1, <4>4 DEF Fits, Push!Holds
      <3>8. Lasting(p)'
        BY <1>2, <3>2 DEF Lasting, Push!Still
      <3> QED
        BY <3>5, <3>6, <3>7, <3>8 DEF PartOf
    <2> QED
      BY <2>1, <2>2
  <1> QED
    BY <1>5, <1>6, <1>7, <1>8 DEF PushInv

\* An hour passes.
LEMMA HourStep ==
  ASSUME PushInv, Push!Tick
  PROVE  PushInv'
  <1>1. PushTypes /\ PushSense /\ Posted /\ \A p \in Push!Protocols : PartOf(p)
    BY DEF PushInv
  <1>2. /\ now < MaxTime /\ asks = {} /\ checks = {} /\ mail = {} /\ ~duty /\ ~leaving
        /\ now' = now + 1 /\ duty'
        /\ UNCHANGED <<offered, row, known, intent, until, secret, leaving, asks, checks, listed, mail,
                       clean, sure, missed, next, lost, news>>
    BY DEF Push!Tick, Push!Quiet, Push!history, Push!bounds
  <1>3. now \in Nat /\ MaxTime \in Nat /\ Lease \in Nat /\ RenewAt \in Nat /\ lost \in Nat
        /\ \A p \in Push!Protocols : until[p] \in Int
    BY <1>1, PushAssumption DEF PushTypes
  <1>4. now' \in 0..MaxTime
    BY <1>2, <1>3
  <1>5. PushTypes'
    BY <1>1, <1>2, <1>4 DEF PushTypes
  <1>6. PushSense'
    <2>1. \A p \in Push!Protocols : until[p] <= now' + Lease
      BY <1>1, <1>2, <1>3 DEF PushSense
    <2> QED
      BY <1>1, <1>2, <2>1 DEF PushSense
  <1>7. Posted'
    BY <1>1, <1>2 DEF Posted
  <1>8. ASSUME NEW p \in Push!Protocols PROVE PartOf(p)'
    <2>1. Push!Still(p) /\ Push!Still(p)'
      BY <1>2 DEF Push!Still
    <2>2. Single(p)' /\ Staged(p)'
      BY <1>2, <2>1 DEF Single, Staged
    <2>3. Fitting(p)'
      <3>1. SUFFICES ASSUME sure[p] PROVE Fits(p)'
        BY <1>2 DEF Fitting
      <3>2. Fits(p)
        BY <1>1, <1>2, <3>1 DEF PartOf, Fitting, Untouched
      <3>3. Push!Holds(p)' => Push!Holds(p)
        BY <1>2, <1>3 DEF Push!Holds
      <3>4. Active(p)' <=> Active(p)
        BY <1>2 DEF Active
      <3> QED
        BY <1>2, <3>2, <3>3, <3>4 DEF Fits
    <2>4. Lasting(p)'
      <3>1. SUFFICES ASSUME sure[p], row, until[p] # 0 PROVE until[p] >= (now + 1) + RenewAt - lost - 1
        BY <1>2 DEF Lasting
      <3>2. until[p] >= now + RenewAt - lost - 0
        BY <1>1, <1>2, <2>1, <3>1 DEF PartOf, Lasting
      <3> QED
        BY <1>3, <3>2
    <2> QED
      BY <2>2, <2>3, <2>4 DEF PartOf
  <1> QED
    BY <1>5, <1>6, <1>7, <1>8 DEF PushInv

-----------------------------------------------------------------------------
(* Push as a part of the federation *)

LEMMA PushKept == PushInv /\ Push!Next => PushInv'
  <1> SUFFICES ASSUME PushInv, Push!Next PROVE PushInv'
    OBVIOUS
  <1>1. CASE Push!Subscribe \/ Push!RenewPush \/ Push!PassOver \/ Push!LeaveHub \/ Push!RemoveSource
    BY <1>1, SubscribeStep, RenewStep, PassStep, LeaveStep, RemoveStep
  <1>2. CASE \E a \in asks : Push!HubEndpoint(a) \/ Push!CloudRegister(a) \/ Push!LoseAsk(a)
    BY <1>2, HubStep, CloudStep, LostStep
  <1>3. ASSUME NEW c \in checks,
               \/ Push!VerifyIntent(c) \/ Push!ConfirmRead(c) \/ Push!ConfirmWrite(c) \/ Push!ConfirmClear(c)
               \/ Push!ReadSubscriber(c) \/ Push!VerifySubscriber(c) \/ Push!RegisterCloud(c)
               \/ Push!CutVerifier(c) \/ Push!CutAnswer(c)
        PROVE  PushInv'
    BY <1>3, IntentStep, ReadStep, WriteStep, ClearStep, LookStep, VerifyStep, RegisterStep, StopStep, CutStep
  <1>4. ASSUME NEW m \in mail, Push!AcceptPush(m) \/ Push!LoseMail(m) PROVE PushInv'
    <2>1. CASE Push!AcceptPush(m)
      BY <2>1, AcceptStep
    <2>2. CASE Push!LoseMail(m)
      <3>1. mail' \subseteq mail /\ ~missed'
        BY <2>2 DEF Push!LoseMail, Push!history, PushInv, Posted
      <3> QED
        BY <2>2, <3>1, MailStep DEF Push!LoseMail, Push!bob, Push!history, Push!bounds
    <2> QED
      BY <1>4, <2>1, <2>2
  <1>5. CASE Push!Distribute \/ Push!ForgetExpired \/ Push!Tick
    BY <1>5, DistributeStep, ForgetStep, HourStep
  <1> QED
    BY <1>1, <1>2, <1>3, <1>4, <1>5 DEF Push!Next

PushIInv == part = "push" => PushInv

LEMMA PushIInvInit == Init => PushIInv
  BY PushInit DEF Init, PushIInv

LEMMA PushIInvKept == PushIInv /\ [Next]_all => PushIInv'
  <1> SUFFICES ASSUME PushIInv, [Next]_all, part' = "push" PROVE PushInv'
    BY DEF PushIInv
  <1>1. part = "push" /\ (Push!Next \/ UNCHANGED all)
    BY DEF Next, all
  <1>2. PushInv
    BY <1>1 DEF PushIInv
  <1>3. CASE Push!Next
    BY <1>2, <1>3, PushKept
  <1>4. CASE UNCHANGED all
    <2>1. UNCHANGED <<now, offered, row, known, intent, until, secret, leaving, duty, asks, checks, listed,
                      mail, clean, sure, missed, next, lost, news>>
      BY <1>4 DEF all, OfPush
    <2>2. mail' \subseteq mail /\ ~missed'
      BY <1>2, <2>1 DEF PushInv, Posted
    <2> QED
      BY <1>2, <2>1, <2>2, MailStep
  <1> QED
    BY <1>1, <1>3, <1>4

LEMMA PushIInvHolds == Spec => []PushIInv
  BY PushIInvInit, PushIInvKept, PTL DEF Spec

\* What an exchange that is over leaves behind.
LEMMA StillFits ==
  ASSUME PushInv, NEW p \in Push!Protocols, Push!Still(p), sure[p]
  PROVE  Fits(p)
  <1>1. Untouched(p)
    BY DEF Untouched, Push!Still
  <1> QED
    BY <1>1 DEF PushInv, PartOf, Fitting

LEMMA PushAgrees == PushInv => Push!Agreed
  <1> SUFFICES ASSUME PushInv PROVE Push!Agreed
    OBVIOUS
  <1>1. PushTypes /\ PushSense
    BY DEF PushInv
  <1>2. Push!TypeOK
    BY <1>1 DEF PushTypes, PushSense, Push!TypeOK, Intents, Rows, Modes
  <1>3. ASSUME NEW p \in Push!Protocols, Push!Still(p), sure[p], ~leaving
        PROVE  /\ Push!Holds(p) => Push!Listed(p)
               /\ p = "websub" /\ Push!Holds(p) => listed[p].secret = secret
               /\ p = "websub" /\ ~row => ~Push!Listed(p)
    <2>1. Fits(p)
      BY <1>3, StillFits
    <2>2. until[p] \in Int /\ now \in Int /\ listed[p].lease \in Int
      BY <1>1, PushAssumption DEF PushTypes, Rows
    <2>3. Push!Holds(p) => Push!Listed(p)
      BY <1>3, <2>1, <2>2 DEF Fits, Active, Push!Holds, Push!Listed
    <2> QED
      BY <1>3, <2>1, <2>3 DEF Fits, Active, Push!Listed
  <1> QED
    BY <1>2, <1>3 DEF Push!Agreed

LEMMA LeasesAreKept == PushInv => Push!LeaseKept
  <1> SUFFICES ASSUME PushInv, lost <= RenewAt - 2, Push!Quiet, ~duty, row,
                      NEW p \in Push!Protocols, sure[p], until[p] # 0
               PROVE  until[p] > now
    BY DEF Push!LeaseKept
  <1>1. Push!Still(p)
    BY DEF Push!Quiet, Push!Still
  <1>2. until[p] >= now + RenewAt - lost - 0
    BY <1>1 DEF PushInv, PartOf, Lasting
  <1>3. until[p] \in Int /\ now \in Int /\ lost \in Int /\ RenewAt \in Int
    BY PushAssumption DEF PushInv, PushTypes
  <1> QED
    BY <1>2, <1>3

\* After an exchange that ran alone and whole, follower and hub agree: a lease
\* the follower counts on is listed with the secret it will check, and a
\* follower that left is not listed (internal/push, internal/web/push.go).
THEOREM BothSidesAgree == Spec => []Agreed
  <1>1. PushIInv => Agreed
    BY PushAgrees DEF PushIInv, Agreed
  <1> QED
    BY <1>1, PushIInvHolds, PTL

\* A delivery that met no exchange on its way is stored (internal/web/push.go,
\* acceptPush; internal/push/subscriber.go, CheckSignature).
THEOREM NothingIsMissed == Spec => []NothingMissed
  <1>1. PushIInv => NothingMissed
    BY DEF PushIInv, PushInv, Posted, NothingMissed, Push!NothingMissed
  <1> QED
    BY <1>1, PushIInvHolds, PTL

\* A confirmed lease does not run out while the source stays, unless RenewAt - 1
\* renewals or more come to nothing: requests that are lost, and upkeeps that
\* pass it over because more leases are due than DueForRenewal's limit
\* (internal/push/subscriber.go, internal/web/subscribe_push.go).
THEOREM LeasesLast == Spec => []LeaseKept
  <1>1. PushIInv => LeaseKept
    BY LeasesAreKept DEF PushIInv, LeaseKept
  <1> QED
    BY <1>1, PushIInvHolds, PTL

=============================================================================
