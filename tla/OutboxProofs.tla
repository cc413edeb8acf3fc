---------------------------- MODULE OutboxProofs ----------------------------
(***************************************************************************)
(* What publishing promises (Outbox, as a part of Federation), for every   *)
(* number of posts, handlers, inboxes, attempts and crashes.               *)
(*                                                                         *)
(*  - IInv.  A handler decides by the copy of the row it read, a job by    *)
(*    the handler that queued it, and the far side hears what the job      *)
(*    carries.  Nothing private leaves because the visibility of a row     *)
(*    never changes and a copy is only made of a row that is there.        *)
(*  - LedgerInv.  The attempt under way knows what the ledger has of it, or *)
(*    its job is one of those with a line missing.                         *)
(*  - GuidInv.  One row without a guid holds the next one back.            *)
(*  - FanInv.  Of a post no two handlers work on, the handler's copy is    *)
(*    the row, and whoever it has not queued yet is in its todo, over the  *)
(*    ceiling or lost to a failed statement.                               *)
(***************************************************************************)
EXTENDS Federation, FiniteSetTheorems, TLAPS

Row == [row : BOOLEAN, guid : BOOLEAN, vis : Visibilities \cup {"public"},
        answers : Answers \cup {"nothing"}, text : Nat, stamp : 0..MaxStamp, gone : BOOLEAN]
Stages == {"idle", "guid", "project", "refresh", "fan", "edit", "withdraw", "queue", "mention"}
Handler == [pc : Stages, p : Posts \cup {0}, copy : Row, kind : {"create", "update", "delete"},
            todo : SUBSET Inboxes]

Shape ==
  /\ post \in [Posts -> Row]
  /\ req \in [Requests -> Handler]
  /\ observed \in [Posts -> SUBSET [stamp : Int, text : Int]]
  /\ followers \subseteq Inboxes

\* A handler's copy has the visibility of the row, and it only fans out what
\* federates.
Faithful(q) ==
  q.pc # "idle" =>
    /\ q.p \in Posts /\ post[q.p].row /\ q.copy.vis = post[q.p].vis
    /\ q.todo # {} => q.copy.vis # "private"

Delivery == [inbox : Inboxes \cup {Web}, post : Posts, kind : {"create", "update", "delete", "mention"},
             stamp : 0..MaxStamp, text : Nat, attempts : Nat, state : {"live", "done", "dead"}]
Run == [inbox : Inboxes \cup {Web}, job : Delivery, outcome : {"none", "ok", "failed", "gaveup", "rejected"}]

\* A job is about a row that may leave.
Lawful(j) ==
  /\ j \in Delivery
  /\ j.post \in Posts /\ post[j.post].row /\ post[j.post].vis # "private"
  /\ j.kind = "mention" => post[j.post].vis = "public"

Carrying(h) == h \in Run /\ Lawful(h.job)

Heard(h) == h.post \in Posts /\ post[h.post].row /\ post[h.post].vis # "private"

Seen(p) == observed[p] # {} => post[p].row /\ post[p].vis = "public"

IInv ==
  /\ Shape
  /\ \A r \in Requests : Faithful(req[r])
  /\ \A j \in jobs : Lawful(j)
  /\ held # Outbox!None => Carrying(held)
  /\ \A h \in heard : Heard(h)
  /\ \A p \in Posts : Seen(p)

\* What no step does: it drops no row and changes no visibility.
VisKept == \A p \in Posts : post[p].row => post'[p].row /\ post'[p].vis = post[p].vis

LEMMA NoPostRow == Outbox!NoPost \in Row
BY OutboxAssumption DEF Outbox!NoPost, Row

LEMMA IdleHandler == Outbox!Idle \in Handler /\ Outbox!Idle.pc = "idle"
BY NoPostRow DEF Outbox!Idle, Handler, Stages

LEMMA InitHolds ==
  ASSUME Outbox!Init
  PROVE  IInv
<1>1. post \in [Posts -> Row] /\ req \in [Requests -> Handler]
  BY NoPostRow, IdleHandler DEF Outbox!Init
<1>2. \A r \in Requests : Faithful(req[r])
  BY IdleHandler DEF Outbox!Init, Faithful
<1>3. QED
  BY <1>1, <1>2 DEF Outbox!Init, IInv, Shape, Seen

\* Enough for a step to keep the invariant: what it leaves alone stays lawful.
LEMMA Stays ==
  ASSUME IInv, Shape', VisKept,
         \A r \in Requests : req'[r] = req[r] \/ Faithful(req[r])',
         \A j \in jobs' : j \in jobs \/ Lawful(j)',
         held' = Outbox!None \/ held' = held \/ Carrying(held)',
         \A h \in heard' : h \in heard \/ Heard(h)',
         \A p \in Posts : observed'[p] = observed[p] \/ Seen(p)'
  PROVE  IInv'
<1>1. \A r \in Requests : Faithful(req[r])'
  <2>1. TAKE r \in Requests
  <2>2. CASE req'[r] = req[r]
    BY <2>2 DEF IInv, Shape, VisKept, Faithful, Handler, Row
  <2>3. QED
    BY <2>2
<1>2. \A j : Lawful(j) => Lawful(j)'
  BY DEF Lawful, VisKept
<1>3. \A j \in jobs' : Lawful(j)'
  BY <1>2 DEF IInv
<1>4. (held # Outbox!None => Carrying(held))'
  BY <1>2 DEF IInv, Carrying
<1>5. \A h \in heard' : Heard(h)'
  BY DEF IInv, Heard, VisKept
<1>6. \A p \in Posts : Seen(p)'
  BY DEF IInv, Seen, VisKept
<1>7. QED
  BY <1>1, <1>3, <1>4, <1>5, <1>6 DEF IInv

-----------------------------------------------------------------------------
(* The handlers, one lemma per step *)

\* What most of them do: one handler goes on with a faithful record, and post
\* keeps its visibilities.
LEMMA HandlerStep ==
  ASSUME IInv, NEW r \in Requests, NEW q \in Handler, req' = [req EXCEPT ![r] = q],
         post' \in [Posts -> Row], VisKept, Faithful(req[r])',
         observed' \in [Posts -> SUBSET [stamp : Int, text : Int]],
         \A p \in Posts : observed'[p] = observed[p] \/ Seen(p)',
         \A j \in jobs' : j \in jobs \/ Lawful(j)',
         UNCHANGED <<followers, held, heard>>
  PROVE  IInv'
<1>1. Shape'
  BY DEF IInv, Shape
<1>2. \A s \in Requests : req'[s] = req[s] \/ Faithful(req[s])'
  <2>1. TAKE s \in Requests
  <2>2. CASE s = r
    BY <2>2
  <2>3. CASE s # r
    BY <2>3 DEF IInv, Shape
  <2>4. QED
    BY <2>2, <2>3
<1>3. held' = Outbox!None \/ held' = held \/ Carrying(held)'
  OBVIOUS
<1>4. QED
  BY <1>1, <1>2, <1>3, Stays

LEMMA Created ==
  ASSUME IInv, NEW r \in Requests, NEW p \in Posts, NEW vis \in Visibilities \cup {"public"}, NEW a \in Answers,
         Outbox!CreateVisible(r, p, vis, a)
  PROVE  IInv'
<1> DEFINE n1 == [Outbox!NoPost EXCEPT !.row = TRUE]
           n2 == [n1 EXCEPT !.vis = vis]
           n3 == [n2 EXCEPT !.answers = a]
           new == [n3 EXCEPT !.text = 1]
           whole == [new EXCEPT !.guid = TRUE]
           q == [pc |-> "guid", p |-> p, copy |-> whole, kind |-> "create", todo |-> {}]
<1>1. /\ new \in Row /\ new.row /\ new.vis = vis
      /\ whole \in Row /\ whole.vis = vis
  <2>1. n1 \in Row /\ n1.row
    BY NoPostRow DEF Row
  <2> HIDE DEF n1
  <2>2. n2 \in Row /\ n2.row /\ n2.vis = vis
    BY <2>1 DEF Row
  <2> HIDE DEF n2
  <2>3. n3 \in Row /\ n3.row /\ n3.vis = vis
    BY <2>2 DEF Row
  <2> HIDE DEF n3
  <2>4. new \in Row /\ new.row /\ new.vis = vis
    BY <2>3 DEF Row
  <2> HIDE DEF new
  <2>5. whole \in Row /\ whole.vis = vis
    BY <2>4 DEF Row
  <2>6. QED
    BY <2>4, <2>5
<1>2. /\ ~post[p].row
      /\ req' = [req EXCEPT ![r] = q]
      /\ post' = [post EXCEPT ![p] = new]
      /\ UNCHANGED <<observed, followers, jobs, held, heard>>
  BY DEF Outbox!CreateVisible, Outbox!Start
<1> HIDE DEF new, whole
<1>3. q \in Handler /\ q.p = p /\ q.copy = whole /\ q.todo = {}
  BY <1>1 DEF Handler, Stages
<1> HIDE DEF q
<1>4. post' \in [Posts -> Row] /\ VisKept
  BY <1>1, <1>2 DEF IInv, Shape, VisKept
<1>5. req'[r] = q /\ post'[p] = new
  BY <1>2 DEF IInv, Shape
<1>6. Faithful(req[r])'
  BY <1>1, <1>3, <1>5 DEF Faithful
<1>7. QED
  BY <1>2, <1>3, <1>4, <1>6, HandlerStep DEF IInv, Shape

\* The statements that change a row that is there.
LEMMA RowChanged ==
  ASSUME IInv, NEW p \in Posts, NEW x \in Row, post' = [post EXCEPT ![p] = x],
         post[p].row => x.row /\ x.vis = post[p].vis
  PROVE  post' \in [Posts -> Row] /\ VisKept /\ post'[p] = x
BY DEF IInv, Shape, VisKept

\* A handler whose row and copy keep their visibility stays faithful.
LEMMA StaysFaithful ==
  ASSUME IInv, VisKept, NEW r \in Requests, NEW q \in Handler, req' = [req EXCEPT ![r] = q],
         req[r].pc # "idle", q.p = req[r].p, q.copy.vis = req[r].copy.vis,
         q.todo \subseteq req[r].todo \/ q.copy.vis # "private"
  PROVE  Faithful(req[r])'
<1>1. req'[r] = q
  BY DEF IInv, Shape
<1>2. Faithful(req[r])
  BY DEF IInv
<1>3. q.todo # {} => q.copy.vis # "private"
  BY <1>2 DEF Faithful
<1>4. q.p \in Posts /\ post'[q.p].row /\ q.copy.vis = post'[q.p].vis
  BY <1>2 DEF Faithful, VisKept
<1>5. QED
  BY <1>1, <1>3, <1>4 DEF Faithful

\* A handler that begins reads the row as it is.
LEMMA Began ==
  ASSUME IInv, NEW r \in Requests, NEW p \in Posts, post[p].row,
         Outbox!BeginEdit(r, p) \/ Outbox!BeginWithdraw(r, p)
  PROVE  IInv'
<1>1. PICK pc \in {"edit", "withdraw"}, kind \in {"update", "delete"} :
        req' = [req EXCEPT ![r] = [pc |-> pc, p |-> p, copy |-> post[p], kind |-> kind, todo |-> {}]]
  BY DEF Outbox!BeginEdit, Outbox!BeginWithdraw, Outbox!Start
<1> DEFINE q == [pc |-> pc, p |-> p, copy |-> post[p], kind |-> kind, todo |-> {}]
<1>2. UNCHANGED <<post, observed, followers, jobs, held, heard>>
  BY DEF Outbox!BeginEdit, Outbox!BeginWithdraw
<1>3. q \in Handler /\ q.p = p /\ q.copy = post[p] /\ q.todo = {}
  BY DEF IInv, Shape, Handler, Stages
<1>4. req' = [req EXCEPT ![r] = q] /\ req'[r] = q
  BY <1>1 DEF IInv, Shape
<1> HIDE DEF q
<1>5. VisKept
  BY <1>2 DEF VisKept
<1>6. Faithful(req[r])'
  BY <1>2, <1>3, <1>4 DEF Faithful
<1>7. QED
  BY <1>2, <1>3, <1>4, <1>5, <1>6, HandlerStep DEF IInv, Shape

LEMMA GuidSet ==
  ASSUME IInv, NEW r \in Requests, Outbox!SetGuid(r)
  PROVE  IInv'
<1> DEFINE p == req[r].p
           x == [post[p] EXCEPT !.guid = TRUE]
           q == [req[r] EXCEPT !.pc = "project"]
<1>1. req[r] \in Handler /\ req[r].pc # "idle" /\ p \in Posts /\ post[p] \in Row
  BY DEF IInv, Shape, Outbox!SetGuid, Faithful
<1>2. x \in Row /\ x.row = post[p].row /\ x.vis = post[p].vis
  BY <1>1 DEF Row
<1>3. q \in Handler /\ q.p = req[r].p /\ q.copy = req[r].copy /\ q.todo = req[r].todo
  BY <1>1 DEF Handler, Stages
<1>4. /\ post' = [post EXCEPT ![p] = x] /\ req' = [req EXCEPT ![r] = q]
      /\ UNCHANGED <<observed, followers, jobs, held, heard>>
  BY DEF Outbox!SetGuid, Outbox!Goto
<1> HIDE DEF p, x, q
<1>5. post' \in [Posts -> Row] /\ VisKept
  BY <1>1, <1>2, <1>4, RowChanged
<1>6. Faithful(req[r])'
  BY <1>1, <1>3, <1>4, <1>5, StaysFaithful DEF p
<1>7. QED
  BY <1>3, <1>4, <1>5, <1>6, HandlerStep DEF IInv, Shape

LEMMA Updated ==
  ASSUME IInv, NEW r \in Requests, Outbox!Update(r)
  PROVE  IInv'
<1> DEFINE p == req[r].p
<1>1. req[r] \in Handler /\ req[r].pc # "idle" /\ p \in Posts /\ post[p] \in Row
      /\ req[r].copy.vis = post[p].vis /\ req[r].copy.stamp \in 0..MaxStamp
  BY DEF IInv, Shape, Outbox!Update, Faithful, Handler, Row
<1> DEFINE x1 == [post[p] EXCEPT !.text = @ + 1]
           edited(s) == [post[p] EXCEPT !.text = @ + 1, !.stamp = s]
<1>2. PICK s \in (req[r].copy.stamp + 1)..MaxStamp :
        /\ post' = [post EXCEPT ![p] = edited(s)]
        /\ req' = [req EXCEPT ![r].pc = "project", ![r].copy = edited(s)]
  BY DEF Outbox!Update
<1> DEFINE x == edited(s)
           q1 == [req[r] EXCEPT !.pc = "project"]
           q == [q1 EXCEPT !.copy = x]
<1>3. s \in 0..MaxStamp
  BY <1>1, <1>2, OutboxAssumption
<1>4. x1 \in Row /\ x1.row = post[p].row /\ x1.vis = post[p].vis
  BY <1>1 DEF Row
<1>5. x = [x1 EXCEPT !.stamp = s]
  OBVIOUS
<1>6. req' = [req EXCEPT ![r] = q] /\ post' = [post EXCEPT ![p] = x]
  BY <1>1, <1>2 DEF IInv, Shape
<1> HIDE DEF x1, x
<1>7. x \in Row /\ x.row = post[p].row /\ x.vis = post[p].vis
  BY <1>3, <1>4, <1>5 DEF Row
<1>8. q1 \in Handler /\ q1.p = p /\ q1.todo = req[r].todo
  BY <1>1 DEF Handler, Stages
<1> HIDE DEF q1
<1>9. q \in Handler /\ q.p = p /\ q.copy = x /\ q.todo = req[r].todo
  BY <1>7, <1>8 DEF Handler
<1>10. UNCHANGED <<observed, followers, jobs, held, heard>>
  BY DEF Outbox!Update
<1> HIDE DEF q
<1>11. post' \in [Posts -> Row] /\ VisKept
  BY <1>1, <1>6, <1>7, RowChanged
<1>12. Faithful(req[r])'
  BY <1>1, <1>6, <1>7, <1>9, <1>11, StaysFaithful
<1>13. QED
  BY <1>6, <1>9, <1>10, <1>11, <1>12, HandlerStep DEF IInv, Shape

LEMMA Deleted ==
  ASSUME IInv, NEW r \in Requests, Outbox!Delete(r)
  PROVE  IInv'
<1> DEFINE p == req[r].p
           x == [post[p] EXCEPT !.gone = TRUE]
           c == [req[r].copy EXCEPT !.gone = TRUE]
           q1 == [req[r] EXCEPT !.pc = "fan"]
           q == [q1 EXCEPT !.copy = c]
<1>1. req[r] \in Handler /\ req[r].pc # "idle" /\ p \in Posts /\ post[p] \in Row /\ req[r].copy \in Row
  BY DEF IInv, Shape, Outbox!Delete, Faithful, Handler
<1>2. x \in Row /\ x.row = post[p].row /\ x.vis = post[p].vis
  BY <1>1 DEF Row
<1>3. c \in Row /\ c.vis = req[r].copy.vis
  BY <1>1 DEF Row
<1>4. q1 \in Handler /\ q1.p = p /\ q1.todo = req[r].todo /\ q1.copy = req[r].copy
  BY <1>1 DEF Handler, Stages
<1>5. /\ post' = [post EXCEPT ![p] = x]
      /\ req' = [req EXCEPT ![r] = q]
      /\ UNCHANGED <<observed, followers, jobs, held, heard>>
  BY <1>1 DEF Outbox!Delete, IInv, Shape
<1> HIDE DEF x, c, q1
<1>6. q \in Handler /\ q.p = p /\ q.copy = c /\ q.todo = req[r].todo
  BY <1>3, <1>4 DEF Handler
<1> HIDE DEF q
<1>7. post' \in [Posts -> Row] /\ VisKept
  BY <1>1, <1>2, <1>5, RowChanged
<1>8. Faithful(req[r])'
  BY <1>1, <1>3, <1>5, <1>6, <1>7, StaysFaithful
<1>9. QED
  BY <1>5, <1>6, <1>7, <1>8, HandlerStep DEF IInv, Shape

\* The statements that leave the table of posts alone.
LEMMA Moved ==
  ASSUME IInv, NEW r \in Requests, NEW q \in Handler, req' = [req EXCEPT ![r] = q],
         q.pc = "idle" \/ (/\ req[r].pc # "idle" /\ q.p = req[r].p /\ q.copy.vis = req[r].copy.vis
                           /\ q.todo \subseteq req[r].todo \/ q.copy.vis # "private"),
         observed' \in [Posts -> SUBSET [stamp : Int, text : Int]],
         \A p \in Posts : observed'[p] = observed[p] \/ Seen(p)',
         \A j \in jobs' : j \in jobs \/ Lawful(j)',
         UNCHANGED <<post, followers, held, heard>>
  PROVE  IInv'
<1>1. VisKept
  BY DEF VisKept
<1>2. req'[r] = q
  BY DEF IInv, Shape
<1>3. Faithful(req[r])'
  <2>1. CASE q.pc = "idle"
    BY <1>2, <2>1 DEF Faithful
  <2>2. CASE q.pc # "idle"
    BY <1>1, <2>2, StaysFaithful
  <2>3. QED
    BY <2>1, <2>2
<1>4. QED
  BY <1>1, <1>3, HandlerStep DEF IInv, Shape

\* Only what is public becomes an observation.
LEMMA ProjectedSeen ==
  ASSUME IInv, NEW p \in Posts, NEW copy \in Row, post[p].row, copy.vis = post[p].vis, post' = post,
         observed' = Outbox!Projected(p, copy)
  PROVE  /\ observed' \in [Posts -> SUBSET [stamp : Int, text : Int]]
         /\ \A t \in Posts : observed'[t] = observed[t] \/ Seen(t)'
<1>1. [stamp |-> copy.stamp, text |-> copy.text] \in [stamp : Int, text : Int]
  BY DEF Row
<1>2. CASE Outbox!Public(copy)
  <2>1. observed' = [observed EXCEPT ![p] = @ \cup {[stamp |-> copy.stamp, text |-> copy.text]}]
    BY <1>2 DEF Outbox!Projected
  <2>2. observed' \in [Posts -> SUBSET [stamp : Int, text : Int]]
    BY <1>1, <2>1 DEF IInv, Shape
  <2>3. Seen(p)'
    BY <1>2 DEF Seen, Outbox!Public
  <2>4. \A t \in Posts : t # p => observed'[t] = observed[t]
    BY <2>1 DEF IInv, Shape
  <2>5. QED
    BY <2>2, <2>3, <2>4
<1>3. CASE ~Outbox!Public(copy)
  BY <1>3 DEF Outbox!Projected, IInv, Shape
<1>4. QED
  BY <1>2, <1>3

LEMMA ProjectKeeps ==
  ASSUME IInv, NEW r \in Requests, Outbox!Project(r)
  PROVE  IInv'
<1> DEFINE p == req[r].p
           q == [req[r] EXCEPT !.pc = IF req[r].kind = "create" THEN "refresh" ELSE "fan"]
<1>1. /\ req[r] \in Handler /\ req[r].pc # "idle" /\ p \in Posts /\ post[p].row
      /\ req[r].copy \in Row /\ req[r].copy.vis = post[p].vis
  BY DEF IInv, Shape, Outbox!Project, Faithful, Handler
<1>2. q \in Handler /\ q.p = p /\ q.copy = req[r].copy /\ q.todo = req[r].todo
  BY <1>1 DEF Handler, Stages
<1>3. /\ req' = [req EXCEPT ![r] = q] /\ observed' = Outbox!Projected(p, req[r].copy)
      /\ UNCHANGED <<post, followers, jobs, held, heard>>
  BY DEF Outbox!Project, Outbox!Goto
<1> HIDE DEF q
<1>4. /\ observed' \in [Posts -> SUBSET [stamp : Int, text : Int]]
      /\ \A t \in Posts : observed'[t] = observed[t] \/ Seen(t)'
  BY <1>1, <1>3, ProjectedSeen
<1>5. QED
  BY <1>1, <1>2, <1>3, <1>4, Moved

LEMMA RefreshKeeps ==
  ASSUME IInv, NEW r \in Requests, Outbox!RefreshProjection(r)
  PROVE  IInv'
<1> DEFINE p == req[r].p
           q1 == [req[r] EXCEPT !.pc = "fan"]
           q == [q1 EXCEPT !.copy = post[p]]
<1>1. /\ req[r] \in Handler /\ req[r].pc # "idle" /\ p \in Posts /\ post[p].row
      /\ post[p] \in Row /\ req[r].copy.vis = post[p].vis
      /\ UNCHANGED <<post, followers, jobs, held, heard>>
  BY DEF IInv, Shape, Outbox!RefreshProjection, Faithful, Handler
<1>2. q1 \in Handler /\ q1.p = p /\ q1.copy = req[r].copy /\ q1.todo = req[r].todo
  BY <1>1 DEF Handler, Stages
<1>3. \/ observed' = Outbox!Projected(p, post[p]) /\ req' = [req EXCEPT ![r] = q]
      \/ observed' = observed /\ req' = [req EXCEPT ![r] = q1]
  BY <1>1 DEF Outbox!RefreshProjection, Outbox!Goto, IInv, Shape
<1> HIDE DEF q1
<1>4. q \in Handler /\ q.p = p /\ q.copy = post[p] /\ q.todo = req[r].todo
  BY <1>1, <1>2 DEF Handler
<1> HIDE DEF q
<1>5. CASE observed' = Outbox!Projected(p, post[p]) /\ req' = [req EXCEPT ![r] = q]
  <2>1. /\ observed' \in [Posts -> SUBSET [stamp : Int, text : Int]]
        /\ \A t \in Posts : observed'[t] = observed[t] \/ Seen(t)'
    BY <1>1, <1>5, ProjectedSeen
  <2>2. QED
    BY <1>1, <1>4, <1>5, <2>1, Moved
<1>6. CASE observed' = observed /\ req' = [req EXCEPT ![r] = q1]
  BY <1>1, <1>2, <1>6, Moved DEF IInv, Shape
<1>7. QED
  BY <1>3, <1>5, <1>6

LEMMA BroadcastKeeps ==
  ASSUME IInv, NEW r \in Requests, Outbox!Broadcast(r)
  PROVE  IInv'
<1> DEFINE to == IF Outbox!Federates(req[r].copy) THEN followers ELSE {}
<1>1. /\ req[r] \in Handler /\ req[r].pc # "idle"
      /\ UNCHANGED <<post, observed, followers, jobs, held, heard>>
  BY DEF IInv, Shape, Outbox!Broadcast
<1>2. PICK some \in SUBSET to : req' = [req EXCEPT ![r].pc = "queue", ![r].todo = some]
  BY {} \in SUBSET to DEF Outbox!Broadcast
<1> DEFINE q1 == [req[r] EXCEPT !.pc = "queue"]
           q == [q1 EXCEPT !.todo = some]
<1>3. req' = [req EXCEPT ![r] = q]
  BY <1>2 DEF IInv, Shape
<1>4. q1 \in Handler /\ q1.p = req[r].p /\ q1.copy = req[r].copy
  BY <1>1 DEF Handler, Stages
<1>5. some \subseteq Inboxes /\ (req[r].copy.vis = "private" => some = {})
  BY DEF Outbox!Federates, IInv, Shape
<1> HIDE DEF q1
<1>6. q \in Handler /\ q.p = req[r].p /\ q.copy = req[r].copy /\ q.todo = some
  BY <1>4, <1>5 DEF Handler
<1> HIDE DEF q, to
<1>7. QED
  BY <1>1, <1>3, <1>5, <1>6, Moved DEF IInv, Shape

\* What a handler of a row that may leave queues is lawful.
LEMMA QueuesLawful ==
  ASSUME IInv, NEW r \in Requests, req[r].pc # "idle", NEW i \in Inboxes \cup {Web},
         NEW kind \in {"create", "update", "delete", "mention"}, post' = post,
         req[r].copy.vis # "private", kind = "mention" => req[r].copy.vis = "public",
         jobs' = Outbox!Enqueued(Outbox!Activity(i, req[r], kind))
  PROVE  \A j \in jobs' : j \in jobs \/ Lawful(j)'
<1>1. /\ req[r] \in Handler /\ req[r].p \in Posts /\ post[req[r].p].row
      /\ req[r].copy \in Row /\ req[r].copy.vis = post[req[r].p].vis
  BY DEF IInv, Shape, Faithful, Handler
<1>2. req[r].copy.stamp \in 0..MaxStamp /\ req[r].copy.text \in Nat
  BY <1>1 DEF Row
<1>3. PICK a : a = Outbox!Activity(i, req[r], kind)
  OBVIOUS
<1>4. a \in Delivery /\ a.post = req[r].p /\ a.kind = kind
  BY <1>1, <1>2, <1>3, OutboxAssumption DEF Outbox!Activity, Delivery
<1>5. jobs' \subseteq jobs \cup {a}
  BY <1>3 DEF Outbox!Enqueued
<1>6. Lawful(a)'
  BY <1>1, <1>4 DEF Lawful
<1>7. QED
  BY <1>5, <1>6

LEMMA QueueKeeps ==
  ASSUME IInv, NEW r \in Requests, Outbox!EnqueueOne(r)
  PROVE  IInv'
<1>1. /\ req[r] \in Handler /\ req[r].pc # "idle"
      /\ UNCHANGED <<post, observed, followers, held, heard>>
  BY DEF IInv, Shape, Outbox!EnqueueOne
<1>2. PICK i \in req[r].todo :
        /\ jobs' = Outbox!Enqueued(Outbox!Activity(i, req[r], req[r].kind)) \/ jobs' = jobs
        /\ req' = [req EXCEPT ![r].todo = @ \ {i}]
  BY DEF Outbox!EnqueueOne
<1> DEFINE q == [req[r] EXCEPT !.todo = @ \ {i}]
<1>3. q \in Handler /\ q.p = req[r].p /\ q.copy = req[r].copy /\ q.todo \subseteq req[r].todo
  BY <1>1 DEF Handler
<1>4. req' = [req EXCEPT ![r] = q]
  BY <1>2
<1> HIDE DEF q
<1>5. req[r].copy.vis # "private" /\ i \in Inboxes /\ req[r].kind \in {"create", "update", "delete"}
  BY <1>1, <1>2 DEF IInv, Faithful, Handler
<1>6. \A j \in jobs' : j \in jobs \/ Lawful(j)'
  BY <1>1, <1>2, <1>5, QueuesLawful
<1>7. QED
  BY <1>1, <1>3, <1>4, <1>6, Moved DEF IInv, Shape

LEMMA ReplyKeeps ==
  ASSUME IInv, NEW r \in Requests, Outbox!ReplyAbroad(r)
  PROVE  IInv'
<1> DEFINE q == [req[r] EXCEPT !.pc = "mention"]
<1>1. /\ req[r] \in Handler /\ req[r].pc # "idle" /\ req' = [req EXCEPT ![r] = q]
      /\ UNCHANGED <<post, observed, followers, held, heard>>
  BY DEF IInv, Shape, Outbox!ReplyAbroad, Outbox!Goto
<1>2. q \in Handler /\ q.p = req[r].p /\ q.copy = req[r].copy /\ q.todo = req[r].todo
  BY <1>1 DEF Handler, Stages
<1> HIDE DEF q
<1>3. jobs' = jobs \/ (Outbox!Federates(req[r].copy) /\ jobs' = Outbox!Enqueued(Outbox!Activity(Abroad, req[r], "create")))
  BY DEF Outbox!ReplyAbroad
<1>4. \A j \in jobs' : j \in jobs \/ Lawful(j)'
  <2>1. CASE jobs' = jobs
    BY <2>1
  <2>2. CASE Outbox!Federates(req[r].copy) /\ jobs' = Outbox!Enqueued(Outbox!Activity(Abroad, req[r], "create"))
    BY <1>1, <2>2, QueuesLawful, OutboxAssumption DEF Outbox!Federates
  <2>3. QED
    BY <1>3, <2>1, <2>2
<1>5. QED
  BY <1>1, <1>2, <1>4, Moved DEF IInv, Shape

\* The end of a handler, whole or half way.
LEMMA FinishKeeps ==
  ASSUME IInv, NEW r \in Requests, Outbox!AfterPublish(r) \/ Outbox!AfterEdit(r) \/ Outbox!Fail(r)
  PROVE  IInv'
<1>1. /\ req' = [req EXCEPT ![r] = Outbox!Idle] /\ req[r].pc # "idle"
      /\ UNCHANGED <<post, observed, followers, held, heard>>
  BY DEF Outbox!AfterPublish, Outbox!AfterEdit, Outbox!Fail, Outbox!Finish
<1>2. jobs' = jobs \/ (Outbox!Public(req[r].copy) /\ jobs' = Outbox!Enqueued(Outbox!Activity(Web, req[r], "mention")))
  BY DEF Outbox!AfterPublish, Outbox!AfterEdit, Outbox!Fail
<1>3. \A j \in jobs' : j \in jobs \/ Lawful(j)'
  <2>1. CASE jobs' = jobs
    BY <2>1
  <2>2. CASE Outbox!Public(req[r].copy) /\ jobs' = Outbox!Enqueued(Outbox!Activity(Web, req[r], "mention"))
    BY <1>1, <2>2, QueuesLawful DEF Outbox!Public
  <2>3. QED
    BY <1>2, <2>1, <2>2
<1>4. QED
  BY <1>1, <1>3, IdleHandler, Moved DEF IInv, Shape

-----------------------------------------------------------------------------
(* The process and the delivery worker *)

LEMMA CrashKeeps ==
  ASSUME IInv, Outbox!Crash
  PROVE  IInv'
<1>1. /\ req' = [r \in Requests |-> Outbox!Idle] /\ held' = Outbox!None
      /\ UNCHANGED <<post, observed, followers, jobs, heard>>
  BY DEF Outbox!Crash
<1>2. Shape' /\ VisKept
  BY <1>1, IdleHandler DEF IInv, Shape, VisKept
<1>3. \A r \in Requests : Faithful(req[r])'
  BY <1>1, IdleHandler DEF Faithful
<1>4. QED
  BY <1>1, <1>2, <1>3, Stays

LEMMA FollowKeeps ==
  ASSUME IInv, NEW i \in Inboxes, Outbox!Follow(i)
  PROVE  IInv'
<1>1. UNCHANGED <<post, observed, req, jobs, held, heard>> /\ followers' \subseteq Inboxes
  BY DEF Outbox!Follow, IInv, Shape
<1>2. Shape' /\ VisKept
  BY <1>1 DEF IInv, Shape, VisKept
<1>3. QED
  BY <1>1, <1>2, Stays

LEMMA WorkerKeeps ==
  ASSUME IInv, \/ Outbox!Claim \/ Outbox!Deliver \/ Outbox!Refuse
               \/ Outbox!NoKey \/ Outbox!Once \/ Outbox!Retry
  PROVE  IInv'
<1>1. UNCHANGED <<post, observed, req, followers>>
  BY DEF Outbox!Claim, Outbox!Deliver, Outbox!Refuse, Outbox!NoKey, Outbox!Once, Outbox!Retry, Outbox!Record
<1>2. Shape' /\ VisKept
  BY <1>1 DEF IInv, Shape, VisKept
<1>3. \A j : Lawful(j) => Lawful(j)'
  BY <1>1 DEF Lawful
<1>4. CASE Outbox!Claim
  <2>1. PICK j \in jobs : /\ jobs' = (jobs \ {j}) \cup {[j EXCEPT !.attempts = @ + 1]}
                          /\ held' = [inbox |-> j.inbox, job |-> [j EXCEPT !.attempts = @ + 1], outcome |-> "none"]
    BY <1>4 DEF Outbox!Claim
  <2> DEFINE mine == [j EXCEPT !.attempts = @ + 1]
  <2>2. Lawful(j)
    BY DEF IInv
  <2>3. mine \in Delivery /\ mine.post = j.post /\ mine.kind = j.kind /\ j.inbox \in Inboxes \cup {Web}
    BY <2>2 DEF Lawful, Delivery
  <2>4. jobs' = (jobs \ {j}) \cup {mine} /\ held' = [inbox |-> j.inbox, job |-> mine, outcome |-> "none"]
    BY <2>1
  <2> HIDE DEF mine
  <2>5. Lawful(mine)
    BY <2>2, <2>3 DEF Lawful
  <2>6. held' \in Run /\ held'.job = mine
    BY <2>3, <2>4 DEF Run
  <2>7. Carrying(held)'
    BY <1>1, <2>5, <2>6 DEF Carrying, Lawful
  <2>8. \A k \in jobs' : k \in jobs \/ Lawful(k)'
    <3>1. TAKE k \in jobs'
    <3>2. CASE k = mine
      BY <1>3, <2>5, <3>2
    <3>3. QED
      BY <2>4, <3>2
  <2>9. heard' = heard
    BY <1>4 DEF Outbox!Claim
  <2>10. QED
    BY <1>1, <1>2, <2>7, <2>8, <2>9, Stays
<1>5. ASSUME held # Outbox!None, NEW o \in {"ok", "failed", "gaveup", "rejected"}, held' = [held EXCEPT !.outcome = o]
      PROVE  Carrying(held)'
  <2>1. held \in Run /\ Lawful(held.job)
    BY <1>5 DEF IInv, Carrying
  <2>2. held' \in Run /\ held'.job = held.job
    BY <1>5, <2>1 DEF Run
  <2>3. QED
    BY <1>1, <2>1, <2>2 DEF Carrying, Lawful
<1>6. CASE Outbox!Deliver
  <2>1. /\ held # Outbox!None /\ held' = [held EXCEPT !.outcome = "ok"] /\ jobs' = jobs
        /\ heard' = heard \cup {[inbox |-> held.inbox, post |-> held.job.post,
                                 kind |-> held.job.kind, text |-> held.job.text]}
    BY <1>6 DEF Outbox!Deliver, Outbox!Trying, Outbox!Record
  <2>2. Carrying(held)'
    BY <1>5, <2>1
  <2>3. Lawful(held.job)
    BY <2>1 DEF IInv, Carrying
  <2>4. \A h \in heard' : h \in heard \/ Heard(h)'
    BY <1>1, <2>1, <2>3 DEF Lawful, Heard
  <2>5. QED
    BY <1>1, <1>2, <2>1, <2>2, <2>4, Stays
<1>7. CASE Outbox!Refuse \/ Outbox!NoKey
  <2>1. PICK o \in {"failed", "gaveup", "rejected"} :
          held # Outbox!None /\ held' = [held EXCEPT !.outcome = o] /\ jobs' = jobs /\ heard' = heard
    BY <1>7 DEF Outbox!Refuse, Outbox!NoKey, Outbox!Trying, Outbox!Record
  <2>2. Carrying(held)'
    BY <1>5, <2>1
  <2>3. QED
    BY <1>1, <1>2, <2>1, <2>2, Stays
<1>8. CASE Outbox!Once
  <2>1. PICK st \in {"live", "done", "dead"} :
          jobs' = (jobs \ {held.job}) \cup {[held.job EXCEPT !.state = st]}
    BY <1>8 DEF Outbox!Once
  <2> DEFINE k == [held.job EXCEPT !.state = st]
  <2>2. Lawful(held.job) /\ held' = Outbox!None /\ heard' = heard
    BY <1>8 DEF Outbox!Once, IInv, Carrying
  <2>3. k \in Delivery /\ k.post = held.job.post /\ k.kind = held.job.kind
    BY <2>2 DEF Lawful, Delivery
  <2>4. \A j \in jobs' : j \in jobs \/ j = k
    BY <2>1
  <2> HIDE DEF k
  <2>5. Lawful(k)
    BY <2>2, <2>3 DEF Lawful
  <2>6. \A j \in jobs' : j \in jobs \/ Lawful(j)'
    BY <1>3, <2>4, <2>5
  <2>7. QED
    BY <1>1, <1>2, <2>2, <2>6, Stays
<1>9. CASE Outbox!Retry
  <2>1. PICK j \in jobs : jobs' = (jobs \ {j}) \cup {[j EXCEPT !.state = "live", !.attempts = 0]}
    BY <1>9 DEF Outbox!Retry
  <2> DEFINE k1 == [j EXCEPT !.state = "live"]
             k == [k1 EXCEPT !.attempts = 0]
  <2>2. Lawful(j) /\ held' = held /\ heard' = heard
    BY <1>9 DEF Outbox!Retry, IInv
  <2>3. k1 \in Delivery /\ k1.post = j.post /\ k1.kind = j.kind
    BY <2>2 DEF Lawful, Delivery
  <2>4. \A x \in jobs' : x \in jobs \/ x = k
    BY <2>1
  <2> HIDE DEF k1
  <2>5. k \in Delivery /\ k.post = j.post /\ k.kind = j.kind
    BY <2>3 DEF Delivery
  <2> HIDE DEF k
  <2>6. Lawful(k)
    BY <2>2, <2>5 DEF Lawful
  <2>7. \A x \in jobs' : x \in jobs \/ Lawful(x)'
    BY <1>3, <2>4, <2>6
  <2>8. QED
    BY <1>1, <1>2, <2>2, <2>7, Stays
<1>10. QED
  BY <1>4, <1>6, <1>7, <1>8, <1>9

-----------------------------------------------------------------------------
LEMMA StepHolds ==
  ASSUME IInv, [Outbox!Next]_Outbox!vars
  PROVE  IInv'
<1>1. CASE UNCHANGED Outbox!vars
  <2>1. UNCHANGED <<post, req, observed, followers, jobs, held, heard>>
    BY <1>1 DEF Outbox!vars
  <2>2. Shape' /\ VisKept
    BY <2>1 DEF IInv, Shape, VisKept
  <2>3. QED
    BY <2>1, <2>2, Stays
<1>2. ASSUME NEW r \in Requests, NEW p \in Posts,
             Outbox!SubmitWrite(r, p) \/ Outbox!MicropubCreate(r, p)
      PROVE  IInv'
  <2>1. PICK vis \in Visibilities \cup {"public"}, a \in Answers : Outbox!CreateVisible(r, p, vis, a)
    BY <1>2 DEF Outbox!SubmitWrite, Outbox!MicropubCreate
  <2>2. QED
    BY <2>1, Created
<1>3. ASSUME NEW r \in Requests, NEW p \in Posts,
             Outbox!SubmitEdit(r, p) \/ Outbox!MicropubUpdate(r, p) \/ Outbox!WithdrawPost(r, p) \/ Outbox!MicropubDelete(r, p)
      PROVE  IInv'
  BY <1>3, Began DEF Outbox!SubmitEdit, Outbox!MicropubUpdate, Outbox!WithdrawPost, Outbox!MicropubDelete, Outbox!OwnPost, Outbox!ByGUID
<1>4. ASSUME NEW r \in Requests,
             \/ Outbox!SetGuid(r) \/ Outbox!Project(r) \/ Outbox!RefreshProjection(r) \/ Outbox!Update(r) \/ Outbox!Delete(r)
             \/ Outbox!Broadcast(r) \/ Outbox!EnqueueOne(r) \/ Outbox!ReplyAbroad(r) \/ Outbox!AfterPublish(r)
             \/ Outbox!AfterEdit(r) \/ Outbox!Fail(r)
      PROVE  IInv'
  BY <1>4, GuidSet, ProjectKeeps, RefreshKeeps, Updated, Deleted, BroadcastKeeps, QueueKeeps,
     ReplyKeeps, FinishKeeps
<1>5. CASE \/ \E i \in Inboxes : Outbox!Follow(i)
           \/ Outbox!Crash \/ Outbox!Claim \/ Outbox!Deliver \/ Outbox!Refuse
           \/ Outbox!NoKey \/ Outbox!Once \/ Outbox!Retry
  BY <1>5, FollowKeeps, CrashKeeps, WorkerKeeps
<1>6. QED
  BY <1>1, <1>2, <1>3, <1>4, <1>5 DEF Outbox!Next

-----------------------------------------------------------------------------
(* What each step does, field by field *)

Others(r) == \A s \in Requests : s # r => req'[s] = req[s]

\* Handler r goes on to stage pc with the same post.
Onward(r, pc) == Others(r) /\ req'[r].pc = pc /\ req'[r].p = req[r].p /\ req'[r].kind = req[r].kind

OtherPosts(p) == \A x \in Posts : x # p => post'[x] = post[x]

\* What a handler that is under way knows of its row.
LEMMA AtWork ==
  ASSUME IInv, NEW r \in Requests, req[r].pc # "idle"
  PROVE  /\ req[r] \in Handler /\ req[r].p \in Posts /\ post[req[r].p] \in Row /\ post[req[r].p].row
         /\ req[r].copy \in Row /\ req[r].copy.vis = post[req[r].p].vis
BY DEF IInv, Shape, Faithful, Handler

LEMMA CreateDoes ==
  ASSUME IInv, NEW r \in Requests, NEW p \in Posts, NEW vis \in Visibilities \cup {"public"}, NEW a \in Answers,
         Outbox!CreateVisible(r, p, vis, a)
  PROVE  /\ ~post[p].row /\ \A x \in Posts : post[x].row => post[x].guid
         /\ Others(r) /\ req[r].pc = "idle" /\ req'[r].pc = "guid" /\ req'[r].p = p /\ req'[r].kind = "create"
         /\ req'[r].copy.text = 1 /\ req'[r].copy.stamp = 0
         /\ OtherPosts(p) /\ post'[p].row /\ ~post'[p].guid /\ post'[p].text = 1 /\ post'[p].stamp = 0
         /\ raced \subseteq raced'
         /\ UNCHANGED <<observed, jobs, held, journey, unlogged, heard, owed, cut>>
<1> DEFINE n1 == [Outbox!NoPost EXCEPT !.row = TRUE]
           n2 == [n1 EXCEPT !.vis = vis]
           n3 == [n2 EXCEPT !.answers = a]
           new == [n3 EXCEPT !.text = 1]
           whole == [new EXCEPT !.guid = TRUE]
           q == [pc |-> "guid", p |-> p, copy |-> whole, kind |-> "create", todo |-> {}]
<1>1. /\ new.row /\ ~new.guid /\ new.text = 1 /\ new.stamp = 0
      /\ whole.text = 1 /\ whole.stamp = 0
  <2>1. n1 \in Row /\ n1.row /\ ~n1.guid /\ n1.stamp = 0
    BY NoPostRow DEF Row, Outbox!NoPost
  <2> HIDE DEF n1
  <2>2. n2 \in Row /\ n2.row /\ ~n2.guid /\ n2.stamp = 0
    BY <2>1 DEF Row
  <2> HIDE DEF n2
  <2>3. n3 \in Row /\ n3.row /\ ~n3.guid /\ n3.stamp = 0
    BY <2>2 DEF Row
  <2> HIDE DEF n3
  <2>4. new \in Row /\ new.row /\ ~new.guid /\ new.stamp = 0 /\ new.text = 1
    BY <2>3 DEF Row
  <2> HIDE DEF new
  <2>5. whole.text = 1 /\ whole.stamp = 0
    BY <2>4 DEF Row
  <2>6. QED
    BY <2>4, <2>5
<1>2. /\ ~post[p].row /\ \A x \in Posts : post[x].row => post[x].guid
      /\ req[r] = Outbox!Idle /\ req' = [req EXCEPT ![r] = q]
      /\ post' = [post EXCEPT ![p] = new] /\ raced \subseteq raced'
      /\ UNCHANGED <<observed, jobs, held, journey, unlogged, heard, owed, cut>>
  BY DEF Outbox!CreateVisible, Outbox!Start
<1> HIDE DEF new, whole
<1>3. q.pc = "guid" /\ q.p = p /\ q.kind = "create" /\ q.copy = whole
  OBVIOUS
<1> HIDE DEF q
<1>4. /\ req'[r] = q /\ post'[p] = new /\ OtherPosts(p) /\ Others(r)
  BY <1>2 DEF IInv, Shape, OtherPosts, Others
<1>5. QED
  BY <1>1, <1>2, <1>3, <1>4, IdleHandler

LEMMA BeginDoes ==
  ASSUME IInv, NEW r \in Requests, NEW p \in Posts,
         Outbox!BeginEdit(r, p) \/ Outbox!BeginWithdraw(r, p)
  PROVE  /\ Others(r) /\ req[r].pc = "idle" /\ req'[r].p = p /\ req'[r].copy = post[p]
         /\ <<req'[r].pc, req'[r].kind>> \in {<<"edit", "update">>, <<"withdraw", "delete">>}
         /\ raced' = IF Outbox!Busy(p) THEN raced \cup {p} ELSE raced
         /\ UNCHANGED <<post, observed, jobs, held, journey, unlogged, heard, owed, cut>>
<1>1. PICK pc, kind :
        /\ <<pc, kind>> \in {<<"edit", "update">>, <<"withdraw", "delete">>}
        /\ req[r] = Outbox!Idle
        /\ req' = [req EXCEPT ![r] = [pc |-> pc, p |-> p, copy |-> post[p], kind |-> kind, todo |-> {}]]
  BY DEF Outbox!BeginEdit, Outbox!BeginWithdraw, Outbox!Start
<1>2. Others(r) /\ req'[r] = [pc |-> pc, p |-> p, copy |-> post[p], kind |-> kind, todo |-> {}]
  BY <1>1 DEF IInv, Shape, Others
<1>3. QED
  BY <1>1, <1>2, IdleHandler DEF Outbox!BeginEdit, Outbox!BeginWithdraw, Outbox!Start

LEMMA SetGuidDoes ==
  ASSUME IInv, NEW r \in Requests, Outbox!SetGuid(r)
  PROVE  /\ req[r].pc = "guid" /\ Onward(r, "project") /\ req'[r].copy = req[r].copy
         /\ OtherPosts(req[r].p) /\ post'[req[r].p].guid
         /\ post'[req[r].p].text = post[req[r].p].text /\ post'[req[r].p].stamp = post[req[r].p].stamp
         /\ post'[req[r].p].row = post[req[r].p].row /\ post'[req[r].p].vis = post[req[r].p].vis
         /\ UNCHANGED <<observed, jobs, held, journey, unlogged, heard, owed, cut, raced>>
<1>1. req[r].pc = "guid" /\ req[r].pc # "idle"
  BY DEF Outbox!SetGuid
<1>2. req[r] \in Handler /\ req[r].p \in Posts /\ post[req[r].p] \in Row
  BY <1>1, AtWork
<1>3. /\ post' = [post EXCEPT ![req[r].p].guid = TRUE] /\ req' = [req EXCEPT ![r].pc = "project"]
      /\ UNCHANGED <<observed, jobs, held, journey, unlogged, heard, owed, cut, raced>>
  BY DEF Outbox!SetGuid, Outbox!Goto
<1>4. Onward(r, "project") /\ req'[r].copy = req[r].copy
  BY <1>2, <1>3 DEF IInv, Shape, Others, Onward, Handler
<1>5. /\ OtherPosts(req[r].p) /\ post'[req[r].p].guid
      /\ post'[req[r].p].text = post[req[r].p].text /\ post'[req[r].p].stamp = post[req[r].p].stamp
      /\ post'[req[r].p].row = post[req[r].p].row /\ post'[req[r].p].vis = post[req[r].p].vis
  BY <1>2, <1>3 DEF IInv, Shape, OtherPosts, Row
<1>6. QED
  BY <1>1, <1>3, <1>4, <1>5

LEMMA ProjectDoes ==
  ASSUME IInv, NEW r \in Requests, Outbox!Project(r)
  PROVE  /\ req[r].pc = "project" /\ req'[r].copy = req[r].copy
         /\ Onward(r, IF req[r].kind = "create" THEN "refresh" ELSE "fan")
         /\ observed' = Outbox!Projected(req[r].p, req[r].copy)
         /\ UNCHANGED <<post, jobs, held, journey, unlogged, heard, owed, cut, raced>>
<1>1. req[r].pc = "project" /\ req[r].pc # "idle"
  BY DEF Outbox!Project
<1>2. req[r] \in Handler
  BY <1>1, AtWork
<1>3. /\ req' = [req EXCEPT ![r].pc = IF req[r].kind = "create" THEN "refresh" ELSE "fan"]
      /\ observed' = Outbox!Projected(req[r].p, req[r].copy)
      /\ UNCHANGED <<post, jobs, held, journey, unlogged, heard, owed, cut, raced>>
  BY DEF Outbox!Project, Outbox!Goto
<1>4. QED
  BY <1>1, <1>2, <1>3 DEF IInv, Shape, Others, Onward, Handler

LEMMA RefreshDoes ==
  ASSUME IInv, NEW r \in Requests, Outbox!RefreshProjection(r)
  PROVE  /\ req[r].pc = "refresh" /\ Onward(r, "fan")
         /\ \/ observed' = Outbox!Projected(req[r].p, post[req[r].p]) /\ req'[r].copy = post[req[r].p]
            \/ observed' = observed /\ req'[r].copy = req[r].copy
         /\ UNCHANGED <<post, jobs, held, journey, unlogged, heard, owed, cut, raced>>
<1> DEFINE q1 == [req[r] EXCEPT !.pc = "fan"]
           q == [q1 EXCEPT !.copy = post[req[r].p]]
<1>1. req[r].pc = "refresh" /\ req[r].pc # "idle"
  BY DEF Outbox!RefreshProjection
<1>2. req[r] \in Handler /\ post[req[r].p] \in Row
  BY <1>1, AtWork
<1>3. /\ \/ observed' = Outbox!Projected(req[r].p, post[req[r].p]) /\ req' = [req EXCEPT ![r] = q]
         \/ observed' = observed /\ req' = [req EXCEPT ![r] = q1]
      /\ UNCHANGED <<post, jobs, held, journey, unlogged, heard, owed, cut, raced>>
  BY <1>2 DEF Outbox!RefreshProjection, Outbox!Goto, IInv, Shape
<1>4. q1 \in Handler /\ q1.pc = "fan" /\ q1.p = req[r].p /\ q1.kind = req[r].kind /\ q1.copy = req[r].copy
  BY <1>2 DEF Handler, Stages
<1> HIDE DEF q1
<1>5. q.pc = "fan" /\ q.p = req[r].p /\ q.kind = req[r].kind /\ q.copy = post[req[r].p]
  BY <1>4 DEF Handler
<1> HIDE DEF q
<1>6. CASE observed' = Outbox!Projected(req[r].p, post[req[r].p]) /\ req' = [req EXCEPT ![r] = q]
  BY <1>1, <1>3, <1>5, <1>6 DEF IInv, Shape, Others, Onward
<1>7. CASE observed' = observed /\ req' = [req EXCEPT ![r] = q1]
  BY <1>1, <1>3, <1>4, <1>7 DEF IInv, Shape, Others, Onward
<1>8. QED
  BY <1>3, <1>6, <1>7

LEMMA UpdateDoes ==
  ASSUME IInv, NEW r \in Requests, Outbox!Update(r)
  PROVE  /\ req[r].pc = "edit" /\ Onward(r, "project")
         /\ req'[r].copy = post'[req[r].p] /\ OtherPosts(req[r].p)
         /\ post'[req[r].p].stamp > req[r].copy.stamp
         /\ post'[req[r].p].row = post[req[r].p].row /\ post'[req[r].p].vis = post[req[r].p].vis
         /\ post'[req[r].p].guid = post[req[r].p].guid
         /\ UNCHANGED <<observed, jobs, held, journey, unlogged, heard, owed, cut, raced>>
<1> DEFINE p == req[r].p
           edited(s) == [post[p] EXCEPT !.text = @ + 1, !.stamp = s]
<1>1. req[r].pc = "edit" /\ req[r].pc # "idle"
  BY DEF Outbox!Update
<1>2. req[r] \in Handler /\ p \in Posts /\ post[p] \in Row /\ req[r].copy.stamp \in 0..MaxStamp
  BY <1>1, AtWork DEF Row
<1>3. PICK s \in (req[r].copy.stamp + 1)..MaxStamp :
        /\ post' = [post EXCEPT ![p] = edited(s)]
        /\ req' = [req EXCEPT ![r].pc = "project", ![r].copy = edited(s)]
  BY DEF Outbox!Update
<1> DEFINE x1 == [post[p] EXCEPT !.text = @ + 1]
           x == edited(s)
           q1 == [req[r] EXCEPT !.pc = "project"]
           q == [q1 EXCEPT !.copy = x]
<1>4. s \in 0..MaxStamp /\ s > req[r].copy.stamp
  BY <1>2, <1>3, OutboxAssumption
<1>5. x1 \in Row /\ x1.row = post[p].row /\ x1.vis = post[p].vis /\ x1.guid = post[p].guid
  BY <1>2 DEF Row
<1>6. x = [x1 EXCEPT !.stamp = s]
  OBVIOUS
<1>7. req' = [req EXCEPT ![r] = q] /\ post' = [post EXCEPT ![p] = x]
  BY <1>2, <1>3 DEF IInv, Shape
<1> HIDE DEF x1, x
<1>8. x.stamp = s /\ x.row = post[p].row /\ x.vis = post[p].vis /\ x.guid = post[p].guid
  BY <1>4, <1>5, <1>6 DEF Row
<1>9. q1 \in Handler /\ q1.p = p /\ q1.kind = req[r].kind /\ q1.pc = "project"
  BY <1>2 DEF Handler, Stages
<1> HIDE DEF q1
<1>10. q.p = p /\ q.copy = x /\ q.kind = req[r].kind /\ q.pc = "project"
  BY <1>9 DEF Handler
<1> HIDE DEF q
<1>11. req'[r] = q /\ post'[p] = x /\ Others(r) /\ OtherPosts(p)
  BY <1>2, <1>7 DEF IInv, Shape, Others, OtherPosts
<1>12. UNCHANGED <<observed, jobs, held, journey, unlogged, heard, owed, cut, raced>>
  BY DEF Outbox!Update
<1>13. QED
  BY <1>1, <1>4, <1>8, <1>10, <1>11, <1>12 DEF Onward

LEMMA DeleteDoes ==
  ASSUME IInv, NEW r \in Requests, Outbox!Delete(r)
  PROVE  /\ req[r].pc = "withdraw" /\ Onward(r, "fan") /\ OtherPosts(req[r].p)
         /\ req'[r].copy.text = req[r].copy.text /\ req'[r].copy.stamp = req[r].copy.stamp
         /\ post'[req[r].p].text = post[req[r].p].text /\ post'[req[r].p].stamp = post[req[r].p].stamp
         /\ post'[req[r].p].row = post[req[r].p].row /\ post'[req[r].p].vis = post[req[r].p].vis
         /\ post'[req[r].p].guid = post[req[r].p].guid
         /\ UNCHANGED <<observed, jobs, held, journey, unlogged, heard, owed, cut, raced>>
<1> DEFINE p == req[r].p
           x == [post[p] EXCEPT !.gone = TRUE]
           c == [req[r].copy EXCEPT !.gone = TRUE]
           q1 == [req[r] EXCEPT !.pc = "fan"]
           q == [q1 EXCEPT !.copy = c]
<1>1. req[r].pc = "withdraw" /\ req[r].pc # "idle"
  BY DEF Outbox!Delete
<1>2. req[r] \in Handler /\ p \in Posts /\ post[p] \in Row /\ req[r].copy \in Row
  BY <1>1, AtWork
<1>3. /\ x.text = post[p].text /\ x.stamp = post[p].stamp /\ x.row = post[p].row
      /\ x.vis = post[p].vis /\ x.guid = post[p].guid
      /\ c.text = req[r].copy.text /\ c.stamp = req[r].copy.stamp
  BY <1>2 DEF Row
<1>4. q1 \in Handler /\ q1.p = p /\ q1.kind = req[r].kind /\ q1.pc = "fan"
  BY <1>2 DEF Handler, Stages
<1>5. /\ post' = [post EXCEPT ![p] = x] /\ req' = [req EXCEPT ![r] = q]
      /\ UNCHANGED <<observed, jobs, held, journey, unlogged, heard, owed, cut, raced>>
  BY <1>2 DEF Outbox!Delete, IInv, Shape
<1> HIDE DEF x, c, q1
<1>6. q.p = p /\ q.copy = c /\ q.kind = req[r].kind /\ q.pc = "fan"
  BY <1>4 DEF Handler
<1> HIDE DEF q
<1>7. req'[r] = q /\ post'[p] = x /\ Others(r) /\ OtherPosts(p)
  BY <1>2, <1>5 DEF IInv, Shape, Others, OtherPosts
<1>8. QED
  BY <1>1, <1>3, <1>5, <1>6, <1>7 DEF Onward

\* Of those a fan-out is for, the handler takes some, or nobody is found.
Shared(to, some, astray) ==
  \/ /\ some \subseteq to /\ astray = {}
     /\ Cardinality(some) = Ceiling \/ some = to
  \/ some = {} /\ astray = to

LEMMA BroadcastDoes ==
  ASSUME IInv, NEW r \in Requests, Outbox!Broadcast(r)
  PROVE  \E to, some, astray \in SUBSET Inboxes :
         /\ Shared(to, some, astray)
         /\ req[r].pc = "fan" /\ Onward(r, "queue") /\ req'[r].copy = req[r].copy /\ req'[r].todo = some
         /\ owed' = [owed EXCEPT ![req[r].p] = [to |-> to, kind |-> req[r].kind,
                                              left |-> (to \ some) \ astray, lost |-> astray]]
         /\ UNCHANGED <<post, observed, jobs, held, journey, unlogged, heard, cut, raced>>
<1>1. PICK to : to = IF Outbox!Federates(req[r].copy) THEN followers ELSE {}
  OBVIOUS
<1>2. /\ req[r].pc = "fan" /\ req[r].pc # "idle" /\ to \in SUBSET Inboxes
      /\ UNCHANGED <<post, observed, jobs, held, journey, unlogged, heard, cut, raced>>
  BY <1>1 DEF IInv, Shape, Outbox!Broadcast
<1>3. PICK some, astray \in SUBSET Inboxes :
        /\ \/ /\ some \subseteq to /\ astray = {}
              /\ Outbox!Cardinality(some) = Ceiling \/ some = to
           \/ some = {} /\ astray = to
        /\ req' = [req EXCEPT ![r].pc = "queue", ![r].todo = some]
        /\ owed' = [owed EXCEPT ![req[r].p] = [to |-> to, kind |-> req[r].kind,
                                             left |-> (to \ some) \ astray, lost |-> astray]]
  <2>1. CASE \E some \in SUBSET to :
               /\ Outbox!Cardinality(some) = Ceiling \/ (some = to /\ Outbox!Cardinality(to) < Ceiling)
               /\ req' = [req EXCEPT ![r].pc = "queue", ![r].todo = some]
               /\ owed' = [owed EXCEPT ![req[r].p] = [to |-> to, kind |-> req[r].kind,
                                                    left |-> (to \ some) \ {}, lost |-> {}]]
    BY <1>2, <2>1
  <2>2. CASE /\ req' = [req EXCEPT ![r].pc = "queue", ![r].todo = {}]
             /\ owed' = [owed EXCEPT ![req[r].p] = [to |-> to, kind |-> req[r].kind,
                                                  left |-> (to \ {}) \ to, lost |-> to]]
    BY <1>2, <2>2
  <2>3. QED
    BY <1>1, <2>1, <2>2 DEF Outbox!Broadcast
<1> DEFINE q1 == [req[r] EXCEPT !.pc = "queue"]
           q == [q1 EXCEPT !.todo = some]
<1>4. req' = [req EXCEPT ![r] = q] /\ req[r] \in Handler
  BY <1>2, <1>3 DEF IInv, Shape
<1>5. q1 \in Handler /\ q1.p = req[r].p /\ q1.copy = req[r].copy /\ q1.kind = req[r].kind /\ q1.pc = "queue"
  BY <1>4 DEF Handler, Stages
<1> HIDE DEF q1
<1>6. /\ q.p = req[r].p /\ q.copy = req[r].copy /\ q.kind = req[r].kind /\ q.pc = "queue"
      /\ q.todo = some
  BY <1>5 DEF Handler
<1> HIDE DEF q
<1>7. req'[r] = q /\ Others(r)
  BY <1>4 DEF IInv, Shape, Others
<1>8. Onward(r, "queue")
  BY <1>6, <1>7 DEF Onward
<1>9. Shared(to, some, astray)
  <2>1. Cardinality(some) = Outbox!Cardinality(some)
    BY DEF Cardinality, Outbox!Cardinality, IsFiniteSet, Outbox!IsFiniteSet
  <2>2. QED
    BY <1>3, <2>1 DEF Shared
<1>10. QED
  BY <1>2, <1>3, <1>6, <1>7, <1>8, <1>9

LEMMA EnqueueDoes ==
  ASSUME IInv, NEW r \in Requests, Outbox!EnqueueOne(r)
  PROVE  \E i \in req[r].todo :
         /\ \/ jobs' = Outbox!Enqueued(Outbox!Activity(i, req[r], req[r].kind)) /\ owed' = owed
            \/ jobs' = jobs /\ owed' = [owed EXCEPT ![req[r].p].lost = @ \cup {i}]
         /\ req[r].pc = "queue" /\ Onward(r, "queue") /\ req'[r].copy = req[r].copy
         /\ req'[r].todo = req[r].todo \ {i}
         /\ UNCHANGED <<post, observed, held, journey, unlogged, heard, cut, raced>>
<1>1. req[r] \in Handler /\ req[r].pc = "queue"
  BY DEF IInv, Shape, Outbox!EnqueueOne
<1>2. PICK i \in req[r].todo :
        /\ \/ jobs' = Outbox!Enqueued(Outbox!Activity(i, req[r], req[r].kind)) /\ owed' = owed
           \/ jobs' = jobs /\ owed' = [owed EXCEPT ![req[r].p].lost = @ \cup {i}]
        /\ req' = [req EXCEPT ![r].todo = @ \ {i}]
  BY DEF Outbox!EnqueueOne
<1>3. Onward(r, "queue") /\ req'[r].copy = req[r].copy /\ req'[r].todo = req[r].todo \ {i}
  BY <1>1, <1>2 DEF IInv, Shape, Others, Onward, Handler
<1>4. QED
  BY <1>1, <1>2, <1>3 DEF Outbox!EnqueueOne

LEMMA ReplyDoes ==
  ASSUME IInv, NEW r \in Requests, Outbox!ReplyAbroad(r)
  PROVE  /\ req[r].pc = "queue" /\ req[r].todo = {} /\ req[r].kind = "create"
         /\ Onward(r, "mention") /\ req'[r].copy = req[r].copy
         /\ jobs' = jobs \/ jobs' = Outbox!Enqueued(Outbox!Activity(Abroad, req[r], "create"))
         /\ UNCHANGED <<post, observed, held, journey, unlogged, heard, owed, cut, raced>>
<1>1. req[r] \in Handler
  BY DEF IInv, Shape
<1>2. req' = [req EXCEPT ![r].pc = "mention"]
  BY DEF Outbox!ReplyAbroad, Outbox!Goto
<1>3. Onward(r, "mention") /\ req'[r].copy = req[r].copy
  BY <1>1, <1>2 DEF IInv, Shape, Others, Onward, Handler
<1>4. QED
  BY <1>3 DEF Outbox!ReplyAbroad

LEMMA FinishDoes ==
  ASSUME IInv, NEW r \in Requests, Outbox!AfterPublish(r) \/ Outbox!AfterEdit(r) \/ Outbox!Fail(r)
  PROVE  /\ Others(r) /\ req[r].pc # "idle" /\ req'[r] = Outbox!Idle
         /\ jobs' = jobs \/ jobs' = Outbox!Enqueued(Outbox!Activity(Web, req[r], "mention"))
         /\ \/ req[r].pc = "mention" /\ cut' = cut
            \/ req[r].pc = "queue" /\ req[r].todo = {} /\ cut' = cut
            \/ cut' = cut \cup {req[r].p}
         /\ UNCHANGED <<post, observed, held, journey, unlogged, heard, owed, raced>>
<1>1. req' = [req EXCEPT ![r] = Outbox!Idle]
  BY DEF Outbox!AfterPublish, Outbox!AfterEdit, Outbox!Fail, Outbox!Finish
<1>2. Others(r) /\ req'[r] = Outbox!Idle
  BY <1>1 DEF IInv, Shape, Others
<1>3. QED
  BY <1>2 DEF Outbox!AfterPublish, Outbox!AfterEdit, Outbox!Fail

-----------------------------------------------------------------------------
(* The ledger *)

Told(p, target, outcome) == [post |-> p, target |-> target, outcome |-> outcome] \in journey

Reached(j) == Told(j.post, j.inbox, "ok")
              /\ [inbox |-> j.inbox, post |-> j.post, kind |-> j.kind, text |-> j.text] \in heard

\* How the ledger tells of a job that has ended, if no attempt of it is missing.
Ended(j) ==
  Outbox!Key(j) \notin unlogged =>
    /\ j.state = "dead" => Told(j.post, j.inbox, "gaveup")
    /\ j.state = "done" => Told(j.post, j.inbox, "rejected") \/ Reached(j)

\* And of the attempt the worker has made.
Attempted(h) ==
  /\ h.job \in jobs /\ h.job.inbox = h.inbox /\ h.job.state = "live"
  /\ Outbox!Key(h.job) \notin unlogged =>
       /\ h.outcome = "ok" => Reached(h.job)
       /\ h.outcome = "rejected" => Told(h.job.post, h.job.inbox, "rejected")
       /\ h.outcome = "gaveup" => Told(h.job.post, h.job.inbox, "gaveup")
       /\ h.outcome = "failed" => ~Outbox!LastChance(h.job)

LedgerInv ==
  /\ \A j \in jobs : Ended(j)
  /\ held # Outbox!None => Attempted(held)

\* A step that is not one of the worker.
NotWorker ==
  \/ \E r \in Requests, p \in Posts :
       \/ Outbox!SubmitWrite(r, p) \/ Outbox!MicropubCreate(r, p)
       \/ Outbox!SubmitEdit(r, p) \/ Outbox!MicropubUpdate(r, p)
       \/ Outbox!WithdrawPost(r, p) \/ Outbox!MicropubDelete(r, p)
  \/ \E r \in Requests :
       \/ Outbox!SetGuid(r) \/ Outbox!Project(r) \/ Outbox!RefreshProjection(r) \/ Outbox!Update(r)
       \/ Outbox!Delete(r) \/ Outbox!Broadcast(r) \/ Outbox!EnqueueOne(r) \/ Outbox!ReplyAbroad(r)
       \/ Outbox!AfterPublish(r) \/ Outbox!AfterEdit(r) \/ Outbox!Fail(r)
  \/ \E i \in Inboxes : Outbox!Follow(i)
  \/ Outbox!Crash \/ UNCHANGED Outbox!vars

LEMMA Steps ==
  ASSUME [Outbox!Next]_Outbox!vars
  PROVE  \/ NotWorker \/ Outbox!Claim \/ Outbox!Deliver \/ Outbox!Refuse
         \/ Outbox!NoKey \/ Outbox!Once \/ Outbox!Retry
BY DEF Outbox!Next, NotWorker

\* The handlers only add jobs that wait.
LEMMA HandlersAdd ==
  ASSUME IInv, NotWorker
  PROVE  /\ jobs \subseteq jobs' /\ \A j \in jobs' : j \in jobs \/ j.state = "live"
         /\ UNCHANGED <<journey, unlogged, heard>> /\ (held' = held \/ held' = Outbox!None)
<1>1. ASSUME NEW i, NEW r \in Requests, NEW kind, jobs' = Outbox!Enqueued(Outbox!Activity(i, req[r], kind))
      PROVE  jobs \subseteq jobs' /\ \A j \in jobs' : j \in jobs \/ j.state = "live"
  <2>1. PICK a : a = Outbox!Activity(i, req[r], kind)
    OBVIOUS
  <2>2. a.state = "live"
    BY <2>1 DEF Outbox!Activity
  <2>3. QED
    BY <1>1, <2>1, <2>2 DEF Outbox!Enqueued
<1>2. ASSUME NEW r \in Requests, NEW p \in Posts,
             \/ Outbox!SubmitWrite(r, p) \/ Outbox!MicropubCreate(r, p)
             \/ Outbox!SubmitEdit(r, p) \/ Outbox!MicropubUpdate(r, p)
             \/ Outbox!WithdrawPost(r, p) \/ Outbox!MicropubDelete(r, p)
      PROVE  UNCHANGED <<jobs, journey, unlogged, heard, held>>
  BY <1>2 DEF Outbox!SubmitWrite, Outbox!MicropubCreate, Outbox!SubmitEdit, Outbox!MicropubUpdate,
              Outbox!WithdrawPost, Outbox!MicropubDelete, Outbox!CreateVisible, Outbox!BeginEdit, Outbox!BeginWithdraw
<1>3. ASSUME NEW r \in Requests,
             \/ Outbox!SetGuid(r) \/ Outbox!Project(r) \/ Outbox!RefreshProjection(r) \/ Outbox!Update(r)
             \/ Outbox!Delete(r) \/ Outbox!Broadcast(r)
      PROVE  UNCHANGED <<jobs, journey, unlogged, heard, held>>
  BY <1>3 DEF Outbox!SetGuid, Outbox!Project, Outbox!RefreshProjection, Outbox!Update, Outbox!Delete, Outbox!Broadcast
<1>4. ASSUME NEW r \in Requests,
             \/ Outbox!EnqueueOne(r) \/ Outbox!ReplyAbroad(r)
             \/ Outbox!AfterPublish(r) \/ Outbox!AfterEdit(r) \/ Outbox!Fail(r)
      PROVE  /\ UNCHANGED <<journey, unlogged, heard, held>>
             /\ jobs' = jobs \/ \E i, kind : jobs' = Outbox!Enqueued(Outbox!Activity(i, req[r], kind))
  <2>1. CASE Outbox!EnqueueOne(r)
    BY <2>1, EnqueueDoes
  <2>2. CASE Outbox!ReplyAbroad(r)
    BY <2>2, ReplyDoes
  <2>3. CASE Outbox!AfterPublish(r) \/ Outbox!AfterEdit(r) \/ Outbox!Fail(r)
    BY <2>3, FinishDoes
  <2>4. QED
    BY <1>4, <2>1, <2>2, <2>3
<1>5. ASSUME (\E i \in Inboxes : Outbox!Follow(i)) \/ Outbox!Crash \/ UNCHANGED Outbox!vars
      PROVE  UNCHANGED <<jobs, journey, unlogged, heard>> /\ (held' = held \/ held' = Outbox!None)
  BY <1>5 DEF Outbox!Follow, Outbox!Crash, Outbox!vars
<1>6. QED
  BY <1>1, <1>2, <1>3, <1>4, <1>5 DEF NotWorker

LEMMA LedgerStep ==
  ASSUME IInv, LedgerInv, [Outbox!Next]_Outbox!vars
  PROVE  LedgerInv'
<1>1. ASSUME jobs \subseteq jobs', \A j \in jobs' : j \in jobs \/ j.state = "live",
             UNCHANGED <<journey, unlogged, heard>>, held' = held \/ held' = Outbox!None
      PROVE  LedgerInv'
  BY <1>1 DEF LedgerInv, Ended, Attempted, Reached, Told, Outbox!LastChance
<1>2. ASSUME held # Outbox!None
      PROVE  /\ held \in Run /\ held.job \in Delivery /\ Attempted(held)
  BY <1>2 DEF IInv, Carrying, Run, LedgerInv
<1>3. CASE Outbox!Claim
  <2>1. PICK j \in jobs : /\ j.state = "live"
                          /\ jobs' = (jobs \ {j}) \cup {[j EXCEPT !.attempts = @ + 1]}
                          /\ held' = [inbox |-> j.inbox, job |-> [j EXCEPT !.attempts = @ + 1], outcome |-> "none"]
    BY <1>3 DEF Outbox!Claim
  <2> DEFINE mine == [j EXCEPT !.attempts = @ + 1]
  <2>2. mine.state = "live" /\ mine.inbox = j.inbox
    BY <2>1 DEF IInv, Lawful, Delivery
  <2>3. jobs' = (jobs \ {j}) \cup {mine} /\ held' = [inbox |-> j.inbox, job |-> mine, outcome |-> "none"]
    BY <2>1
  <2> HIDE DEF mine
  <2>4. Attempted(held)'
    BY <2>2, <2>3 DEF Attempted
  <2>5. \A k \in jobs' : Ended(k)'
    BY <1>3, <2>2, <2>3 DEF LedgerInv, Ended, Reached, Told, Outbox!Claim
  <2>6. QED
    BY <2>4, <2>5 DEF LedgerInv
<1>4. ASSUME held # Outbox!None, NEW o \in {"ok", "failed", "gaveup", "rejected"},
             held' = [held EXCEPT !.outcome = o], jobs' = jobs, journey \subseteq journey',
             unlogged \subseteq unlogged', heard \subseteq heard',
             Outbox!Key(held.job) \in unlogged' \/
               (/\ Told(held.job.post, held.job.inbox, o)'
                /\ o = "failed" => ~Outbox!LastChance(held.job)
                /\ o = "ok" => [inbox |-> held.job.inbox, post |-> held.job.post,
                                kind |-> held.job.kind, text |-> held.job.text] \in heard')
      PROVE  LedgerInv'
  <2>1. held'.job = held.job /\ held'.inbox = held.inbox /\ held'.outcome = o /\ held \in Run /\ Attempted(held)
    BY <1>2, <1>4 DEF Run
  <2>2. Attempted(held)'
    <3>1. CASE Outbox!Key(held.job) \in unlogged'
      BY <1>4, <2>1, <3>1 DEF Attempted
    <3>2. CASE /\ Told(held.job.post, held.job.inbox, o)'
               /\ o = "failed" => ~Outbox!LastChance(held.job)
               /\ o = "ok" => [inbox |-> held.job.inbox, post |-> held.job.post,
                               kind |-> held.job.kind, text |-> held.job.text] \in heard'
      BY <1>4, <2>1, <3>2 DEF Attempted, Reached, Told, Outbox!LastChance
    <3>3. QED
      BY <1>4, <3>1, <3>2
  <2>3. \A j \in jobs' : Ended(j)'
    BY <1>4 DEF LedgerInv, Ended, Reached, Told
  <2>4. QED
    BY <2>2, <2>3 DEF LedgerInv
<1>5. ASSUME held # Outbox!None, NEW o \in {"ok", "failed", "gaveup", "rejected"}, Outbox!Record(o)
       PROVE  /\ held' = [held EXCEPT !.outcome = o] /\ jobs' = jobs
              /\ journey \subseteq journey' /\ unlogged \subseteq unlogged'
              /\ Outbox!Key(held.job) \in unlogged' \/ Told(held.job.post, held.job.inbox, o)'
  <2>1. held.job.inbox = held.inbox
    BY <1>2, <1>5 DEF Attempted
  <2>2. QED
    BY <1>5, <2>1 DEF Outbox!Record, Outbox!Unlogged, Told
<1>6. CASE Outbox!Deliver
  <2>1. /\ held # Outbox!None /\ Outbox!Record("ok")
        /\ heard' = heard \cup {[inbox |-> held.inbox, post |-> held.job.post,
                                 kind |-> held.job.kind, text |-> held.job.text]}
    BY <1>6 DEF Outbox!Deliver, Outbox!Trying
  <2>2. held.job.inbox = held.inbox
    BY <1>2, <2>1 DEF Attempted
  <2>3. QED
    BY <1>4, <1>5, <2>1, <2>2
<1>7. CASE Outbox!Refuse
  <2>1. PICK o \in {"failed", "gaveup", "rejected"} :
          /\ held # Outbox!None /\ Outbox!Record(o) /\ heard' = heard
          /\ o = "failed" => ~Outbox!LastChance(held.job)
    BY <1>7 DEF Outbox!Refuse, Outbox!Trying
  <2>2. QED
    BY <1>4, <1>5, <2>1
<1>8. CASE Outbox!NoKey
  <2>1. /\ held # Outbox!None /\ held' = [held EXCEPT !.outcome = "failed"] /\ UNCHANGED <<jobs, journey, heard>>
        /\ unlogged' = unlogged \cup {Outbox!Key(held.job)}
    BY <1>8 DEF Outbox!NoKey, Outbox!Trying, Outbox!Unlogged
  <2>2. QED
    BY <1>4, <2>1
<1>9. CASE Outbox!Once
  <2>1. PICK st : /\ st = IF held.outcome \in {"ok", "rejected"} THEN "done"
                          ELSE IF Outbox!LastChance(held.job) THEN "dead" ELSE "live"
                  /\ jobs' = (jobs \ {held.job}) \cup {[held.job EXCEPT !.state = st]}
    BY <1>9 DEF Outbox!Once
  <2> DEFINE k == [held.job EXCEPT !.state = st]
  <2>2. held # Outbox!None /\ held.outcome # "none" /\ held' = Outbox!None /\ UNCHANGED <<journey, unlogged, heard>>
    BY <1>9 DEF Outbox!Once
  <2>3. /\ k.post = held.job.post /\ k.kind = held.job.kind /\ k.inbox = held.job.inbox
        /\ k.text = held.job.text /\ k.stamp = held.job.stamp /\ k.state = st
    BY <1>2, <2>2 DEF Delivery
  <2>4. \A j \in jobs' : j \in jobs \/ j = k
    BY <2>1
  <2> HIDE DEF k
  <2>5. held.outcome \in {"ok", "failed", "gaveup", "rejected"} /\ Attempted(held)
    BY <1>2, <2>2 DEF Run
  <2>6. Ended(k)
    BY <2>1, <2>3, <2>5 DEF Attempted, Ended, Reached, Outbox!Key
  <2>7. \A j \in jobs' : Ended(j)'
    BY <2>2, <2>4, <2>6 DEF LedgerInv, Ended, Reached, Told
  <2>8. QED
    BY <2>2, <2>7 DEF LedgerInv
<1>10. CASE NotWorker
  <2>1. /\ jobs \subseteq jobs' /\ \A j \in jobs' : j \in jobs \/ j.state = "live"
        /\ UNCHANGED <<journey, unlogged, heard>> /\ (held' = held \/ held' = Outbox!None)
    BY <1>10, HandlersAdd
  <2>2. QED
    BY <1>1, <2>1
<1>11. CASE Outbox!Retry
  <2>1. PICK j \in jobs : /\ j.state = "dead"
                          /\ jobs' = (jobs \ {j}) \cup {[j EXCEPT !.state = "live", !.attempts = 0]}
    BY <1>11 DEF Outbox!Retry
  <2> DEFINE k1 == [j EXCEPT !.state = "live"]
             k == [k1 EXCEPT !.attempts = 0]
  <2>2. j \in Delivery /\ UNCHANGED <<journey, unlogged, heard, held>>
    BY <1>11 DEF Outbox!Retry, IInv, Lawful
  <2>3. k1 \in Delivery /\ k1.state = "live"
    BY <2>2 DEF Delivery
  <2>4. jobs' = (jobs \ {j}) \cup {k}
    BY <2>1
  <2> HIDE DEF k1
  <2>5. k.state = "live"
    BY <2>3 DEF Delivery
  <2> HIDE DEF k
  <2>6. \A x \in jobs' : Ended(x)'
    BY <2>2, <2>4, <2>5 DEF LedgerInv, Ended, Reached, Told
  <2>7. held # Outbox!None => held.job # j
    BY <1>2, <2>1 DEF Attempted
  <2>8. (held # Outbox!None => Attempted(held))'
    BY <2>2, <2>4, <2>7 DEF LedgerInv, Attempted, Reached, Told, Outbox!LastChance
  <2>9. QED
    BY <2>6, <2>8 DEF LedgerInv
<1>12. QED
  BY <1>3, <1>6, <1>7, <1>8, <1>9, <1>10, <1>11, Steps

LEMMA LedgerTells ==
  ASSUME LedgerInv
  PROVE  Outbox!JourneyTells
BY DEF LedgerInv, Ended, Reached, Told, Outbox!JourneyTells

-----------------------------------------------------------------------------
(* The empty guid *)

Nameless(p) == post[p].row /\ ~post[p].guid

\* A row without a guid is that of a handler about to give it one, or of one
\* that failed; and there is one of them at most.
GuidInv ==
  /\ \A p \in Posts : Nameless(p) => p \in cut \/ \E r \in Requests : req[r].p = p /\ req[r].pc = "guid"
  /\ \A p, q \in Posts : Nameless(p) /\ Nameless(q) => p = q

\* A step that leaves no further row without a guid and takes the handler from
\* none.
LEMMA GuidStays ==
  ASSUME GuidInv, cut \subseteq cut', \A p \in Posts : Nameless(p)' => Nameless(p),
         \A r \in Requests :
           req[r].pc = "guid" => req'[r] = req[r] \/ req[r].p \in cut' \/ post'[req[r].p].guid
  PROVE  GuidInv'
<1>1. \A p, q \in Posts : Nameless(p)' /\ Nameless(q)' => p = q
  BY DEF GuidInv
<1>2. ASSUME NEW p \in Posts, Nameless(p)'
      PROVE  p \in cut' \/ \E r \in Requests : req'[r].p = p /\ req'[r].pc = "guid"
  BY <1>2 DEF GuidInv, Nameless
<1>3. QED
  BY <1>1, <1>2 DEF GuidInv

LEMMA GuidStep ==
  ASSUME IInv, GuidInv, [Outbox!Next]_Outbox!vars
  PROVE  GuidInv'
<1>1. ASSUME NEW r \in Requests, NEW p \in Posts, Outbox!SubmitWrite(r, p) \/ Outbox!MicropubCreate(r, p)
      PROVE  GuidInv'
  <2>1. PICK vis \in Visibilities \cup {"public"}, a \in Answers : Outbox!CreateVisible(r, p, vis, a)
    BY <1>1 DEF Outbox!SubmitWrite, Outbox!MicropubCreate
  <2>2. /\ \A x \in Posts : post[x].row => post[x].guid
        /\ req'[r].pc = "guid" /\ req'[r].p = p /\ OtherPosts(p)
    BY <2>1, CreateDoes
  <2>3. \A x \in Posts : Nameless(x)' => x = p
    BY <2>2 DEF OtherPosts, Nameless
  <2>4. QED
    BY <2>2, <2>3 DEF GuidInv
<1>2. ASSUME NEW r \in Requests, NEW p \in Posts,
             \/ Outbox!SubmitEdit(r, p) \/ Outbox!MicropubUpdate(r, p)
             \/ Outbox!WithdrawPost(r, p) \/ Outbox!MicropubDelete(r, p)
      PROVE  GuidInv'
  <2>1. Outbox!BeginEdit(r, p) \/ Outbox!BeginWithdraw(r, p)
    BY <1>2 DEF Outbox!SubmitEdit, Outbox!MicropubUpdate, Outbox!WithdrawPost, Outbox!MicropubDelete
  <2>2. Others(r) /\ req[r].pc = "idle" /\ UNCHANGED <<post, cut>>
    BY <2>1, BeginDoes
  <2>3. QED
    BY <2>2, GuidStays DEF Others, Nameless
<1>3. ASSUME NEW r \in Requests, Outbox!SetGuid(r)
      PROVE  GuidInv'
  <2>1. /\ Others(r) /\ OtherPosts(req[r].p) /\ post'[req[r].p].guid /\ cut' = cut
    BY <1>3, SetGuidDoes DEF Onward
  <2>2. \A x \in Posts : Nameless(x)' => Nameless(x)
    BY <2>1 DEF OtherPosts, Nameless
  <2>3. QED
    BY <2>1, <2>2, GuidStays DEF Others, Nameless
<1>4. ASSUME NEW r \in Requests, Outbox!Update(r) \/ Outbox!Delete(r)
      PROVE  GuidInv'
  <2>1. /\ req[r].pc # "guid" /\ Others(r) /\ OtherPosts(req[r].p) /\ cut' = cut
        /\ post'[req[r].p].row = post[req[r].p].row /\ post'[req[r].p].guid = post[req[r].p].guid
    BY <1>4, UpdateDoes, DeleteDoes DEF Onward
  <2>2. \A x \in Posts : Nameless(x)' => Nameless(x)
    BY <2>1 DEF OtherPosts, Nameless
  <2>3. QED
    BY <2>1, <2>2, GuidStays DEF Others
<1>5. ASSUME NEW r \in Requests,
             \/ Outbox!Project(r) \/ Outbox!RefreshProjection(r) \/ Outbox!Broadcast(r)
             \/ Outbox!EnqueueOne(r) \/ Outbox!ReplyAbroad(r)
      PROVE  GuidInv'
  <2>1. req[r].pc # "guid" /\ Others(r) /\ UNCHANGED <<post, cut>>
    BY <1>5, ProjectDoes, RefreshDoes, BroadcastDoes, EnqueueDoes, ReplyDoes DEF Onward
  <2>2. QED
    BY <2>1, GuidStays DEF Others, Nameless
<1>6. ASSUME NEW r \in Requests, Outbox!AfterPublish(r) \/ Outbox!AfterEdit(r) \/ Outbox!Fail(r)
      PROVE  GuidInv'
  <2>1. /\ Others(r) /\ post' = post /\ cut \subseteq cut'
        /\ req[r].pc = "guid" => req[r].p \in cut'
    BY <1>6, FinishDoes
  <2>2. QED
    BY <2>1, GuidStays DEF Others, Nameless
<1>7. CASE Outbox!Crash
  <2>1. /\ post' = post /\ cut \subseteq cut' /\ \A r \in Requests : req[r].pc # "idle" => req[r].p \in cut'
    BY <1>7 DEF Outbox!Crash
  <2>2. QED
    BY <2>1, GuidStays DEF Nameless
<1>8. CASE \/ UNCHANGED Outbox!vars \/ \E i \in Inboxes : Outbox!Follow(i)
           \/ Outbox!Claim \/ Outbox!Deliver \/ Outbox!Refuse
           \/ Outbox!NoKey \/ Outbox!Once \/ Outbox!Retry
  <2>1. UNCHANGED <<post, req, cut>>
    BY <1>8 DEF Outbox!vars, Outbox!Follow, Outbox!Claim, Outbox!Deliver, Outbox!Refuse, Outbox!NoKey, Outbox!Once,
                Outbox!Retry, Outbox!Record
  <2>2. QED
    BY <2>1, GuidStays DEF Nameless
<1>9. CASE NotWorker
  BY <1>1, <1>2, <1>3, <1>4, <1>5, <1>6, <1>7, <1>8, <1>9 DEF NotWorker
<1>10. QED
  BY <1>8, <1>9, Steps

\* The set of the rows without a guid has one element at most.
LEMMA OneNameless ==
  ASSUME GuidInv
  PROVE  Outbox!Cardinality({p \in Posts : post[p].row /\ ~post[p].guid}) <= 1
<1> DEFINE S == {p \in Posts : post[p].row /\ ~post[p].guid}
<1>1. S = {} \/ \E p \in Posts : S = {p}
  BY DEF GuidInv, Nameless
<1>2. Cardinality(S) = Outbox!Cardinality(S)
  BY DEF Cardinality, Outbox!Cardinality, IsFiniteSet, Outbox!IsFiniteSet
<1> HIDE DEF S
<1>3. Cardinality(S) <= 1
  <2>1. CASE S = {}
    BY <2>1, FS_EmptySet
  <2>2. ASSUME NEW p \in Posts, S = {p} PROVE Cardinality(S) <= 1
    BY <2>2, FS_Singleton
  <2>3. QED
    BY <1>1, <2>1, <2>2
<1>4. QED
  BY <1>2, <1>3 DEF S

LEMMA Opened ==
  ASSUME IInv, LedgerInv, GuidInv
  PROVE  Outbox!PublishingOpen
<1>1. \A p \in Posts : post[p].stamp \in 0..MaxStamp /\ post[p].vis \in Visibilities \cup {"public"}
  BY DEF IInv, Shape, Row
<1>2. Delivery \subseteq Outbox!Job
  <2>1. {"create", "update", "delete", "mention"} \subseteq Outbox!Kinds \ {"reply"}
    BY DEF Outbox!Kinds
  <2>2. QED
    BY <2>1 DEF Delivery, Outbox!Job
<1>3. jobs \subseteq Outbox!Job
  BY <1>2 DEF IInv, Lawful
<1>4. held = Outbox!None \/ held.job \in jobs
  BY DEF LedgerInv, Attempted
<1>5. Outbox!TypeOK
  BY <1>1, <1>3, <1>4, OneNameless DEF Outbox!TypeOK, IInv, Shape
<1>6. QED
  BY <1>5 DEF Outbox!PublishingOpen, GuidInv, Nameless

-----------------------------------------------------------------------------
(* What followers are told in the end *)

Calm(p) == p \notin cut /\ p \notin raced

Works(r, p) == req[r].pc # "idle" /\ req[r].p = p

\* No observation of a post is later than its row, and no queued edit.
Latest(p) ==
  \A o \in observed[p] : o.stamp <= post[p].stamp /\ (o.stamp = post[p].stamp => o.text = post[p].text)

Texts(p) ==
  \A j \in jobs : j.post = p =>
    /\ j.kind = "update" => j.stamp <= post[p].stamp /\ (j.stamp = post[p].stamp => j.text = post[p].text)
    /\ j.kind = "delete" => j.text = 0

\* The timeline has the text of the row.
Shown(p) == post[p].vis = "public" => \E o \in observed[p] : o.stamp = post[p].stamp /\ o.text = post[p].text

\* Inbox i is queued what the last fan-out of p was about.
Sent(p, i) ==
  \E j \in jobs : /\ j.inbox = i /\ j.post = p /\ j.kind = owed[p].kind
                  /\ j.text = IF j.kind = "delete" THEN 0 ELSE post[p].text

Fanned(p, todo) == \A i \in owed[p].to \ (owed[p].left \cup owed[p].lost) : i \in todo \/ Sent(p, i)

\* The handler of a post that no other one works on.
Orderly(r, p) ==
  /\ req[r].copy.text = post[p].text /\ req[r].copy.stamp = post[p].stamp
  /\ req[r].pc # "guid" => post[p].guid
  /\ req[r].pc \in {"guid", "project"} \/ Shown(p)
  /\ req[r].pc = "guid" => req[r].kind = "create"
  /\ req[r].pc \in {"refresh", "mention"} => req[r].kind = "create"
  /\ req[r].pc = "edit" => req[r].kind = "update"
  /\ req[r].pc = "queue" => owed[p].kind = req[r].kind /\ Fanned(p, req[r].todo)
  /\ req[r].pc = "mention" => Fanned(p, {})
  /\ req[r].kind = "create" => \A j \in jobs : j.post = p /\ j.kind = "create" => j.text = post[p].text

InOrder(p) ==
  /\ Latest(p) /\ Texts(p)
  /\ \A r, s \in Requests : Works(r, p) /\ Works(s, p) => r = s
  /\ \A r \in Requests : Works(r, p) => Orderly(r, p)
  /\ (\A r \in Requests : ~Works(r, p)) /\ post[p].guid => Shown(p) /\ Fanned(p, {})

Owed == [to : SUBSET Inboxes, kind : {"create", "update", "delete"},
         left : SUBSET Inboxes, lost : SUBSET Inboxes]

\* Whoever is left out is over the ceiling.
Kept(o) ==
  /\ o \in [Posts -> Owed]
  /\ \A p \in Posts : o[p].left # {} => Cardinality(o[p].to \ o[p].left) = Ceiling

FanInv ==
  /\ Kept(owed)
  /\ \A p \in Posts : Calm(p) => InOrder(p)

Alike(j, k) ==
  j.inbox = k.inbox /\ j.post = k.post /\ j.kind = k.kind /\ j.stamp = k.stamp /\ j.text = k.text

\* The jobs about p are the same but for attempts and outcome.
SameJobs(p) ==
  /\ \A j \in jobs : j.post = p => \E k \in jobs' : Alike(j, k)
  /\ \A k \in jobs' : k.post = p => \E j \in jobs : Alike(j, k)

\* A step about something else.
LEMMA Elsewhere ==
  ASSUME NEW p \in Posts, InOrder(p), SameJobs(p),
         post'[p] = post[p], observed'[p] = observed[p], owed'[p] = owed[p],
         \A r \in Requests : req'[r] = req[r] \/ (~Works(r, p) /\ ~Works(r, p)')
  PROVE  InOrder(p)'
<1>1. Latest(p)'
  BY DEF InOrder, Latest
<1>2. Texts(p)'
  BY DEF InOrder, Texts, SameJobs, Alike
<1>3. Shown(p)' <=> Shown(p)
  BY DEF Shown
<1>4. \A i : Sent(p, i) => Sent(p, i)'
  BY DEF Sent, SameJobs, Alike
<1>5. ASSUME NEW todo, Fanned(p, todo) PROVE Fanned(p, todo)'
  BY <1>4, <1>5 DEF Fanned
<1>6. \A r \in Requests : Works(r, p)' => Works(r, p) /\ req'[r] = req[r]
  BY DEF Works
<1>7. \A r \in Requests : Works(r, p) => Works(r, p)'
  BY DEF Works
<1>8. ASSUME NEW r \in Requests, Works(r, p)' PROVE Orderly(r, p)'
  <2>1. Orderly(r, p) /\ req'[r] = req[r]
    BY <1>6, <1>8 DEF InOrder
  <2> PICK todo : todo = req[r].todo
    OBVIOUS
  <2>2. req[r].pc = "queue" => Fanned(p, todo)'
    BY <1>5, <2>1 DEF Orderly
  <2>3. req[r].pc = "mention" => Fanned(p, {})'
    BY <1>5, <2>1 DEF Orderly
  <2>4. req[r].kind = "create" => \A j \in jobs' : j.post = p /\ j.kind = "create" => j.text = post[p].text
    BY <2>1 DEF Orderly, SameJobs, Alike
  <2>5. QED
    BY <1>3, <2>1, <2>2, <2>3, <2>4 DEF Orderly, Fanned
<1>9. Fanned(p, {}) => Fanned(p, {})'
  BY <1>5
<1>10. QED
  BY <1>1, <1>2, <1>3, <1>6, <1>7, <1>8, <1>9 DEF InOrder

\* A step of handler r, which works on p and on nothing else.
LEMMA OneHandler ==
  ASSUME IInv, FanInv, NEW r \in Requests, NEW p \in Posts, Others(r),
         req[r].pc = "idle" \/ req[r].p = p, req'[r].pc = "idle" \/ req'[r].p = p,
         OtherPosts(p), \A x \in Posts : x # p => observed'[x] = observed[x] /\ owed'[x] = owed[x],
         jobs \subseteq jobs', \A k \in jobs' : k \in jobs \/ k.post = p,
         cut \subseteq cut', raced \subseteq raced',
         Kept(owed'),
         Calm(p)' =>
           /\ \A s \in Requests : s # r => ~Works(s, p)
           /\ Latest(p)' /\ Texts(p)'
           /\ Works(r, p)' => Orderly(r, p)'
           /\ ~Works(r, p)' /\ post'[p].guid => Shown(p)' /\ Fanned(p, {})'
  PROVE  FanInv'
<1>1. ASSUME NEW x \in Posts, Calm(x)' PROVE Calm(x)
  BY <1>1 DEF Calm
<1>2. ASSUME Calm(p)' PROVE InOrder(p)'
  <2>1. \A s \in Requests : s # r => ~Works(s, p)'
    BY <1>2 DEF Others, Works
  <2>2. \A s \in Requests : Works(s, p)' => Orderly(s, p)'
    BY <1>2, <2>1 DEF Orderly, Works, Fanned
  <2>3. QED
    BY <1>2, <2>1, <2>2 DEF InOrder
<1>3. ASSUME NEW x \in Posts, x # p, Calm(x)' PROVE InOrder(x)'
  <2>1. InOrder(x)
    BY <1>1, <1>3 DEF FanInv
  <2>2. SameJobs(x)
    BY <1>3 DEF SameJobs, Alike
  <2>3. \A s \in Requests : req'[s] = req[s] \/ (~Works(s, x) /\ ~Works(s, x)')
    BY <1>3 DEF Others, Works
  <2>4. post'[x] = post[x] /\ observed'[x] = observed[x] /\ owed'[x] = owed[x]
    BY <1>3 DEF OtherPosts
  <2>5. QED
    BY <2>1, <2>2, <2>3, <2>4, Elsewhere
<1>4. \A x \in Posts : Calm(x)' => InOrder(x)'
  <2>1. TAKE x \in Posts
  <2>2. CASE x = p
    BY <1>2, <2>2 DEF InOrder, Calm, Latest, Texts, Works, Orderly, Shown, Fanned, Sent
  <2>3. CASE x # p
    BY <1>3, <2>3
  <2>4. QED
    BY <2>2, <2>3
<1>5. QED
  BY <1>4 DEF FanInv

\* What an undisturbed handler may rely on.
LEMMA Undisturbed ==
  ASSUME IInv, FanInv, NEW r \in Requests, req[r].pc # "idle", NEW p, p = req[r].p,
         cut \subseteq cut', raced \subseteq raced', Calm(p)'
  PROVE  /\ p \in Posts /\ \A s \in Requests : s # r => ~Works(s, p)
         /\ Orderly(r, p) /\ Latest(p) /\ Texts(p)
<1>1. p \in Posts /\ Calm(p)
  BY AtWork DEF Calm
<1>2. InOrder(p) /\ Works(r, p)
  BY <1>1 DEF FanInv, Works
<1>3. QED
  BY <1>1, <1>2 DEF InOrder

LEMMA CreateFans ==
  ASSUME IInv, FanInv, NEW r \in Requests, NEW p \in Posts, NEW vis \in Visibilities \cup {"public"}, NEW a \in Answers,
         Outbox!CreateVisible(r, p, vis, a)
  PROVE  FanInv'
<1>1. /\ ~post[p].row
      /\ Others(r) /\ req[r].pc = "idle" /\ req'[r].pc = "guid" /\ req'[r].p = p /\ req'[r].kind = "create"
      /\ req'[r].copy.text = 1 /\ req'[r].copy.stamp = 0
      /\ OtherPosts(p) /\ ~post'[p].guid /\ post'[p].text = 1 /\ post'[p].stamp = 0
      /\ raced \subseteq raced' /\ UNCHANGED <<observed, jobs, owed, cut>>
  BY CreateDoes
<1>2. observed[p] = {} /\ \A j \in jobs : j.post # p
  BY <1>1 DEF IInv, Seen, Lawful
<1>3. \A s \in Requests : ~Works(s, p)
  BY <1>1 DEF IInv, Faithful, Works
<1>4. Latest(p)' /\ Texts(p)' /\ Orderly(r, p)' /\ Works(r, p)'
  BY <1>1, <1>2 DEF Latest, Texts, Orderly, Works
<1>5. QED
  BY <1>1, <1>3, <1>4, OneHandler DEF FanInv

LEMMA BeginFans ==
  ASSUME IInv, FanInv, GuidInv, NEW r \in Requests, NEW p \in Posts, post[p].row,
         Outbox!BeginEdit(r, p) \/ Outbox!BeginWithdraw(r, p)
  PROVE  FanInv'
<1>1. /\ Others(r) /\ req[r].pc = "idle" /\ req'[r].p = p /\ req'[r].copy = post[p]
      /\ <<req'[r].pc, req'[r].kind>> \in {<<"edit", "update">>, <<"withdraw", "delete">>}
      /\ raced' = IF Outbox!Busy(p) THEN raced \cup {p} ELSE raced
      /\ UNCHANGED <<post, observed, jobs, owed, cut>>
  BY BeginDoes
<1>2. ASSUME Calm(p)'
      PROVE  /\ \A s \in Requests : ~Works(s, p)
             /\ Latest(p)' /\ Texts(p)' /\ Works(r, p)' /\ Orderly(r, p)'
  <2>1. ~Outbox!Busy(p) /\ Calm(p)
    BY <1>1, <1>2 DEF Calm
  <2>2. \A s \in Requests : ~Works(s, p)
    BY <2>1 DEF Outbox!Busy, Works
  <2>3. InOrder(p) /\ post[p].guid
    BY <2>1, <2>2 DEF FanInv, GuidInv, Nameless, Calm, Works
  <2>4. Latest(p)' /\ Texts(p)' /\ Shown(p)'
    BY <1>1, <2>2, <2>3 DEF InOrder, Latest, Texts, Shown
  <2>5. QED
    BY <1>1, <2>2, <2>3, <2>4 DEF Orderly, Works
<1>3. OtherPosts(p) /\ raced \subseteq raced'
  BY <1>1 DEF OtherPosts
<1>4. QED
  BY <1>1, <1>2, <1>3, OneHandler DEF FanInv

LEMMA SetGuidFans ==
  ASSUME IInv, FanInv, NEW r \in Requests, Outbox!SetGuid(r)
  PROVE  FanInv'
<1> PICK p : p = req[r].p
  OBVIOUS
<1>1. /\ req[r].pc = "guid" /\ Onward(r, "project") /\ req'[r].copy = req[r].copy
      /\ OtherPosts(p) /\ post'[p].guid /\ post'[p].text = post[p].text /\ post'[p].stamp = post[p].stamp
      /\ UNCHANGED <<observed, jobs, owed, cut, raced>>
  BY SetGuidDoes
<1>2. ASSUME Calm(p)'
      PROVE  /\ \A s \in Requests : s # r => ~Works(s, p)
             /\ Latest(p)' /\ Texts(p)' /\ Works(r, p)' /\ Orderly(r, p)'
  <2>1. /\ \A s \in Requests : s # r => ~Works(s, p)
        /\ Orderly(r, p) /\ Latest(p) /\ Texts(p)
    BY <1>1, <1>2, Undisturbed DEF Onward
  <2>2. Latest(p)' /\ Texts(p)'
    BY <1>1, <2>1 DEF Latest, Texts
  <2>3. Orderly(r, p)' /\ Works(r, p)'
    BY <1>1, <2>1 DEF Orderly, Works, Onward
  <2>4. QED
    BY <2>1, <2>2, <2>3
<1>3. p \in Posts
  BY <1>1, AtWork
<1>4. QED
  BY <1>1, <1>2, <1>3, OneHandler DEF FanInv, Onward

\* A public copy of the row as it is becomes the latest observation.
LEMMA ProjectedShown ==
  ASSUME IInv, NEW p \in Posts, NEW copy, copy.text = post[p].text, copy.stamp = post[p].stamp,
         copy.vis = post[p].vis, Latest(p), post' = post, observed' = Outbox!Projected(p, copy)
  PROVE  Latest(p)' /\ Shown(p)' /\ \A x \in Posts : x # p => observed'[x] = observed[x]
<1>1. CASE copy.vis = "public"
  <2>1. observed' = [observed EXCEPT ![p] = @ \cup {[stamp |-> copy.stamp, text |-> copy.text]}]
    BY <1>1 DEF Outbox!Projected, Outbox!Public
  <2>2. /\ observed'[p] = observed[p] \cup {[stamp |-> post[p].stamp, text |-> post[p].text]}
        /\ \A x \in Posts : x # p => observed'[x] = observed[x]
    BY <2>1 DEF IInv, Shape
  <2>3. post[p].stamp <= post[p].stamp
    BY OutboxAssumption DEF IInv, Shape, Row
  <2>4. PICK n : n = [stamp |-> post[p].stamp, text |-> post[p].text]
    OBVIOUS
  <2>5. n.stamp = post[p].stamp /\ n.text = post[p].text /\ observed'[p] = observed[p] \cup {n}
    BY <2>2, <2>4
  <2>6. Latest(p)'
    BY <2>3, <2>5 DEF Latest
  <2>7. Shown(p)'
    BY <2>5 DEF Shown
  <2>8. QED
    BY <2>2, <2>6, <2>7
<1>2. CASE copy.vis # "public"
  <2>1. observed' = observed
    BY <1>2 DEF Outbox!Projected, Outbox!Public
  <2>2. QED
    BY <1>2, <2>1 DEF Latest, Shown
<1>3. QED
  BY <1>1, <1>2

LEMMA ProjectFans ==
  ASSUME IInv, FanInv, NEW r \in Requests, Outbox!Project(r) \/ Outbox!RefreshProjection(r)
  PROVE  FanInv'
<1> PICK p : p = req[r].p
  OBVIOUS
<1>1. /\ req[r].pc \in {"project", "refresh"} /\ UNCHANGED <<post, jobs, owed, cut, raced>>
      /\ Others(r) /\ req'[r].p = p /\ req'[r].kind = req[r].kind
      /\ \/ req'[r].pc = "refresh" /\ req[r].kind = "create"
         \/ req'[r].pc = "fan"
  BY ProjectDoes, RefreshDoes DEF Onward
<1>2. \/ /\ observed' = Outbox!Projected(p, req[r].copy) /\ req'[r].copy = req[r].copy
      \/ observed' = Outbox!Projected(p, post[p]) /\ req'[r].copy = post[p]
      \/ observed' = observed /\ req'[r].copy = req[r].copy /\ req[r].pc = "refresh"
  BY ProjectDoes, RefreshDoes DEF Onward
<1>3. p \in Posts /\ req[r].copy.vis = post[p].vis
  BY <1>1, AtWork
<1>4. ASSUME Calm(p)'
      PROVE  /\ \A s \in Requests : s # r => ~Works(s, p)
             /\ Latest(p)' /\ Texts(p)' /\ Works(r, p)' /\ Orderly(r, p)'
  <2>1. /\ \A s \in Requests : s # r => ~Works(s, p)
        /\ Orderly(r, p) /\ Latest(p) /\ Texts(p)
    BY <1>1, <1>4, Undisturbed
  <2>2. req'[r].copy.text = post[p].text /\ req'[r].copy.stamp = post[p].stamp
    BY <1>2, <2>1 DEF Orderly
  <2>3. Latest(p)' /\ Shown(p)'
    <3>1. CASE observed' = Outbox!Projected(p, req[r].copy)
      BY <1>1, <1>3, <2>1, <3>1, ProjectedShown DEF Orderly
    <3>2. CASE observed' = Outbox!Projected(p, post[p])
      BY <1>1, <1>3, <2>1, <3>2, ProjectedShown
    <3>3. CASE observed' = observed /\ req[r].pc = "refresh"
      BY <1>1, <2>1, <3>3 DEF Orderly, Latest, Shown
    <3>4. QED
      BY <1>2, <3>1, <3>2, <3>3
  <2>4. Texts(p)'
    BY <1>1, <2>1 DEF Texts
  <2>5. Orderly(r, p)' /\ Works(r, p)'
    BY <1>1, <2>1, <2>2, <2>3 DEF Orderly, Works
  <2>6. QED
    BY <2>1, <2>3, <2>4, <2>5
<1>5. \A x \in Posts : x # p => observed'[x] = observed[x]
  BY <1>2, <1>3 DEF Outbox!Projected, IInv, Shape
<1>6. QED
  BY <1>1, <1>3, <1>4, <1>5, OneHandler DEF FanInv, OtherPosts

LEMMA UpdateFans ==
  ASSUME IInv, FanInv, NEW r \in Requests, Outbox!Update(r)
  PROVE  FanInv'
<1> PICK p : p = req[r].p
  OBVIOUS
<1>1. /\ req[r].pc = "edit" /\ Onward(r, "project") /\ req'[r].copy = post'[p] /\ OtherPosts(p)
      /\ post'[p].stamp > req[r].copy.stamp /\ post'[p].guid = post[p].guid
      /\ UNCHANGED <<observed, jobs, owed, cut, raced>>
  BY UpdateDoes
<1>2. p \in Posts /\ post[p].stamp \in Int /\ post'[p].stamp \in Int
  <2>1. IInv'
    BY Updated
  <2>2. QED
    BY <1>1, <2>1, AtWork, OutboxAssumption DEF IInv, Shape, Row
<1>3. ASSUME Calm(p)'
      PROVE  /\ \A s \in Requests : s # r => ~Works(s, p)
             /\ Latest(p)' /\ Texts(p)' /\ Works(r, p)' /\ Orderly(r, p)'
  <2>1. /\ \A s \in Requests : s # r => ~Works(s, p)
        /\ Orderly(r, p) /\ Latest(p) /\ Texts(p)
    BY <1>1, <1>3, Undisturbed
  <2>2. post'[p].stamp > post[p].stamp /\ req[r].kind = "update"
    BY <1>1, <2>1 DEF Orderly
  <2>3. \A o \in observed[p] : o.stamp \in Int
    BY <1>2 DEF IInv, Shape
  <2>4. Latest(p)'
    BY <1>1, <1>2, <2>1, <2>2, <2>3 DEF Latest
  <2>5. \A j \in jobs : j.stamp \in Int
    BY OutboxAssumption DEF IInv, Lawful, Delivery
  <2>6. Texts(p)'
    BY <1>1, <1>2, <2>1, <2>2, <2>5 DEF Texts
  <2>7. Orderly(r, p)' /\ Works(r, p)'
    BY <1>1, <2>1, <2>2 DEF Orderly, Works, Onward
  <2>8. QED
    BY <2>1, <2>4, <2>6, <2>7
<1>4. QED
  BY <1>1, <1>2, <1>3, OneHandler DEF FanInv, Onward

LEMMA DeleteFans ==
  ASSUME IInv, FanInv, NEW r \in Requests, Outbox!Delete(r)
  PROVE  FanInv'
<1> PICK p : p = req[r].p
  OBVIOUS
<1>1. /\ req[r].pc = "withdraw" /\ Onward(r, "fan") /\ OtherPosts(p)
      /\ req'[r].copy.text = req[r].copy.text /\ req'[r].copy.stamp = req[r].copy.stamp
      /\ post'[p].text = post[p].text /\ post'[p].stamp = post[p].stamp
      /\ post'[p].vis = post[p].vis /\ post'[p].guid = post[p].guid
      /\ UNCHANGED <<observed, jobs, owed, cut, raced>>
  BY DeleteDoes
<1>2. p \in Posts
  BY <1>1, AtWork
<1>3. ASSUME Calm(p)'
      PROVE  /\ \A s \in Requests : s # r => ~Works(s, p)
             /\ Latest(p)' /\ Texts(p)' /\ Works(r, p)' /\ Orderly(r, p)'
  <2>1. /\ \A s \in Requests : s # r => ~Works(s, p)
        /\ Orderly(r, p) /\ Latest(p) /\ Texts(p)
    BY <1>1, <1>3, Undisturbed
  <2>2. Latest(p)' /\ Texts(p)' /\ Shown(p)'
    <3>1. Latest(p)'
      BY <1>1, <2>1 DEF Latest
    <3>2. Texts(p)'
      BY <1>1, <2>1 DEF Texts
    <3>3. Shown(p)
      BY <1>1, <2>1 DEF Orderly
    <3>4. Shown(p)'
      BY <1>1, <3>3 DEF Shown
    <3>5. QED
      BY <3>1, <3>2, <3>4
  <2>3. Orderly(r, p)' /\ Works(r, p)'
    BY <1>1, <2>1, <2>2 DEF Orderly, Works, Onward
  <2>4. QED
    BY <2>1, <2>2, <2>3
<1>4. QED
  BY <1>1, <1>2, <1>3, OneHandler DEF FanInv, Onward

LEMMA BroadcastFans ==
  ASSUME IInv, FanInv, NEW r \in Requests, Outbox!Broadcast(r)
  PROVE  FanInv'
<1> PICK p : p = req[r].p
  OBVIOUS
<1>1. PICK to, some, astray \in SUBSET Inboxes :
         /\ Shared(to, some, astray)
         /\ req[r].pc = "fan" /\ Onward(r, "queue") /\ req'[r].copy = req[r].copy /\ req'[r].todo = some
         /\ owed' = [owed EXCEPT ![p] = [to |-> to, kind |-> req[r].kind,
                                        left |-> (to \ some) \ astray, lost |-> astray]]
         /\ UNCHANGED <<post, observed, jobs, held, journey, unlogged, heard, cut, raced>>
  BY BroadcastDoes
<1>2. p \in Posts /\ req[r].kind \in {"create", "update", "delete"}
  BY <1>1, AtWork DEF Handler
<1> PICK new : new = [to |-> to, kind |-> req[r].kind, left |-> (to \ some) \ astray, lost |-> astray]
  OBVIOUS
<1>3. /\ new \in Owed /\ new.to = to /\ new.kind = req[r].kind /\ new.left = (to \ some) \ astray /\ new.lost = astray
      /\ owed' = [owed EXCEPT ![p] = new]
  BY <1>1, <1>2 DEF Owed
<1>4. owed' \in [Posts -> Owed] /\ owed'[p] = new /\ \A x \in Posts : x # p => owed'[x] = owed[x]
  BY <1>2, <1>3 DEF FanInv, Kept
<1>5. Kept(owed')
  <2>1. ASSUME new.left # {} PROVE Cardinality(new.to \ new.left) = Ceiling
    <3>1. astray = {} /\ some \subseteq to /\ Cardinality(some) = Ceiling
      BY <1>1, <1>3, <2>1 DEF Shared
    <3>2. new.to \ new.left = some
      BY <1>3, <3>1
    <3>3. QED
      BY <3>1, <3>2
  <2>2. QED
    BY <1>4, <2>1 DEF FanInv, Kept
<1>6. \A i \in new.to \ (new.left \cup new.lost) : i \in some
  BY <1>3
<1>7. ASSUME Calm(p)'
      PROVE  /\ \A s \in Requests : s # r => ~Works(s, p)
             /\ Latest(p)' /\ Texts(p)' /\ Works(r, p)' /\ Orderly(r, p)'
  <2>1. /\ \A s \in Requests : s # r => ~Works(s, p)
        /\ Orderly(r, p) /\ Latest(p) /\ Texts(p)
    BY <1>1, <1>7, Undisturbed
  <2>2. Latest(p)' /\ Texts(p)' /\ Shown(p)'
    BY <1>1, <2>1 DEF Latest, Texts, Shown, Orderly
  <2>3. Fanned(p, req[r].todo)'
    BY <1>1, <1>4, <1>6 DEF Fanned
  <2>4. Orderly(r, p)' /\ Works(r, p)'
    BY <1>1, <1>3, <1>4, <2>1, <2>2, <2>3 DEF Orderly, Works, Onward
  <2>5. QED
    BY <2>1, <2>2, <2>4
<1>8. OtherPosts(p)
  BY <1>1 DEF OtherPosts
<1>9. QED
  BY <1>1, <1>2, <1>4, <1>5, <1>7, <1>8, OneHandler DEF Onward

\* What a handler adds to the queue, or finds there.
Adds(r, i, kind) ==
  /\ jobs \subseteq jobs'
  /\ \A k \in jobs' : \/ k \in jobs
                      \/ /\ k.inbox = i /\ k.post = req[r].p /\ k.kind = kind
                         /\ kind = "update" => k.stamp = req[r].copy.stamp
                         /\ k.text = IF kind = "delete" THEN 0 ELSE req[r].copy.text
  /\ \E k \in jobs' : /\ k.inbox = i /\ k.post = req[r].p /\ k.kind = kind
                      /\ kind = "update" => k.stamp = req[r].copy.stamp
                      /\ \/ k \in jobs
                         \/ k.text = IF kind = "delete" THEN 0 ELSE req[r].copy.text

LEMMA Queued ==
  ASSUME NEW r \in Requests, NEW i, NEW kind,
         jobs' = Outbox!Enqueued(Outbox!Activity(i, req[r], kind))
  PROVE  Adds(r, i, kind)
<1> PICK a : a = Outbox!Activity(i, req[r], kind)
  OBVIOUS
<1>1. /\ a.inbox = i /\ a.post = req[r].p /\ a.kind = kind
      /\ a.text = IF kind = "delete" THEN 0 ELSE req[r].copy.text
      /\ kind = "update" => a.stamp = req[r].copy.stamp
  BY DEF Outbox!Activity
<1>2. CASE Outbox!KeyLive(a)
  <2>1. jobs' = jobs
    BY <1>2 DEF Outbox!Enqueued
  <2>2. PICK k \in jobs : k.inbox = a.inbox /\ k.post = a.post /\ k.kind = a.kind /\ k.stamp = a.stamp
    BY <1>2 DEF Outbox!KeyLive, Outbox!Key
  <2>3. QED
    BY <1>1, <2>1, <2>2 DEF Adds
<1>3. CASE ~Outbox!KeyLive(a)
  <2>1. jobs' = jobs \cup {a}
    BY <1>3 DEF Outbox!Enqueued
  <2>2. QED
    BY <1>1, <2>1 DEF Adds
<1>4. QED
  BY <1>2, <1>3

LEMMA QueueFans ==
  ASSUME IInv, FanInv, NEW r \in Requests, Outbox!EnqueueOne(r)
  PROVE  FanInv'
<1> PICK p : p = req[r].p
  OBVIOUS
<1>1. PICK i \in req[r].todo :
         /\ \/ jobs' = Outbox!Enqueued(Outbox!Activity(i, req[r], req[r].kind)) /\ owed' = owed
            \/ jobs' = jobs /\ owed' = [owed EXCEPT ![req[r].p].lost = @ \cup {i}]
         /\ req[r].pc = "queue" /\ Onward(r, "queue") /\ req'[r].copy = req[r].copy
         /\ req'[r].todo = req[r].todo \ {i}
         /\ UNCHANGED <<post, observed, held, journey, unlogged, heard, cut, raced>>
  BY EnqueueDoes
<1> PICK kind : kind = req[r].kind
  OBVIOUS
<1>2. p \in Posts /\ kind \in {"create", "update", "delete"} /\ post[p].stamp \in Int
  BY <1>1, AtWork, OutboxAssumption DEF Handler, Row
<1>3. \/ Adds(r, i, kind) /\ owed' = owed
      \/ jobs' = jobs /\ owed' = [owed EXCEPT ![p].lost = @ \cup {i}]
  BY <1>1, Queued
<1>4. /\ jobs \subseteq jobs'
      /\ \A k \in jobs' : \/ k \in jobs
                          \/ /\ k.inbox = i /\ k.post = p /\ k.kind = kind
                             /\ kind = "update" => k.stamp = req[r].copy.stamp
                             /\ k.text = IF kind = "delete" THEN 0 ELSE req[r].copy.text
  BY <1>3 DEF Adds
<1>5. /\ Kept(owed') /\ \A x \in Posts : x # p => owed'[x] = owed[x]
      /\ owed'[p].to = owed[p].to /\ owed'[p].kind = owed[p].kind /\ owed'[p].left = owed[p].left
      /\ owed' = owed \/ owed'[p].lost = owed[p].lost \cup {i}
      /\ owed[p].lost \subseteq owed'[p].lost
  <2>1. CASE owed' = owed
    BY <2>1 DEF FanInv
  <2>2. CASE owed' = [owed EXCEPT ![p].lost = @ \cup {i}]
    <3>1. owed[p] \in Owed /\ i \in Inboxes
      BY <1>1, <1>2, AtWork DEF FanInv, Kept, Handler
    <3>2. PICK new : new = [owed[p] EXCEPT !.lost = @ \cup {i}]
      OBVIOUS
    <3>3. /\ new \in Owed /\ new.to = owed[p].to /\ new.kind = owed[p].kind /\ new.left = owed[p].left
          /\ new.lost = owed[p].lost \cup {i}
      BY <3>1, <3>2 DEF Owed
    <3>4. owed' = [owed EXCEPT ![p] = new]
      BY <2>2, <3>2
    <3>5. owed'[p] = new /\ owed' \in [Posts -> Owed] /\ \A x \in Posts : x # p => owed'[x] = owed[x]
      BY <1>2, <3>3, <3>4 DEF FanInv, Kept
    <3>6. Kept(owed')
      BY <1>2, <3>3, <3>5 DEF FanInv, Kept
    <3>7. QED
      BY <3>3, <3>5, <3>6
  <2>3. QED
    BY <1>3, <2>1, <2>2
<1>6. ASSUME Calm(p)'
      PROVE  /\ \A s \in Requests : s # r => ~Works(s, p)
             /\ Latest(p)' /\ Texts(p)' /\ Works(r, p)' /\ Orderly(r, p)'
  <2>1. /\ \A s \in Requests : s # r => ~Works(s, p)
        /\ Orderly(r, p) /\ Latest(p) /\ Texts(p)
    BY <1>1, <1>6, Undisturbed
  <2>2. Latest(p)' /\ Shown(p)'
    BY <1>1, <2>1 DEF Latest, Shown, Orderly
  <2>3. Texts(p)'
    BY <1>1, <1>2, <1>4, <2>1 DEF Texts, Orderly
  <2>4. owed[p].kind = kind /\ Fanned(p, req[r].todo) /\ post' = post
    BY <1>1, <2>1 DEF Orderly
  <2>5. Sent(p, i)' \/ i \in owed'[p].lost
    <3>1. CASE owed'[p].lost = owed[p].lost \cup {i}
      BY <3>1
    <3>2. CASE Adds(r, i, kind) /\ owed' = owed
      <4>1. PICK k \in jobs' : /\ k.inbox = i /\ k.post = p /\ k.kind = kind
                               /\ kind = "update" => k.stamp = req[r].copy.stamp
                               /\ \/ k \in jobs
                                  \/ k.text = IF kind = "delete" THEN 0 ELSE req[r].copy.text
        BY <3>2 DEF Adds
      <4>2. k.text = IF kind = "delete" THEN 0 ELSE post[p].text
        BY <1>2, <2>1, <4>1 DEF Orderly, Texts
      <4>3. QED
        BY <2>4, <3>2, <4>1, <4>2 DEF Sent
    <3>3. CASE jobs' = jobs /\ owed' = [owed EXCEPT ![p].lost = @ \cup {i}]
      BY <1>2, <3>3 DEF FanInv, Kept, Owed
    <3>4. QED
      BY <1>3, <3>2, <3>3
  <2>6. \A j : Sent(p, j) => Sent(p, j)'
    BY <1>4, <1>5, <2>4 DEF Sent
  <2>7. Fanned(p, req[r].todo)'
    BY <1>1, <1>5, <2>4, <2>5, <2>6 DEF Fanned
  <2>8. kind = "create" => \A j \in jobs' : j.post = p /\ j.kind = "create" => j.text = post[p].text
    BY <1>4, <2>1 DEF Orderly
  <2>9. Works(r, p)'
    BY <1>1 DEF Works, Onward
  <2>10. Orderly(r, p)'
    <3>1. /\ req'[r].copy = req[r].copy /\ req'[r].pc = req[r].pc /\ req'[r].kind = req[r].kind
          /\ req[r].pc = "queue" /\ req'[r].todo = req[r].todo \ {i}
      BY <1>1, <1>5 DEF Onward
    <3>2. owed'[p].kind = req'[r].kind
      BY <1>5, <2>4, <3>1
    <3>3. /\ req'[r].copy.text = post'[p].text /\ req'[r].copy.stamp = post'[p].stamp
          /\ post'[p].guid
      BY <2>1, <2>4, <3>1 DEF Orderly
    <3>4. req'[r].kind = "create" => \A j \in jobs' : j.post = p /\ j.kind = "create" => j.text = post'[p].text
      BY <2>4, <2>8, <3>1
    <3>5. QED
      BY <2>2, <2>7, <3>1, <3>2, <3>3, <3>4 DEF Orderly
  <2>11. QED
    BY <2>1, <2>2, <2>3, <2>9, <2>10
<1>7. OtherPosts(p) /\ \A k \in jobs' : k \in jobs \/ k.post = p
  BY <1>1, <1>4 DEF OtherPosts
<1>8. QED
  BY <1>1, <1>2, <1>4, <1>5, <1>6, <1>7, OneHandler DEF FanInv, Onward

LEMMA ReplyFans ==
  ASSUME IInv, FanInv, NEW r \in Requests, Outbox!ReplyAbroad(r)
  PROVE  FanInv'
<1> PICK p : p = req[r].p
  OBVIOUS
<1>1. /\ req[r].pc = "queue" /\ req[r].todo = {} /\ req[r].kind = "create"
      /\ Onward(r, "mention") /\ req'[r].copy = req[r].copy
      /\ UNCHANGED <<post, observed, owed, cut, raced>>
  BY ReplyDoes
<1>2. p \in Posts
  BY <1>1, AtWork
<1>3. /\ jobs \subseteq jobs'
      /\ \A k \in jobs' : \/ k \in jobs
                          \/ k.post = p /\ k.kind = "create" /\ k.text = req[r].copy.text
  <2>1. CASE jobs' = jobs
    BY <2>1
  <2>2. CASE jobs' = Outbox!Enqueued(Outbox!Activity(Abroad, req[r], "create"))
    <3>1. Adds(r, Abroad, "create")
      BY <2>2, Queued
    <3>2. QED
      BY <3>1 DEF Adds
  <2>3. QED
    BY <2>1, <2>2, ReplyDoes
<1>4. ASSUME Calm(p)'
      PROVE  /\ \A s \in Requests : s # r => ~Works(s, p)
             /\ Latest(p)' /\ Texts(p)' /\ Works(r, p)' /\ Orderly(r, p)'
  <2>1. /\ \A s \in Requests : s # r => ~Works(s, p)
        /\ Orderly(r, p) /\ Latest(p) /\ Texts(p)
    BY <1>1, <1>4, Undisturbed
  <2>2. Latest(p)' /\ Shown(p)'
    BY <1>1, <2>1 DEF Latest, Shown, Orderly
  <2>3. Texts(p)'
    BY <1>1, <1>3, <2>1 DEF Texts
  <2>4. Fanned(p, {}) /\ UNCHANGED <<owed, post>>
    BY <1>1, <2>1 DEF Orderly
  <2>5. \A j : Sent(p, j) => Sent(p, j)'
    BY <1>3, <2>4 DEF Sent
  <2>6. Fanned(p, {})'
    BY <2>4, <2>5 DEF Fanned
  <2>7. \A j \in jobs' : j.post = p /\ j.kind = "create" => j.text = post[p].text
    BY <1>1, <1>3, <2>1 DEF Orderly
  <2>8. Orderly(r, p)' /\ Works(r, p)'
    BY <1>1, <2>1, <2>2, <2>4, <2>6, <2>7 DEF Orderly, Works, Onward
  <2>9. QED
    BY <2>1, <2>2, <2>3, <2>8
<1>5. OtherPosts(p) /\ \A k \in jobs' : k \in jobs \/ k.post = p
  BY <1>1, <1>3 DEF OtherPosts
<1>6. QED
  BY <1>1, <1>2, <1>3, <1>4, <1>5, OneHandler DEF FanInv, Onward

LEMMA FinishFans ==
  ASSUME IInv, FanInv, NEW r \in Requests, Outbox!AfterPublish(r) \/ Outbox!AfterEdit(r) \/ Outbox!Fail(r)
  PROVE  FanInv'
<1> PICK p : p = req[r].p
  OBVIOUS
<1>1. /\ Others(r) /\ req[r].pc # "idle" /\ req'[r].pc = "idle"
      /\ \/ req[r].pc = "mention" /\ cut' = cut
         \/ req[r].pc = "queue" /\ req[r].todo = {} /\ cut' = cut
         \/ cut' = cut \cup {p}
      /\ UNCHANGED <<post, observed, owed, raced>>
  BY FinishDoes, IdleHandler
<1>2. p \in Posts
  BY <1>1, AtWork
<1>3. /\ jobs \subseteq jobs'
      /\ \A k \in jobs' : k \in jobs \/ (k.post = p /\ k.kind = "mention")
  <2>1. CASE jobs' = jobs
    BY <2>1
  <2>2. CASE jobs' = Outbox!Enqueued(Outbox!Activity(Web, req[r], "mention"))
    <3>1. Adds(r, Web, "mention")
      BY <2>2, Queued
    <3>2. QED
      BY <3>1 DEF Adds
  <2>3. QED
    BY <2>1, <2>2, FinishDoes
<1>4. ASSUME Calm(p)'
      PROVE  /\ \A s \in Requests : s # r => ~Works(s, p)
             /\ Latest(p)' /\ Texts(p)' /\ ~Works(r, p)' /\ Shown(p)' /\ Fanned(p, {})'
  <2>1. /\ \A s \in Requests : s # r => ~Works(s, p)
        /\ Orderly(r, p) /\ Latest(p) /\ Texts(p)
    BY <1>1, <1>4, Undisturbed
  <2>2. req[r].pc = "mention" \/ (req[r].pc = "queue" /\ req[r].todo = {})
    BY <1>1, <1>4 DEF Calm
  <2>3. Latest(p)' /\ Shown(p)'
    BY <1>1, <2>1, <2>2 DEF Latest, Shown, Orderly
  <2>4. Texts(p)'
    BY <1>1, <1>3, <2>1 DEF Texts
  <2>5. Fanned(p, {}) /\ UNCHANGED <<owed, post>>
    BY <1>1, <2>1, <2>2 DEF Orderly
  <2>6. \A j : Sent(p, j) => Sent(p, j)'
    BY <1>3, <2>5 DEF Sent
  <2>7. Fanned(p, {})'
    BY <2>5, <2>6 DEF Fanned
  <2>8. QED
    BY <1>1, <2>1, <2>3, <2>4, <2>7 DEF Works
<1>5. OtherPosts(p) /\ \A k \in jobs' : k \in jobs \/ k.post = p
  BY <1>1, <1>3 DEF OtherPosts
<1>6. QED
  BY <1>1, <1>2, <1>3, <1>4, <1>5, OneHandler DEF FanInv

LEMMA CrashFans ==
  ASSUME IInv, FanInv, Outbox!Crash
  PROVE  FanInv'
<1>1. /\ UNCHANGED <<post, observed, jobs, owed, raced>> /\ cut \subseteq cut'
      /\ \A r \in Requests : (req[r].pc # "idle" => req[r].p \in cut') /\ req'[r].pc = "idle"
  BY IdleHandler DEF Outbox!Crash
<1>2. ASSUME NEW x \in Posts, Calm(x)' PROVE InOrder(x)'
  <2>1. InOrder(x) /\ SameJobs(x)
    BY <1>1, <1>2 DEF FanInv, Calm, SameJobs, Alike
  <2>2. \A r \in Requests : ~Works(r, x) /\ ~Works(r, x)'
    BY <1>1, <1>2 DEF Works, Calm
  <2>3. QED
    BY <1>1, <2>1, <2>2, Elsewhere
<1>3. QED
  BY <1>1, <1>2 DEF FanInv

\* The worker counts attempts and says how a job ended, and nothing else.
LEMMA WorkerFans ==
  ASSUME IInv, LedgerInv, FanInv,
         \/ UNCHANGED Outbox!vars \/ \E i \in Inboxes : Outbox!Follow(i)
         \/ Outbox!Claim \/ Outbox!Deliver \/ Outbox!Refuse
         \/ Outbox!NoKey \/ Outbox!Once \/ Outbox!Retry
  PROVE  FanInv'
<1>1. UNCHANGED <<post, observed, req, owed, cut, raced>>
  BY DEF Outbox!vars, Outbox!Follow, Outbox!Claim, Outbox!Deliver, Outbox!Refuse, Outbox!NoKey, Outbox!Once,
         Outbox!Retry, Outbox!Record
<1>2. \/ jobs' = jobs
      \/ \E j \in jobs : \E k : Alike(j, k) /\ jobs' = (jobs \ {j}) \cup {k}
  <2>1. CASE Outbox!Claim
    <3>1. PICK j \in jobs : jobs' = (jobs \ {j}) \cup {[j EXCEPT !.attempts = @ + 1]}
      BY <2>1 DEF Outbox!Claim
    <3>2. Alike(j, [j EXCEPT !.attempts = @ + 1])
      BY DEF Alike, IInv, Lawful, Delivery
    <3>3. QED
      BY <3>1, <3>2
  <2>2. CASE Outbox!Once
    <3>1. PICK st : jobs' = (jobs \ {held.job}) \cup {[held.job EXCEPT !.state = st]}
      BY <2>2 DEF Outbox!Once
    <3>2. held.job \in jobs
      BY <2>2 DEF Outbox!Once, LedgerInv, Attempted
    <3>3. Alike(held.job, [held.job EXCEPT !.state = st])
      BY <3>2 DEF Alike, IInv, Lawful, Delivery
    <3>4. QED
      BY <3>1, <3>2, <3>3
  <2>3. CASE \/ UNCHANGED Outbox!vars \/ \E i \in Inboxes : Outbox!Follow(i)
             \/ Outbox!Deliver \/ Outbox!Refuse \/ Outbox!NoKey
    BY <2>3 DEF Outbox!vars, Outbox!Follow, Outbox!Deliver, Outbox!Refuse, Outbox!NoKey, Outbox!Record
  <2>4. CASE Outbox!Retry
    <3>1. PICK j \in jobs : jobs' = (jobs \ {j}) \cup {[j EXCEPT !.state = "live", !.attempts = 0]}
      BY <2>4 DEF Outbox!Retry
    <3> DEFINE k1 == [j EXCEPT !.state = "live"]
               k == [k1 EXCEPT !.attempts = 0]
    <3>2. k1 \in Delivery /\ Alike(j, k1)
      BY DEF Alike, IInv, Lawful, Delivery
    <3>3. jobs' = (jobs \ {j}) \cup {k}
      BY <3>1
    <3> HIDE DEF k1
    <3>4. Alike(j, k)
      BY <3>2 DEF Alike, Delivery
    <3>5. QED
      BY <3>3, <3>4
  <2>5. QED
    BY <2>1, <2>2, <2>3, <2>4
<1>3. ASSUME NEW x \in Posts, Calm(x)' PROVE InOrder(x)'
  <2>1. InOrder(x)
    BY <1>1, <1>3 DEF FanInv, Calm
  <2>2. SameJobs(x)
    BY <1>2 DEF SameJobs, Alike
  <2>3. QED
    BY <1>1, <2>1, <2>2, Elsewhere
<1>4. QED
  BY <1>1, <1>3 DEF FanInv

LEMMA FanStep ==
  ASSUME IInv, LedgerInv, GuidInv, FanInv, [Outbox!Next]_Outbox!vars
  PROVE  FanInv'
<1>1. ASSUME NEW r \in Requests, NEW p \in Posts, Outbox!SubmitWrite(r, p) \/ Outbox!MicropubCreate(r, p)
      PROVE  FanInv'
  <2>1. PICK vis \in Visibilities \cup {"public"}, a \in Answers : Outbox!CreateVisible(r, p, vis, a)
    BY <1>1 DEF Outbox!SubmitWrite, Outbox!MicropubCreate
  <2>2. QED
    BY <2>1, CreateFans
<1>2. ASSUME NEW r \in Requests, NEW p \in Posts,
             \/ Outbox!SubmitEdit(r, p) \/ Outbox!MicropubUpdate(r, p)
             \/ Outbox!WithdrawPost(r, p) \/ Outbox!MicropubDelete(r, p)
      PROVE  FanInv'
  BY <1>2, BeginFans DEF Outbox!SubmitEdit, Outbox!MicropubUpdate, Outbox!WithdrawPost, Outbox!MicropubDelete,
                         Outbox!OwnPost, Outbox!ByGUID
<1>3. ASSUME NEW r \in Requests,
             \/ Outbox!SetGuid(r) \/ Outbox!Project(r) \/ Outbox!RefreshProjection(r) \/ Outbox!Update(r)
             \/ Outbox!Delete(r) \/ Outbox!Broadcast(r) \/ Outbox!EnqueueOne(r) \/ Outbox!ReplyAbroad(r)
             \/ Outbox!AfterPublish(r) \/ Outbox!AfterEdit(r) \/ Outbox!Fail(r)
      PROVE  FanInv'
  BY <1>3, SetGuidFans, ProjectFans, UpdateFans, DeleteFans, BroadcastFans, QueueFans, ReplyFans, FinishFans
<1>4. CASE NotWorker
  BY <1>1, <1>2, <1>3, <1>4, CrashFans, WorkerFans DEF NotWorker
<1>5. QED
  BY <1>4, WorkerFans, Steps

LEMMA FanCarries ==
  ASSUME IInv, FanInv
  PROVE  Outbox!Carried
<1>1. SUFFICES ASSUME NEW p \in Posts, Outbox!Settled(p)
               PROVE  /\ \A i \in owed[p].to \ (owed[p].left \cup owed[p].lost) : Sent(p, i)
                      /\ owed[p].left # {} => Outbox!Cardinality(owed[p].to \ owed[p].left) = Ceiling
                      /\ Outbox!Public(post[p]) => Outbox!Listed(p) = {post[p].text}
  BY DEF Outbox!Carried, Sent
<1>2. InOrder(p) /\ Shown(p) /\ Fanned(p, {})
  BY <1>1 DEF Outbox!Settled, Outbox!Busy, FanInv, Calm, Works, InOrder
<1>3. owed[p].left # {} => Cardinality(owed[p].to \ owed[p].left) = Ceiling
  BY DEF FanInv, Kept
<1>4. Outbox!Cardinality(owed[p].to \ owed[p].left) = Cardinality(owed[p].to \ owed[p].left)
  BY DEF Cardinality, Outbox!Cardinality, IsFiniteSet, Outbox!IsFiniteSet
<1>5. ASSUME Outbox!Public(post[p]) PROVE Outbox!Listed(p) = {post[p].text}
  <2>1. PICK o \in observed[p] : o.stamp = post[p].stamp /\ o.text = post[p].text
    BY <1>2, <1>5 DEF Shown, Outbox!Public
  <2>2. Latest(p)
    BY <1>2 DEF InOrder
  <2>3. post[p].stamp \in Int /\ \A q \in observed[p] : q.stamp \in Int
    BY OutboxAssumption DEF IInv, Shape, Row
  <2>4. ASSUME NEW x \in observed[p], \A q \in observed[p] : q.stamp <= x.stamp
        PROVE  x.text = post[p].text
    BY <2>1, <2>2, <2>3, <2>4 DEF Latest
  <2>5. \A q \in observed[p] : q.stamp <= o.stamp
    BY <2>1, <2>2 DEF Latest
  <2>6. QED
    BY <2>1, <2>4, <2>5 DEF Outbox!Listed
<1>6. QED
  BY <1>2, <1>3, <1>4, <1>5 DEF Fanned

-----------------------------------------------------------------------------
(* The parts together: of the instance's behaviours, those that publish     *)

Inv == part = "publishing" => IInv /\ LedgerInv /\ GuidInv /\ FanInv

LEMMA InitInv ==
  ASSUME Init
  PROVE  Inv
<1>1. SUFFICES ASSUME Outbox!Init PROVE IInv /\ LedgerInv /\ GuidInv /\ FanInv
  BY DEF Init, Inv
<1>2. LedgerInv /\ GuidInv
  BY <1>1 DEF Outbox!Init, Outbox!NoPost, LedgerInv, GuidInv, Nameless
<1>3. \A p \in Posts : InOrder(p)
  BY <1>1 DEF Outbox!Init, Outbox!NoPost, Outbox!Idle, InOrder, Latest, Texts, Works
<1>4. Kept(owed)
  BY <1>1 DEF Outbox!Init, Kept, Owed
<1>5. QED
  BY <1>1, <1>2, <1>3, <1>4, InitHolds DEF FanInv

\* A step of an instance that publishes is one of Outbox.
LEMMA Publishing ==
  ASSUME [Next]_all, part' = "publishing"
  PROVE  part = "publishing" /\ [Outbox!Next]_Outbox!vars
<1>1. CASE Next
  BY <1>1 DEF Next
<1>2. CASE UNCHANGED all
  BY <1>2 DEF all, OfOutbox, Outbox!vars
<1>3. QED
  BY <1>1, <1>2

LEMMA StepInv ==
  ASSUME Inv, [Next]_all
  PROVE  Inv'
<1>1. SUFFICES ASSUME part' = "publishing" PROVE IInv' /\ LedgerInv' /\ GuidInv' /\ FanInv'
  BY DEF Inv
<1>2. part = "publishing" /\ [Outbox!Next]_Outbox!vars
  BY <1>1, Publishing
<1>3. IInv /\ LedgerInv /\ GuidInv /\ FanInv
  BY <1>2 DEF Inv
<1>4. QED
  BY <1>2, <1>3, StepHolds, LedgerStep, GuidStep, FanStep

\* Posts, handlers, jobs, the ledger and what was sent stay related as the
\* proofs below need it.
THEOREM OutboxInvariant == Spec => []Inv
<1>1. Init => Inv
  BY InitInv
<1>2. Inv /\ [Next]_all => Inv'
  BY StepInv
<1>3. QED
  BY <1>1, <1>2, PTL DEF Spec

\* Nothing private is sent to another server, and what is not public is in no
\* feed, not in the timeline, in no webmention and on no stranger's page of it:
\* who is not the author finds it in the three places that do not ask, and
\* nowhere else; a withdrawn post stays in those and in the timeline
\* (internal/publish, internal/web/apactivity.go, internal/web/delivery.go,
\* internal/web/indieweb_endpoints.go).
THEOREM NothingPrivateLeaves == Spec => []Confined
<1>1. Inv => Confined
  <2>1. SUFFICES ASSUME IInv PROVE Outbox!Confined
    BY DEF Inv, Confined
  <2>2. ASSUME NEW p \in Posts, NEW who \in {"stranger", "account"}
        PROVE  /\ ~Outbox!Public(post[p]) => Outbox!Shown(p, who) \subseteq Outbox!Unasked(who)
               /\ post[p].gone => Outbox!Shown(p, who) \subseteq Outbox!Unasked(who) \cup {"timeline"}
    <3>1. "answer" \in Outbox!Shown(p, who) => who # "stranger"
      BY DEF Outbox!Shown, Outbox!AnswerForm
    <3>2. "timeline" \in Outbox!Shown(p, who) => Outbox!Public(post[p])
      BY <2>1 DEF Outbox!Shown, IInv, Seen, Outbox!Public
    <3>3. "feed" \in Outbox!Shown(p, who) \/ "page" \in Outbox!Shown(p, who)
            => Outbox!Public(post[p]) /\ ~post[p].gone
      BY <2>2 DEF Outbox!Shown, Outbox!InFeed, Outbox!Page
    <3>4. Outbox!Shown(p, who) \subseteq {"feed", "timeline", "page", "journey", "source", "answer"}
      BY DEF Outbox!Shown
    <3>5. QED
      BY <3>1, <3>2, <3>3, <3>4 DEF Outbox!Unasked
  <2>3. \A j \in jobs : post[j.post].vis # "private" /\ (j.kind = "mention" => Outbox!Public(post[j.post]))
    BY <2>1 DEF IInv, Lawful, Outbox!Public
  <2>4. \A h \in heard : post[h.post].vis # "private"
    BY <2>1 DEF IInv, Heard
  <2>5. QED
    BY <2>2, <2>3, <2>4 DEF Outbox!Confined
<1>2. QED
  BY <1>1, OutboxInvariant, PTL

\* There is one row without a guid at most, which would hold every later post
\* back, and it is that of a handler about to give it one or of one that failed
\* (internal/publish/publish.go: CreateVisible).
THEOREM NoStuckPost == Spec => []PublishingOpen
<1>1. Inv => PublishingOpen
  BY Opened DEF Inv, PublishingOpen
<1>2. QED
  BY <1>1, OutboxInvariant, PTL

\* A job that was given up has a "gaveup" in the ledger; one that is done was
\* rejected, or the far side has what it carried, wherever the process stopped
\* and however often the operator revived it; but for a job an attempt of which
\* the ledger has no line of (internal/web/delivery.go, internal/web/apdelivery.go,
\* internal/ledger, internal/jobs: Claim, Done, Fail, Retry).
THEOREM LedgerIsTrue == Spec => []JourneyTells
<1>1. Inv => JourneyTells
  BY LedgerTells DEF Inv, JourneyTells
<1>2. QED
  BY <1>1, OutboxInvariant, PTL

\* Once the handlers of a post are through, none of them failed and no two
\* overlapped, every inbox of the last fan-out has been queued what the post
\* now says, but those over the ceiling, when as many as it allows were queued,
\* and those a failed statement lost; and the timeline lists it
\* (internal/web/apactivity.go: broadcast, internal/web/apdelivery.go,
\* internal/publish: project).
THEOREM FollowersAreTold == Spec => []Carried
<1>1. Inv => Carried
  BY FanCarries DEF Inv, Carried
<1>2. QED
  BY <1>1, OutboxInvariant, PTL

=============================================================================
