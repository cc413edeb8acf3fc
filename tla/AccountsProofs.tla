--------------------------- MODULE AccountsProofs ---------------------------
(***************************************************************************)
(* What an account may rely on (Sessions, Registration, Handles and        *)
(* SecondFactor, as parts of Services), for every number of requests,      *)
(* browsers, links, addresses, codes, accounts and candidates, and every   *)
(* lifetime.                                                               *)
(*                                                                         *)
(*  - SessionsInv.  A confirmation that was under way while the account    *)
(*    was recovered names a session that is gone, and no later session has *)
(*    its number.  A sign-in that has no session yet was let in under the  *)
(*    password there is, or was overtaken and brought no session with a    *)
(*    former one before.                                                   *)
(*  - RegistrationInv.  A code that is fresh has no guest.                 *)
(*  - HandlesInv.  A call that began before the account had a handle       *)
(*    writes the first free candidate over it.  That it is the same one    *)
(*    rests on what every call has seen: the candidates it passed belong   *)
(*    to others, and stay theirs.                                          *)
(*  - FactorInv.  Of the secret there is, only codes of past steps were    *)
(*    accepted, and no recovery codes were shown before it was printed.    *)
(***************************************************************************)
EXTENDS Services, FiniteSetTheorems, TLAPS

-----------------------------------------------------------------------------
(* Sessions *)

Session == [id : Nat, expires : Int, proof : Int, of : Tabs, mark : Int \cup {None}, markPass : Int]
Tab == [pc : {"idle", "create", "form", "give", "in", "clear", "fault", "mark", "done"},
        b : Browsers \cup {None}, sent : Nat \cup {None}, new : Nat \cup {None},
        by : Links \cup {None}, pass : Int]
Link == [state : {"none", "fresh", "used", "purged"}, purpose : {"signin", "recover"}, expires : Int]

TabFine(q) ==
  /\ q.sent # None => q.sent <= started
  /\ q.new # None => q.new <= started
  /\ q.pc = "form" => q.by \in Links

NumbersFine == now \in Int /\ pass \in Int /\ started \in Nat
SessionsFine == session \in SUBSET Session /\ \A s \in session : s.id <= started
LinksFine == link \in [Links -> Link] /\ spent \in [Links -> Nat]
CookiesFine == cookie \in [Browsers -> Nat \cup {None}] /\ \A b \in Browsers : cookie[b] # None => cookie[b] <= started
TabsFine == tab \in [Tabs -> Tab] /\ \A t \in Tabs : TabFine(tab[t])

SessionsShape == NumbersFine /\ SessionsFine /\ LinksFine /\ CookiesFine /\ TabsFine

\* A link that was not used is fresh or not there yet.
Unspent == \A l \in Links : /\ spent[l] <= 1
                            /\ link[l].state \in {"none", "fresh"} => spent[l] = 0

\* A mark was made, or is being made, under the password there is.
Current ==
  /\ \A s \in session : s.mark # None => s.markPass = pass
  /\ \A t \in Tabs, s \in session : tab[t].pc = "mark" /\ tab[t].sent = s.id => tab[t].pass = pass

\* So was a session, or its sign-in was overtaken, and has no other of the kind.
Former(s) == s.proof # pass
Proven ==
  /\ \A s \in session : Former(s) => s.of \in overtaken
  /\ \A s, u \in session : s.of = u.of /\ Former(s) /\ Former(u) => s = u
Waiting ==
  \A t \in Tabs : tab[t].pc = "create" /\ tab[t].pass # pass =>
    t \in overtaken /\ \A s \in session : Former(s) => s.of # t

SessionsInv == SessionsShape /\ Unspent /\ Current /\ Proven /\ Waiting

LEMMA SessionsInit ==
  ASSUME Sessions!Init
  PROVE  SessionsInv
<1>1. Sessions!Idle \in Tab /\ Sessions!Idle.pc = "idle" /\ Sessions!Idle.sent = None /\ Sessions!Idle.new = None
  BY DEF Sessions!Idle, Tab
<1>2. Sessions!NoLink \in Link
  BY DEF Sessions!NoLink, Link
<1>3. SessionsShape
  BY <1>1, <1>2 DEF Sessions!Init, SessionsShape, NumbersFine, SessionsFine, LinksFine, CookiesFine, TabsFine, TabFine
<1>4. QED
  BY <1>1, <1>3 DEF Sessions!Init, SessionsInv, Unspent, Current, Proven, Waiting

\* Enough for the steps that begin no session and set no password.
LEMMA Keep ==
  ASSUME SessionsInv, now' \in Int, UNCHANGED <<pass, started, overtaken>>, session' \subseteq session,
         LinksFine', Unspent', CookiesFine', TabsFine',
         \A u \in Tabs : tab'[u] = tab[u] \/ (tab'[u].pc \in {"mark", "create"} => tab'[u].pass = pass)
  PROVE  SessionsInv'
<1>1. NumbersFine' /\ SessionsFine'
  BY DEF SessionsInv, SessionsShape, NumbersFine, SessionsFine
<1>2. Current'
  BY DEF SessionsInv, Current
<1>3. Proven'
  BY DEF SessionsInv, Proven, Former
<1>4. Waiting'
  BY DEF SessionsInv, Waiting, Former
<1>5. QED
  BY <1>1, <1>2, <1>3, <1>4 DEF SessionsInv, SessionsShape

LEMMA TabSet ==
  ASSUME TabsFine, started \in Nat, started' \in Nat, started <= started',
         NEW t \in Tabs, NEW q \in Tab, tab' = [tab EXCEPT ![t] = q],
         q.sent # None => q.sent <= started', q.new # None => q.new <= started',
         q.pc = "form" => q.by \in Links
  PROVE  TabsFine' /\ tab'[t] = q /\ \A u \in Tabs : u # t => tab'[u] = tab[u]
<1>1. tab' \in [Tabs -> Tab] /\ tab'[t] = q /\ \A u \in Tabs : u # t => tab'[u] = tab[u]
  BY DEF TabsFine
<1>2. ASSUME NEW u \in Tabs PROVE TabFine(tab[u])'
  <2>1. CASE u = t
    BY <1>1, <2>1 DEF TabFine
  <2>2. CASE u # t
    <3>1. tab'[u] = tab[u] /\ TabFine(tab[u]) /\ tab[u] \in Tab
      BY <1>1, <2>2 DEF TabsFine
    <3>2. QED
      BY <3>1, SessionsAssumption DEF TabFine, Tab
  <2>3. QED
    BY <2>1, <2>2
<1>3. QED
  BY <1>1, <1>2 DEF TabsFine

\* What is known of a request that begins.
LEMMA BegunAs ==
  ASSUME NEW t \in Tabs, NEW b, NEW by, NEW pc, Sessions!Begin(t, b, pc, by)
  PROVE  tab' = [tab EXCEPT ![t] = [pc |-> pc, b |-> b, sent |-> cookie[b], new |-> None, by |-> by,
                                    pass |-> IF pc = "create" THEN pass ELSE 0]]
<1>1. PICK sent, known : sent = cookie[b] /\ known = IF pc = "create" THEN pass ELSE 0
  OBVIOUS
<1> DEFINE i1 == [Sessions!Idle EXCEPT !.pc = pc]
           i2 == [i1 EXCEPT !.b = b]
           i3 == [i2 EXCEPT !.sent = sent]
           i4 == [i3 EXCEPT !.by = by]
           i5 == [i4 EXCEPT !.pass = known]
<1>2. tab' = [tab EXCEPT ![t] = i5]
  BY <1>1 DEF Sessions!Begin
<1>3. i1 = [pc |-> pc, b |-> None, sent |-> None, new |-> None, by |-> None, pass |-> 0]
  BY DEF Sessions!Idle
<1> HIDE DEF i1
<1>4. i2 = [pc |-> pc, b |-> b, sent |-> None, new |-> None, by |-> None, pass |-> 0]
  BY <1>3
<1> HIDE DEF i2
<1>5. i3 = [pc |-> pc, b |-> b, sent |-> sent, new |-> None, by |-> None, pass |-> 0]
  BY <1>4
<1> HIDE DEF i3
<1>6. i4 = [pc |-> pc, b |-> b, sent |-> sent, new |-> None, by |-> by, pass |-> 0]
  BY <1>5
<1> HIDE DEF i4
<1>7. i5 = [pc |-> pc, b |-> b, sent |-> sent, new |-> None, by |-> by, pass |-> known]
  BY <1>6
<1> HIDE DEF i5
<1>8. QED
  BY <1>1, <1>2, <1>7

\* A request begins with the cookie of its browser.
LEMMA Begins ==
  ASSUME SessionsInv, NEW t \in Tabs, NEW b \in Browsers, NEW by \in Links \cup {None},
         NEW pc \in {"create", "form", "fault", "in", "clear"}, pc = "form" => by \in Links,
         Sessions!Begin(t, b, pc, by), started' = started
  PROVE  /\ TabsFine'
         /\ \A u \in Tabs : tab'[u] = tab[u] \/ (tab'[u].pc \in {"mark", "create"} => tab'[u].pass = pass)
<1> DEFINE q == [pc |-> pc, b |-> b, sent |-> cookie[b], new |-> None, by |-> by,
                 pass |-> IF pc = "create" THEN pass ELSE 0]
<1>1. TabsFine /\ started \in Nat /\ started' \in Nat /\ started <= started' /\ pass \in Int
  BY DEF SessionsInv, SessionsShape, NumbersFine
<1>2. q \in Tab /\ q.sent = cookie[b] /\ q.new = None /\ q.by = by /\ q.pc = pc
  BY <1>1 DEF Tab, SessionsInv, SessionsShape, CookiesFine
<1>3. q.pc \in {"mark", "create"} => q.pass = pass
  OBVIOUS
<1>4. tab' = [tab EXCEPT ![t] = q]
  BY BegunAs
<1> HIDE DEF q
<1>5. cookie[b] # None => cookie[b] <= started
  BY DEF SessionsInv, SessionsShape, CookiesFine
<1>6. TabsFine' /\ tab'[t] = q /\ \A u \in Tabs : u # t => tab'[u] = tab[u]
  BY <1>1, <1>2, <1>4, <1>5, TabSet
<1>7. QED
  BY <1>3, <1>6

LEMMA IdleTab == Sessions!Idle \in Tab /\ Sessions!Idle.pc = "idle" /\ Sessions!Idle.sent = None /\ Sessions!Idle.new = None
BY DEF Sessions!Idle, Tab

\* A request that goes on, or is over, with what it had.
LEMMA GoesOn ==
  ASSUME SessionsInv, NEW t \in Tabs, NEW q \in Tab, tab' = [tab EXCEPT ![t] = q],
         started' = started, q.sent \in {tab[t].sent, None}, q.new \in {tab[t].new, None},
         q.pc # "form"
  PROVE  TabsFine' /\ tab'[t] = q /\ \A u \in Tabs : u # t => tab'[u] = tab[u]
<1>1. TabFine(tab[t]) /\ tab[t] \in Tab
  BY DEF SessionsInv, SessionsShape, TabsFine
<1>2. TabsFine /\ started \in Nat /\ started' \in Nat /\ started <= started'
  BY DEF SessionsInv, SessionsShape, NumbersFine
<1>3. (q.sent # None => q.sent <= started') /\ (q.new # None => q.new <= started')
  BY <1>1 DEF TabFine
<1>4. QED
  BY <1>2, <1>3, TabSet

LEMMA CookiesKept ==
  ASSUME SessionsInv, UNCHANGED <<cookie, started>>
  PROVE  CookiesFine'
BY DEF SessionsInv, SessionsShape, CookiesFine

LEMMA LinksKept ==
  ASSUME SessionsInv, UNCHANGED <<link, spent>>
  PROVE  LinksFine' /\ Unspent'
BY DEF SessionsInv, SessionsShape, LinksFine, Unspent

\* A link is redeemed.
LEMMA Redeemed ==
  ASSUME SessionsInv, NEW l \in Links, Sessions!Redeem(l)
  PROVE  LinksFine' /\ Unspent'
<1>1. spent[l] = 0 /\ link[l] \in Link /\ spent' = [spent EXCEPT ![l] = @ + 1]
      /\ link' = [link EXCEPT ![l].state = "used"]
  BY DEF SessionsInv, Unspent, SessionsShape, LinksFine, Sessions!Redeem, Sessions!Redeemable
<1>2. LinksFine'
  BY <1>1 DEF SessionsInv, SessionsShape, LinksFine, Link
<1>3. spent'[l] = 1 /\ link'[l].state = "used" /\ \A k \in Links : k # l => spent'[k] = spent[k] /\ link'[k] = link[k]
  BY <1>1 DEF SessionsInv, SessionsShape, LinksFine, Link
<1>4. Unspent'
  BY <1>3 DEF SessionsInv, Unspent
<1>5. QED
  BY <1>2, <1>4

-----------------------------------------------------------------------------
(* The requests, the links and the clock *)

LEMMA RequestBegins ==
  ASSUME SessionsInv, NEW t \in Tabs, NEW b \in Browsers,
         \/ Sessions!Authenticate(t, b) \/ Sessions!Resolve(t, b)
         \/ \E l \in Links : Sessions!FollowMagic(t, b, l) \/ Sessions!PeekToken(t, b, l)
  PROVE  SessionsInv'
<1>1. now' \in Int /\ UNCHANGED <<pass, started, overtaken, cookie>> /\ session' \subseteq session
  BY DEF Sessions!Authenticate, Sessions!Resolve, Sessions!FollowMagic, Sessions!PeekToken, SessionsInv, SessionsShape, NumbersFine
<1>2. LinksFine' /\ Unspent'
  <2>1. CASE UNCHANGED <<link, spent>>
    BY <2>1, LinksKept
  <2>2. CASE \E l \in Links : Sessions!FollowMagic(t, b, l)
    BY <2>2, Redeemed DEF Sessions!FollowMagic
  <2>3. QED
    BY <2>1, <2>2 DEF Sessions!Authenticate, Sessions!Resolve, Sessions!PeekToken
<1>3. PICK pc \in {"create", "form", "fault", "in", "clear"}, by \in Links \cup {None} :
        Sessions!Begin(t, b, pc, by) /\ (pc = "form" => by \in Links)
  <2>1. CASE Sessions!Authenticate(t, b)
    BY <2>1 DEF Sessions!Authenticate
  <2>2. CASE Sessions!Resolve(t, b)
    <3>1. PICK ok \in BOOLEAN :
            Sessions!Begin(t, b, IF ~ok THEN "fault" ELSE IF Sessions!Alive(cookie[b]) THEN "in" ELSE "clear", None)
      BY <2>2 DEF Sessions!Resolve
    <3>2. QED
      BY <3>1
  <2>3. CASE \E l \in Links : Sessions!FollowMagic(t, b, l)
    BY <2>3 DEF Sessions!FollowMagic
  <2>4. CASE \E l \in Links : Sessions!PeekToken(t, b, l)
    BY <2>4 DEF Sessions!PeekToken
  <2>5. QED
    BY <2>1, <2>2, <2>3, <2>4
<1>4. TabsFine' /\ \A u \in Tabs : tab'[u] = tab[u] \/ (tab'[u].pc \in {"mark", "create"} => tab'[u].pass = pass)
  BY <1>1, <1>3, Begins
<1>5. QED
  BY <1>1, <1>2, <1>4, CookiesKept, Keep

LEMMA AnswerKeeps ==
  ASSUME SessionsInv, NEW t \in Tabs, Sessions!Answer(t)
  PROVE  SessionsInv'
<1>1. /\ cookie' = Sessions!AnswerCookie(t) /\ tab' = [tab EXCEPT ![t] = Sessions!Idle]
      /\ UNCHANGED <<now, pass, session, link, started, spent, overtaken>>
  BY DEF Sessions!Answer
<1>2. CookiesFine'
  <2>1. TabFine(tab[t]) /\ tab[t] \in Tab
    BY DEF SessionsInv, SessionsShape, TabsFine
  <2>2. PICK c \in {tab[t].new, None}, b \in Browsers \cup {None} : cookie' = [cookie EXCEPT ![b] = c] \/ cookie' = cookie
    BY <1>1, <2>1 DEF Sessions!AnswerCookie, Tab
  <2>3. c \in Nat \cup {None} /\ (c # None => c <= started)
    BY <2>1 DEF Tab, TabFine
  <2>4. QED
    BY <1>1, <2>2, <2>3 DEF SessionsInv, SessionsShape, CookiesFine
<1>3. TabsFine' /\ tab'[t] = Sessions!Idle /\ \A u \in Tabs : u # t => tab'[u] = tab[u]
  BY <1>1, IdleTab, GoesOn
<1>4. QED
  BY <1>1, <1>2, <1>3, IdleTab, LinksKept, Keep DEF SessionsInv, SessionsShape, NumbersFine

LEMMA RequestGoesOn ==
  ASSUME SessionsInv, NEW t \in Tabs,
         Sessions!Refuse(t) \/ Sessions!DestroySession(t) \/ Sessions!Confirm(t) \/ Sessions!Hangup(t)
  PROVE  SessionsInv'
<1> DEFINE c == [tab[t] EXCEPT !.pc = "clear"]
           m1 == [tab[t] EXCEPT !.pc = "mark"]
           m == [m1 EXCEPT !.pass = pass]
<1>1. tab[t] \in Tab
  BY DEF SessionsInv, SessionsShape, TabsFine
<1>2. c \in Tab /\ c.sent = tab[t].sent /\ c.new = tab[t].new /\ c.pc = "clear"
  BY <1>1 DEF Tab
<1>3. m1 \in Tab /\ m1.sent = tab[t].sent /\ m1.new = tab[t].new /\ m1.pc = "mark"
  BY <1>1 DEF Tab
<1>4. UNCHANGED <<now, pass, link, cookie, started, spent, overtaken>> /\ session' \subseteq session
  BY DEF Sessions!Refuse, Sessions!DestroySession, Sessions!Confirm, Sessions!Hangup
<1>5. PICK q \in {Sessions!Idle, c, m} : tab' = [tab EXCEPT ![t] = q]
  BY <1>1 DEF Sessions!Refuse, Sessions!DestroySession, Sessions!Confirm, Sessions!Hangup, Sessions!Go, SessionsInv, SessionsShape, TabsFine
<1> HIDE DEF c, m1
<1>6. m \in Tab /\ m.sent = tab[t].sent /\ m.new = tab[t].new /\ m.pc = "mark" /\ m.pass = pass
  BY <1>3 DEF Tab, SessionsInv, SessionsShape, NumbersFine
<1> HIDE DEF m
<1>7. /\ q \in Tab /\ q.pc # "form" /\ q.sent \in {tab[t].sent, None} /\ q.new \in {tab[t].new, None}
      /\ q.pc \in {"mark", "create"} => q.pass = pass
  BY <1>2, <1>6, IdleTab
<1>8. TabsFine' /\ tab'[t] = q /\ \A u \in Tabs : u # t => tab'[u] = tab[u]
  BY <1>4, <1>5, <1>7, GoesOn
<1>9. QED
  BY <1>4, <1>7, <1>8, LinksKept, CookiesKept, Keep DEF SessionsInv, SessionsShape, NumbersFine

LEMMA TabsKept ==
  ASSUME SessionsInv, UNCHANGED <<tab, started>>
  PROVE  TabsFine'
BY DEF SessionsInv, SessionsShape, TabsFine, TabFine

LEMMA LinkSent ==
  ASSUME SessionsInv, NEW l \in Links, NEW purpose \in {"signin", "recover"}, Sessions!IssueToken(l, purpose)
  PROVE  SessionsInv'
<1>1. /\ link[l].state = "none" /\ link' = [link EXCEPT ![l] = Sessions!NewLink(purpose)]
      /\ UNCHANGED <<now, pass, session, cookie, tab, started, spent, overtaken>>
  BY DEF Sessions!IssueToken
<1>2. Sessions!NewLink(purpose) \in Link /\ Sessions!NewLink(purpose).state = "fresh"
  BY SessionsAssumption DEF Sessions!NewLink, Link, SessionsInv, SessionsShape, NumbersFine
<1>3. LinksFine' /\ Unspent'
  BY <1>1, <1>2 DEF SessionsInv, SessionsShape, LinksFine, Unspent
<1>4. QED
  BY <1>1, <1>3, TabsKept, CookiesKept, Keep DEF SessionsInv, SessionsShape, NumbersFine

LEMMA UpkeepKeeps ==
  ASSUME SessionsInv, Sessions!PurgeExpiredSessions \/ Sessions!PurgeExpiredTokens \/ Sessions!Tick
  PROVE  SessionsInv'
<1>1. /\ now' \in Int /\ session' \subseteq session
      /\ UNCHANGED <<pass, cookie, tab, started, spent, overtaken>>
  BY DEF Sessions!PurgeExpiredSessions, Sessions!PurgeExpiredTokens, Sessions!Tick, SessionsInv, SessionsShape, NumbersFine
<1>2. LinksFine' /\ Unspent'
  <2>1. CASE UNCHANGED link
    BY <1>1, <2>1, LinksKept
  <2>2. CASE Sessions!PurgeExpiredTokens
    <3>1. \A l \in Links : /\ link'[l] \in Link
                           /\ link'[l].state \in {"none", "fresh"} => link'[l] = link[l]
      BY <2>2 DEF Sessions!PurgeExpiredTokens, SessionsInv, SessionsShape, LinksFine, Link
    <3>2. link' \in [Links -> Link]
      BY <2>2, <3>1 DEF Sessions!PurgeExpiredTokens
    <3>3. QED
      BY <1>1, <3>1, <3>2 DEF SessionsInv, SessionsShape, LinksFine, Unspent
  <2>3. QED
    BY <2>1, <2>2 DEF Sessions!PurgeExpiredSessions, Sessions!Tick
<1>3. QED
  BY <1>1, <1>2, TabsKept, CookiesKept, Keep

-----------------------------------------------------------------------------
(* What begins a session, ends them all or marks one *)

\* The number of a new session is none that a confirmation under way names.
LEMMA SessionBegins ==
  ASSUME SessionsInv, NEW t \in Tabs, Sessions!CreateSession(t)
  PROVE  SessionsInv'
<1> DEFINE new == Sessions!NewSession(t)
<1>1. /\ started' = started + 1 /\ session' = session \cup {new} /\ tab[t].pc = "create"
      /\ tab' = [tab EXCEPT ![t].pc = "give", ![t].new = started + 1, ![t].pass = 0]
      /\ UNCHANGED <<now, pass, link, cookie, spent, overtaken>>
  BY DEF Sessions!CreateSession
<1>2. tab[t] \in Tab /\ TabFine(tab[t]) /\ started \in Nat /\ pass \in Int /\ now \in Int
  BY DEF SessionsInv, SessionsShape, NumbersFine, TabsFine
<1> DEFINE g == [tab[t] EXCEPT !.pc = "give"]
           h == [g EXCEPT !.new = started + 1]
           q == [h EXCEPT !.pass = 0]
<1>3. tab' = [tab EXCEPT ![t] = q]
  BY <1>1 DEF SessionsInv, SessionsShape, TabsFine
<1>4. g \in Tab /\ g.sent = tab[t].sent /\ g.pc = "give"
  BY <1>2 DEF Tab
<1> HIDE DEF g
<1>5. h \in Tab /\ h.sent = tab[t].sent /\ h.pc = "give" /\ h.new = started + 1
  BY <1>2, <1>4 DEF Tab
<1> HIDE DEF h
<1>6. q \in Tab /\ q.sent = tab[t].sent /\ q.pc = "give" /\ q.new = started + 1
  BY <1>5 DEF Tab
<1>7. /\ new \in Session /\ new.id = started + 1 /\ new.proof = tab[t].pass /\ new.of = t
      /\ new.mark = None
  BY <1>2, SessionsAssumption DEF Sessions!NewSession, Session, Tab
<1> HIDE DEF q, new
<1>8. TabsFine' /\ tab'[t] = q /\ \A u \in Tabs : u # t => tab'[u] = tab[u]
  <2>1. TabsFine /\ started' \in Nat /\ started <= started'
    BY <1>1, <1>2 DEF SessionsInv, SessionsShape
  <2>2. (q.sent # None => q.sent <= started') /\ (q.new # None => q.new <= started') /\ q.pc # "form"
    BY <1>1, <1>2, <1>6, SessionsAssumption DEF TabFine, Tab
  <2>3. QED
    BY <1>2, <1>3, <1>6, <2>1, <2>2, TabSet
<1>9. SessionsFine'
  BY <1>1, <1>2, <1>7 DEF SessionsInv, SessionsShape, SessionsFine, Session
<1>10. NumbersFine' /\ CookiesFine'
  BY <1>1, <1>2, SessionsAssumption DEF SessionsInv, SessionsShape, NumbersFine, CookiesFine
<1>11. Current'
  <2>1. \A s \in session' : s.mark # None => s.markPass = pass
    BY <1>1, <1>7 DEF SessionsInv, Current
  <2>2. ASSUME NEW u \in Tabs, NEW s \in session', tab'[u].pc = "mark", tab'[u].sent = s.id
        PROVE  tab'[u].pass = pass
    <3>1. tab'[u] = tab[u]
      BY <1>6, <1>8, <2>2
    <3>2. tab[u].sent # None => tab[u].sent <= started
      BY DEF SessionsInv, SessionsShape, TabsFine, TabFine
    <3>3. s # new
      BY <1>2, <1>7, <2>2, <3>1, <3>2, SessionsAssumption
    <3>4. s \in session
      BY <1>1, <3>3
    <3>5. QED
      BY <2>2, <3>1, <3>4 DEF SessionsInv, Current
  <2>3. QED
    BY <1>1, <2>1, <2>2 DEF Current
<1>12. LinksFine' /\ Unspent'
  BY <1>1, LinksKept
<1>13. new.proof # pass => t \in overtaken /\ \A s \in session : s.proof # pass => s.of # t
  BY <1>1, <1>7 DEF SessionsInv, Waiting, Former
<1>14. Proven'
  BY <1>1, <1>7, <1>13 DEF SessionsInv, Proven, Former
<1>15. Waiting'
  <2>1. SUFFICES ASSUME NEW u \in Tabs, tab'[u].pc = "create", tab'[u].pass # pass
                 PROVE  u \in overtaken /\ \A s \in session' : s.proof # pass => s.of # u
    BY <1>1 DEF Waiting, Former
  <2>2. u # t /\ tab'[u] = tab[u]
    BY <1>6, <1>8, <2>1
  <2>3. QED
    BY <1>1, <1>7, <2>1, <2>2 DEF SessionsInv, Waiting, Former
<1>16. QED
  BY <1>8, <1>9, <1>10, <1>11, <1>12, <1>14, <1>15 DEF SessionsInv, SessionsShape

\* A recovery leaves no session.
LEMMA RecoveryKeeps ==
  ASSUME SessionsInv, NEW t \in Tabs, Sessions!RecoverPassword(t)
  PROVE  SessionsInv'
<1>1. /\ Sessions!Redeem(tab[t].by) /\ tab[t].pc = "form" /\ pass' = pass + 1 /\ session' = {}
      /\ tab' = [tab EXCEPT ![t].pc = "create", ![t].by = None, ![t].pass = pass']
      /\ overtaken' = {u \in Tabs : tab[u].pc = "create"}
      /\ UNCHANGED <<now, cookie, started>>
  BY DEF Sessions!RecoverPassword
<1>2. tab[t] \in Tab /\ tab[t].by \in Links /\ pass' \in Int
  BY <1>1 DEF SessionsInv, SessionsShape, NumbersFine, TabsFine, TabFine
<1>3. PICK known : known = pass'
  OBVIOUS
<1> DEFINE g == [tab[t] EXCEPT !.pc = "create"]
           h == [g EXCEPT !.by = None]
           q == [h EXCEPT !.pass = known]
<1>4. tab' = [tab EXCEPT ![t] = q]
  BY <1>1, <1>3 DEF SessionsInv, SessionsShape, TabsFine
<1>5. g \in Tab /\ g.sent = tab[t].sent /\ g.new = tab[t].new /\ g.pc = "create"
  BY <1>2 DEF Tab
<1> HIDE DEF g
<1>6. h \in Tab /\ h.sent = tab[t].sent /\ h.new = tab[t].new /\ h.pc = "create"
  BY <1>5 DEF Tab
<1> HIDE DEF h
<1>7. q \in Tab /\ q.sent = tab[t].sent /\ q.new = tab[t].new /\ q.pc = "create" /\ q.pass = known
  BY <1>2, <1>3, <1>6 DEF Tab
<1> HIDE DEF q
<1>8. TabsFine' /\ tab'[t] = q /\ \A u \in Tabs : u # t => tab'[u] = tab[u]
  BY <1>1, <1>4, <1>7, GoesOn
<1>9. LinksFine' /\ Unspent'
  BY <1>1, <1>2, Redeemed
<1>10. NumbersFine' /\ SessionsFine' /\ Current' /\ Proven'
  BY <1>1, <1>2 DEF SessionsInv, SessionsShape, NumbersFine, SessionsFine, Current, Proven
<1>11. Waiting'
  BY <1>1, <1>3, <1>7, <1>8 DEF Waiting
<1>12. QED
  BY <1>1, <1>8, <1>9, <1>10, <1>11, CookiesKept DEF SessionsInv, SessionsShape

LEMMA MarkKeeps ==
  ASSUME SessionsInv, NEW t \in Tabs, Sessions!MarkReauthenticated(t)
  PROVE  SessionsInv'
<1>1. /\ tab[t].pc = "mark" /\ tab' = [tab EXCEPT ![t].pc = "done", ![t].pass = 0]
      /\ session' = {IF s.id = tab[t].sent THEN Sessions!Marked(s, t) ELSE s : s \in session}
      /\ UNCHANGED <<now, pass, link, cookie, started, spent, overtaken>>
  BY DEF Sessions!MarkReauthenticated
<1>2. tab[t] \in Tab /\ now \in Int
  BY DEF SessionsInv, SessionsShape, TabsFine, NumbersFine
<1> DEFINE g == [tab[t] EXCEPT !.pc = "done"]
           q == [g EXCEPT !.pass = 0]
<1>3. tab' = [tab EXCEPT ![t] = q]
  BY <1>1 DEF SessionsInv, SessionsShape, TabsFine
<1>4. g \in Tab /\ g.sent = tab[t].sent /\ g.new = tab[t].new /\ g.pc = "done"
  BY <1>2 DEF Tab
<1> HIDE DEF g
<1>5. q \in Tab /\ q.sent = tab[t].sent /\ q.new = tab[t].new /\ q.pc = "done"
  BY <1>4 DEF Tab
<1> HIDE DEF q
<1>6. TabsFine' /\ tab'[t] = q /\ \A u \in Tabs : u # t => tab'[u] = tab[u]
  BY <1>1, <1>3, <1>5, GoesOn
<1>7. ASSUME NEW s \in session
      PROVE  /\ Sessions!Marked(s, t) \in Session /\ Sessions!Marked(s, t).id = s.id /\ Sessions!Marked(s, t).proof = s.proof
             /\ Sessions!Marked(s, t).of = s.of
             /\ Sessions!Marked(s, t).markPass = tab[t].pass
  <2>1. s \in Session /\ tab[t].pass \in Int
    BY <1>2 DEF SessionsInv, SessionsShape, SessionsFine, Tab
  <2> DEFINE x == [s EXCEPT !.mark = now]
  <2>2. x \in Session /\ x.id = s.id /\ x.proof = s.proof /\ x.of = s.of
    BY <1>2, <2>1 DEF Session
  <2>3. Sessions!Marked(s, t) = [x EXCEPT !.markPass = tab[t].pass]
    BY DEF Sessions!Marked
  <2> HIDE DEF x
  <2>4. QED
    BY <2>1, <2>2, <2>3 DEF Session
<1>8. \A x \in session' : \E s \in session :
        /\ x.id = s.id
        /\ x = s \/ (s.id = tab[t].sent /\ x = Sessions!Marked(s, t))
  BY <1>1, <1>7
<1>9. \A s \in session : s \in Session /\ s.id <= started
  BY DEF SessionsInv, SessionsShape, SessionsFine
<1>10. SessionsFine'
  BY <1>1, <1>7, <1>8, <1>9 DEF SessionsFine
<1>11. ASSUME NEW x \in session' PROVE x.mark # None => x.markPass = pass
  BY <1>1, <1>7, <1>8 DEF SessionsInv, Current
<1>12. ASSUME NEW u \in Tabs, NEW x \in session', tab'[u].pc = "mark", tab'[u].sent = x.id
       PROVE  tab'[u].pass = pass
  BY <1>5, <1>6, <1>8, <1>12 DEF SessionsInv, Current
<1>13. Current'
  BY <1>1, <1>11, <1>12 DEF Current
<1>14. NumbersFine'
  BY <1>1 DEF SessionsInv, SessionsShape, NumbersFine
<1>15. \A x \in session' : \E s \in session :
         x.id = s.id /\ x.proof = s.proof /\ x.of = s.of /\ x = (IF s.id = tab[t].sent THEN Sessions!Marked(s, t) ELSE s)
  BY <1>1, <1>7
<1>16. Proven'
  <2>1. \A x \in session' : Former(x)' => x.of \in overtaken'
    BY <1>1, <1>15 DEF SessionsInv, Proven, Former
  <2>2. ASSUME NEW x \in session', NEW y \in session', x.of = y.of, x.proof # pass, y.proof # pass
        PROVE  x = y
    <3>1. PICK s \in session :
            x.proof = s.proof /\ x.of = s.of /\ x = (IF s.id = tab[t].sent THEN Sessions!Marked(s, t) ELSE s)
      BY <1>15
    <3>2. PICK u \in session :
            y.proof = u.proof /\ y.of = u.of /\ y = (IF u.id = tab[t].sent THEN Sessions!Marked(u, t) ELSE u)
      BY <1>15
    <3>3. s = u
      BY <2>2, <3>1, <3>2 DEF SessionsInv, Proven, Former
    <3>4. QED
      BY <3>1, <3>2, <3>3
  <2>3. QED
    BY <1>1, <2>1, <2>2 DEF Proven, Former
<1>17. Waiting'
  <2>1. \A u \in Tabs : tab'[u].pc = "create" => tab'[u] = tab[u]
    BY <1>5, <1>6
  <2>2. QED
    BY <1>1, <1>15, <2>1 DEF SessionsInv, Waiting, Former
<1>18. QED
  BY <1>1, <1>6, <1>10, <1>13, <1>14, <1>16, <1>17, CookiesKept, LinksKept DEF SessionsInv, SessionsShape

LEMMA SessionsStep ==
  ASSUME SessionsInv, [Sessions!Next]_Sessions!vars
  PROVE  SessionsInv'
<1>1. CASE UNCHANGED Sessions!vars
  <2>1. UNCHANGED <<now, pass, session, link, cookie, tab, started, spent, overtaken>>
    BY <1>1 DEF Sessions!vars
  <2>2. QED
    BY <2>1, TabsKept, CookiesKept, LinksKept, Keep DEF SessionsInv, SessionsShape, NumbersFine
<1>2. ASSUME NEW t \in Tabs, NEW b \in Browsers,
             \/ Sessions!Authenticate(t, b) \/ Sessions!Resolve(t, b)
             \/ \E l \in Links : Sessions!FollowMagic(t, b, l) \/ Sessions!PeekToken(t, b, l)
      PROVE  SessionsInv'
  BY <1>2, RequestBegins
<1>3. ASSUME NEW t \in Tabs,
             \/ Sessions!RecoverPassword(t) \/ Sessions!Refuse(t) \/ Sessions!CreateSession(t) \/ Sessions!DestroySession(t)
             \/ Sessions!Confirm(t) \/ Sessions!MarkReauthenticated(t) \/ Sessions!Answer(t) \/ Sessions!Hangup(t)
      PROVE  SessionsInv'
  BY <1>3, RecoveryKeeps, RequestGoesOn, SessionBegins, MarkKeeps, AnswerKeeps
<1>4. ASSUME NEW l \in Links, NEW purpose \in {"signin", "recover"}, Sessions!IssueToken(l, purpose)
      PROVE  SessionsInv'
  BY <1>4, LinkSent
<1>5. CASE Sessions!PurgeExpiredSessions \/ Sessions!PurgeExpiredTokens \/ Sessions!Tick
  BY <1>5, UpkeepKeeps
<1>6. QED
  BY <1>1, <1>2, <1>3, <1>4, <1>5 DEF Sessions!Next

-----------------------------------------------------------------------------
(* Registration *)

Account == [email : Emails, role : {"user", "owner"}, via : InviteCodes \cup {None}]
Invitation == [state : {"none", "fresh", "used", "expired", "purged"}, email : Emails \cup {None}]
Form == [pc : {"idle", "create", "mail"}, email : Emails \cup {None}, code : InviteCodes \cup {None}]

RegistrationType ==
  /\ account \subseteq Account
  /\ code \in [InviteCodes -> Invitation]
  /\ form \in [Tabs -> Form] /\ \A t \in Tabs : form[t].pc = "create" => form[t].email \in Emails

\* An address has one account, the instance one owner and a code one guest.
OneEach ==
  \A a, b \in account :
    a.email = b.email \/ (a.role = "owner" /\ b.role = "owner") \/ (a.via = b.via /\ a.via # None) => a = b

\* A code with a guest is spent, and was sent to the address of the guest.
Spent == \A a \in account : a.via # None => a.email = code[a.via].email /\ code[a.via].state \in {"used", "purged"}

Used == \A c \in InviteCodes : code[c].state = "used" => \E a \in account : a.via = c

RegistrationInv == RegistrationType /\ OneEach /\ Spent /\ Used

LEMMA RegistrationInit ==
  ASSUME Registration!Init
  PROVE  RegistrationInv
<1>1. Registration!NoForm \in Form /\ Registration!NoForm.pc = "idle"
  BY DEF Registration!NoForm, Form
<1>2. Registration!NoCode \in Invitation /\ Registration!NoCode.state = "none"
  BY DEF Registration!NoCode, Invitation
<1>3. QED
  BY <1>1, <1>2 DEF Registration!Init, RegistrationInv, RegistrationType, OneEach, Spent, Used

\* A form goes on, or is dropped.
LEMMA FormSet ==
  ASSUME RegistrationInv, NEW t \in Tabs, NEW f \in Form, form' = [form EXCEPT ![t] = f],
         f.pc = "create" => f.email \in Emails, account' \subseteq Account, code' \in [InviteCodes -> Invitation]
  PROVE  RegistrationType'
BY DEF RegistrationInv, RegistrationType

\* What a step that adds no account may do to the codes.
LEMMA CodesMove ==
  ASSUME RegistrationInv, RegistrationType', account' = account,
         \A c \in InviteCodes :
           \/ code'[c] = code[c]
           \/ code[c].state = "none" /\ code'[c].state = "fresh"
           \/ code[c].state = "fresh" /\ code'[c].state = "expired"
           \/ /\ code[c].state \in {"used", "expired"} /\ code'[c].state = "purged"
              /\ code'[c].email = code[c].email
  PROVE  RegistrationInv'
<1>1. \A a \in account : a.via \in InviteCodes \cup {None}
  BY DEF RegistrationInv, RegistrationType, Account
<1>2. OneEach'
  BY DEF RegistrationInv, OneEach
<1>3. Spent' /\ Used'
  BY <1>1 DEF RegistrationInv, Spent, Used
<1>4. QED
  BY <1>2, <1>3 DEF RegistrationInv

LEMMA CreateKeeps ==
  ASSUME RegistrationInv, NEW t \in Tabs, Registration!Create(t)
  PROVE  RegistrationInv'
<1> PICK e, by : e = form[t].email /\ by = form[t].code
  OBVIOUS
<1> DEFINE redeemed == Registration!Redeemed(by, e)
           made == ~Registration!Taken(e) /\ (open \/ (by # None /\ redeemed))
           new == Registration!Welcomed(t)
           spends == ~open /\ by # None /\ redeemed
           f == IF made THEN [form[t] EXCEPT !.pc = "mail"] ELSE Registration!NoForm
<1>1. /\ form[t].pc = "create"
      /\ account' = IF made THEN account \cup {new} ELSE account
      /\ code' = IF spends THEN [code EXCEPT ![by].state = "used"] ELSE code
      /\ form' = [form EXCEPT ![t] = f]
  BY DEF Registration!Create, RegistrationInv, RegistrationType
<1>2. form[t] \in Form /\ e \in Emails /\ by \in InviteCodes \cup {None}
  BY <1>1 DEF RegistrationInv, RegistrationType, Form
<1>3. f \in Form /\ f.pc # "create"
  BY <1>2 DEF Registration!NoForm, Form
<1>4. /\ new \in Account /\ new.email = e /\ new.role = "user" /\ new.via = IF open THEN None ELSE by
  BY <1>2 DEF Registration!Welcomed, Account
<1>5. spends => /\ made /\ by \in InviteCodes /\ code[by].state = "fresh" /\ code[by].email = e
                /\ code'[by].state = "used" /\ code'[by].email = e
                /\ \A c \in InviteCodes \ {by} : code'[c] = code[c]
  BY <1>1, <1>2 DEF Registration!Redeemed, RegistrationInv, RegistrationType, Invitation
<1>6. made => /\ \A a \in account : a.email # e
              /\ new.via # None => spends
  BY <1>4 DEF Registration!Taken
<1>7. code' \in [InviteCodes -> Invitation] /\ account' \subseteq Account
  BY <1>1, <1>2, <1>4 DEF RegistrationInv, RegistrationType, Invitation
<1> HIDE DEF made, new, f, spends
<1>8. RegistrationType'
  BY <1>1, <1>3, <1>7, FormSet
<1>9. CASE ~made
  <2>1. account' = account /\ code' = code
    BY <1>1, <1>5, <1>9
  <2>2. QED
    BY <1>8, <2>1, CodesMove
<1>10. CASE made
  <2>1. account' = account \cup {new} /\ \A a \in account : a.via \in InviteCodes \cup {None}
    BY <1>1, <1>10 DEF RegistrationInv, RegistrationType, Account
  <2>2. \A a \in account : a.via # None => a.via # new.via
    <3>1. CASE new.via = None
      BY <3>1
    <3>2. CASE new.via # None
      <4>1. new.via = by /\ code[by].state = "fresh"
        BY <1>4, <1>5, <1>6, <1>10, <3>2
      <4>2. QED
        BY <4>1 DEF RegistrationInv, Spent
    <3>3. QED
      BY <3>1, <3>2
  <2>3. OneEach'
    BY <1>4, <1>6, <1>10, <2>1, <2>2 DEF RegistrationInv, OneEach
  <2>4. CASE spends
    <3>1. new.via = by \/ new.via = None
      BY <1>4
    <3>2. new.via = by
      BY <1>4, <2>4 DEF spends
    <3>3. \A a \in account : a.via # by
      BY <1>5, <2>4 DEF RegistrationInv, Spent, spends
    <3>4. Spent'
      BY <1>4, <1>5, <2>1, <2>4, <3>2, <3>3 DEF RegistrationInv, Spent
    <3>5. Used'
      BY <1>5, <2>1, <2>4, <3>2 DEF RegistrationInv, Used
    <3>6. QED
      BY <1>8, <2>3, <3>4, <3>5 DEF RegistrationInv
  <2>5. CASE ~spends
    <3>1. code' = code /\ new.via = None
      BY <1>1, <1>6, <1>10, <2>5
    <3>2. Spent' /\ Used'
      BY <2>1, <3>1 DEF RegistrationInv, Spent, Used
    <3>3. QED
      BY <1>8, <2>3, <3>2 DEF RegistrationInv
  <2>6. QED
    BY <2>4, <2>5
<1>11. QED
  BY <1>9, <1>10

LEMMA RestartKeeps ==
  ASSUME RegistrationInv, NEW e \in Emails \cup {None}, NEW mode, Registration!Restart(e, mode)
  PROVE  RegistrationInv'
<1>1. code' = code /\ form' = [t \in Tabs |-> Registration!NoForm]
  BY DEF Registration!Restart
<1>2. Registration!NoForm \in Form /\ Registration!NoForm.pc = "idle"
  BY DEF Registration!NoForm, Form
<1>3. CASE account' = account
  <2>1. RegistrationType'
    BY <1>1, <1>2, <1>3 DEF RegistrationInv, RegistrationType
  <2>2. QED
    BY <1>1, <1>3, <2>1, CodesMove
<1>4. CASE account' # account
  <2> DEFINE new == Registration!OwnerFrom(e)
  <2>1. account' = account \cup {new} /\ e # None /\ Registration!MayBootstrap(e)
    BY <1>4 DEF Registration!Restart
  <2>2. new \in Account /\ new.email = e /\ new.role = "owner" /\ new.via = None
    BY <2>1 DEF Registration!OwnerFrom, Account
  <2>3. \A a \in account : a.email # e /\ a.role # "owner"
    BY <2>1 DEF Registration!MayBootstrap, Registration!Owned, Registration!Taken
  <2> HIDE DEF new
  <2>4. RegistrationType'
    BY <1>1, <1>2, <2>1, <2>2 DEF RegistrationInv, RegistrationType
  <2>5. OneEach'
    BY <2>1, <2>2, <2>3 DEF RegistrationInv, OneEach
  <2>6. Spent' /\ Used'
    BY <1>1, <2>1, <2>2 DEF RegistrationInv, Spent, Used
  <2>7. QED
    BY <2>4, <2>5, <2>6 DEF RegistrationInv
<1>5. QED
  BY <1>3, <1>4

LEMMA RegistrationStep ==
  ASSUME RegistrationInv, [Registration!Next]_Registration!vars
  PROVE  RegistrationInv'
<1>1. CASE UNCHANGED Registration!vars
  BY <1>1 DEF Registration!vars, RegistrationInv, RegistrationType, OneEach, Spent, Used
<1>2. ASSUME NEW c \in InviteCodes, Registration!Fade(c) \/ \E e \in Emails : Registration!Invite(c, e)
      PROVE  RegistrationInv'
  <2>1. UNCHANGED <<account, form>>
    BY <1>2 DEF Registration!Fade, Registration!Invite
  <2>2. PICK x \in Invitation :
          /\ code' = [code EXCEPT ![c] = x]
          /\ \/ code[c].state = "none" /\ x.state = "fresh"
             \/ code[c].state = "fresh" /\ x.state = "expired"
             \/ code[c].state \in {"used", "expired"} /\ x.state = "purged" /\ x.email = code[c].email
    <3>1. code \in [InviteCodes -> Invitation] /\ code[c] \in Invitation
      BY DEF RegistrationInv, RegistrationType
    <3>2. CASE Registration!Fade(c)
      <4>1. \A s \in {"expired", "purged"} :
              LET x == [code[c] EXCEPT !.state = s] IN x \in Invitation /\ x.state = s /\ x.email = code[c].email
        BY <3>1 DEF Invitation
      <4>2. PICK s \in {"expired", "purged"} :
              /\ code' = [code EXCEPT ![c] = [code[c] EXCEPT !.state = s]]
              /\ \/ code[c].state = "fresh" /\ s = "expired"
                 \/ code[c].state \in {"used", "expired"} /\ s = "purged"
        BY <3>1, <3>2 DEF Registration!Fade
      <4>3. QED
        BY <4>1, <4>2
    <3>3. CASE \E e \in Emails : Registration!Invite(c, e)
      <4>1. PICK e \in Emails : code[c].state = "none" /\ code' = [code EXCEPT ![c] = [state |-> "fresh", email |-> e]]
        BY <3>3 DEF Registration!Invite
      <4>2. [state |-> "fresh", email |-> e] \in Invitation
        BY DEF Invitation
      <4>3. QED
        BY <4>1, <4>2
    <3>4. QED
      BY <1>2, <3>2, <3>3
  <2>3. RegistrationType'
    BY <2>1, <2>2 DEF RegistrationInv, RegistrationType
  <2>4. \A k \in InviteCodes : code'[k] = IF k = c THEN x ELSE code[k]
    BY <2>2 DEF RegistrationInv, RegistrationType
  <2>5. QED
    BY <2>1, <2>2, <2>3, <2>4, CodesMove
<1>3. ASSUME NEW t \in Tabs,
             \/ \E e \in Emails, c \in InviteCodes \cup {None} : Registration!Submit(t, e, c)
             \/ Registration!SendVerification(t) \/ Registration!Hangup(t)
      PROVE  RegistrationInv'
  <2>1. UNCHANGED <<account, code>>
    BY <1>3 DEF Registration!Submit, Registration!SendVerification, Registration!Hangup
  <2>2. PICK f \in Form : form' = [form EXCEPT ![t] = f] /\ (f.pc = "create" => f.email \in Emails)
    <3>1. Registration!NoForm \in Form /\ Registration!NoForm.pc = "idle"
      BY DEF Registration!NoForm, Form
    <3>2. CASE Registration!SendVerification(t) \/ Registration!Hangup(t)
      BY <3>1, <3>2 DEF Registration!SendVerification, Registration!Hangup
    <3>3. CASE \E e \in Emails, c \in InviteCodes \cup {None} : Registration!Submit(t, e, c)
      <4>1. PICK e \in Emails, c \in InviteCodes \cup {None} :
              form' = [form EXCEPT ![t] = [pc |-> "create", email |-> e, code |-> c]]
        BY <3>3 DEF Registration!Submit
      <4>2. [pc |-> "create", email |-> e, code |-> c] \in Form
        BY DEF Form
      <4>3. QED
        BY <4>1, <4>2
    <3>4. QED
      BY <1>3, <3>2, <3>3
  <2>3. account' \subseteq Account /\ code' \in [InviteCodes -> Invitation]
    BY <2>1 DEF RegistrationInv, RegistrationType
  <2>4. RegistrationType'
    BY <2>2, <2>3, FormSet
  <2>5. QED
    BY <2>1, <2>4, CodesMove
<1>4. ASSUME NEW t \in Tabs, Registration!Create(t) PROVE RegistrationInv'
  BY <1>4, CreateKeeps
<1>5. ASSUME NEW e \in Emails \cup {None}, NEW mode \in BOOLEAN, Registration!Restart(e, mode)
      PROVE  RegistrationInv'
  BY <1>5, RestartKeeps
<1>6. QED
  BY <1>1, <1>2, <1>3, <1>4, <1>5 DEF Registration!Next

\* The guests of a code are one or none.
LEMMA Welcomed ==
  ASSUME RegistrationInv
  PROVE  Registration!Welcome
<1>1. ASSUME NEW c \in InviteCodes
      PROVE  Registration!Cardinality({a \in account : a.via = c}) <= 1
  <2> DEFINE guests == {a \in account : a.via = c}
  <2>1. guests = {} \/ \E a \in account : guests = {a}
    BY RegistrationAssumption DEF RegistrationInv, OneEach
  <2>2. Cardinality(guests) = Registration!Cardinality(guests)
    BY DEF Cardinality, Registration!Cardinality, IsFiniteSet, Registration!IsFiniteSet
  <2> HIDE DEF guests
  <2>3. Cardinality(guests) <= 1
    <3>1. CASE guests = {}
      <4>1. Cardinality({}) = 0
        BY FS_EmptySet
      <4>2. QED
        BY <3>1, <4>1
    <3>2. ASSUME NEW a \in account, guests = {a} PROVE Cardinality(guests) <= 1
      <4>1. Cardinality({a}) = 1
        BY FS_Singleton
      <4>2. QED
        BY <3>2, <4>1
    <3>3. QED
      BY <2>1, <3>1, <3>2
  <2>4. QED
    BY <2>2, <2>3 DEF guests
<1>2. ASSUME NEW c \in InviteCodes
      PROVE  LET guests == {a \in account : a.via = c}
             IN  /\ \A a \in guests : a.email = code[c].email /\ code[c].state \in {"used", "purged"}
                 /\ code[c].state = "used" => guests # {}
  BY RegistrationAssumption DEF RegistrationInv, Spent, Used
<1>3. \A a, b \in account : a.email = b.email \/ (a.role = "owner" /\ b.role = "owner") => a = b
  BY DEF RegistrationInv, OneEach
<1>4. QED
  BY <1>1, <1>2, <1>3 DEF Registration!Welcome

-----------------------------------------------------------------------------
(* Handles *)

HandlesType ==
  /\ handle \in [People -> Names \cup {None}]
  /\ ask \in [Calls -> [account : People \cup {None}, try : Nat]]
  /\ given \subseteq People \X Names

\* The candidates of a before the n-th belong to others.
Passed(a, n) == \A k \in 0..(n - 1) : k < MaxTries => \E b \in People \ {a} : handle[b] = Candidate[a][k]

\* The unique index.
Distinct == \A a, b \in People : handle[a] # None /\ handle[a] = handle[b] => a = b

\* An account has the first of its candidates that nobody else has.
First ==
  \A a \in People : handle[a] # None =>
    \E k \in 0..(MaxTries - 1) : handle[a] = Candidate[a][k] /\ Passed(a, k)

Trying == \A r \in Calls : ask[r].account # None => Passed(ask[r].account, ask[r].try)

Told == \A g \in given : handle[g[1]] = g[2]

HandlesInv == HandlesType /\ Distinct /\ First /\ Trying /\ Told

\* No handle changes: the column is written, but with what is there.
Kept == \A a \in People : handle[a] # None => handle'[a] = handle[a]

LEMMA HandlesInit ==
  ASSUME Handles!Init
  PROVE  HandlesInv
BY HandlesAssumption
  DEF Handles!Init, HandlesInv, HandlesType, Distinct, First, Trying, Told, Handles!Idle, Passed,
      Handles!HandlesAssumption

\* A call that succeeds writes the handle the account has, if it has one.
LEMMA SameHandle ==
  ASSUME HandlesInv, NEW r \in Calls, NEW a \in People,
         ask[r].account = a, ask[r].try < MaxTries, Handles!Free(a, Candidate[a][ask[r].try]), handle[a] # None
  PROVE  handle[a] = Candidate[a][ask[r].try]
<1> DEFINE n == ask[r].try
<1>1. n \in Nat /\ n \in 0..(MaxTries - 1) /\ MaxTries \in Nat
  BY HandlesAssumption DEF HandlesInv, HandlesType, Handles!HandlesAssumption
<1>2. Passed(a, n)
  BY HandlesAssumption DEF HandlesInv, Trying, Handles!HandlesAssumption
<1>3. PICK k \in 0..(MaxTries - 1) : handle[a] = Candidate[a][k] /\ Passed(a, k)
  BY DEF HandlesInv, First
<1>4. ~(k < n)
  <2>1. SUFFICES ASSUME k < n PROVE FALSE
    OBVIOUS
  <2>2. PICK b \in People \ {a} : handle[b] = Candidate[a][k]
    BY <1>1, <1>2, <2>1 DEF Passed
  <2>3. QED
    BY <1>3, <2>2 DEF HandlesInv, Distinct
<1>5. ~(n < k)
  <2>1. SUFFICES ASSUME n < k PROVE FALSE
    OBVIOUS
  <2>2. PICK b \in People \ {a} : handle[b] = Candidate[a][n]
    BY <1>1, <1>3, <2>1 DEF Passed
  <2>3. QED
    BY <2>2 DEF Handles!Free
<1>6. k = n
  BY <1>1, <1>4, <1>5
<1>7. QED
  BY <1>3, <1>6

\* No step changes a handle that is there.
LEMMA HandlesKept ==
  ASSUME HandlesInv, [Handles!Next]_Handles!vars
  PROVE  Kept
<1>1. CASE UNCHANGED Handles!vars
  BY <1>1 DEF Handles!vars, Kept
<1>2. ASSUME NEW r \in Calls, NEW a \in People, Handles!Try(r, a) PROVE Kept
  <2>1. CASE handle' = handle
    BY <2>1 DEF Kept
  <2>2. CASE handle' # handle
    <3>1. /\ ask[r].account = a /\ ask[r].try < MaxTries
          /\ Handles!Free(a, Candidate[a][ask[r].try])
          /\ handle' = [handle EXCEPT ![a] = Candidate[a][ask[r].try]]
      BY <1>2, <2>2 DEF Handles!Try
    <3>2. handle[a] # None => handle[a] = Candidate[a][ask[r].try]
      BY <3>1, SameHandle
    <3>3. QED
      BY <3>1, <3>2 DEF Kept, HandlesInv, HandlesType
  <2>3. QED
    BY <2>1, <2>2
<1>3. ASSUME NEW r \in Calls, NEW a \in People, Handles!EnsureHandle(r, a) PROVE Kept
  BY <1>3 DEF Handles!EnsureHandle, Kept
<1>4. ASSUME NEW r \in Calls, Handles!Cut(r) PROVE Kept
  BY <1>4 DEF Handles!Cut, Kept
<1>5. QED
  BY <1>1, <1>2, <1>3, <1>4 DEF Handles!Next

\* What belongs to others stays theirs.
LEMMA PassedStays ==
  ASSUME HandlesType, Kept, NEW a \in People, NEW n \in Nat, Passed(a, n)
  PROVE  Passed(a, n)'
<1>1. ASSUME NEW k \in 0..(n - 1), k < MaxTries
      PROVE  \E b \in People \ {a} : handle'[b] = Candidate[a][k]
  <2>1. PICK b \in People \ {a} : handle[b] = Candidate[a][k]
    BY <1>1 DEF Passed
  <2>2. Candidate[a][k] \in Names
    BY <1>1, HandlesAssumption DEF Handles!HandlesAssumption
  <2>3. handle[b] # None
    BY <2>1, <2>2, HandlesAssumption DEF Handles!HandlesAssumption
  <2>4. QED
    BY <2>1, <2>3 DEF Kept
<1>2. QED
  BY <1>1 DEF Passed

LEMMA HandlesStep ==
  ASSUME HandlesInv, [Handles!Next]_Handles!vars
  PROVE  HandlesInv'
<1> USE DEF HandlesInv
<1>0. Kept
  BY HandlesKept
<1>1. CASE UNCHANGED Handles!vars
  BY <1>1 DEF Handles!vars, HandlesType, Distinct, First, Trying, Told, Passed
<1>2. ASSUME NEW r \in Calls, NEW a \in People, Handles!Try(r, a) PROVE HandlesInv'
  <2> DEFINE n == ask[r].try
             name == Candidate[a][n]
  <2>0. n \in Nat /\ n \in 0..(MaxTries - 1) /\ MaxTries \in Nat /\ name \in Names /\ Passed(a, n)
        /\ ask[r].account = a /\ name # None
    <3>1. ask[r].account = a /\ n < MaxTries
      BY <1>2 DEF Handles!Try
    <3>2. n \in Nat
      BY DEF HandlesType
    <3>3. /\ MaxTries \in Nat /\ None \notin People /\ None \notin Names
          /\ Candidate \in [People -> [0..(MaxTries - 1) -> Names]]
      BY HandlesAssumption DEF Handles!HandlesAssumption
    <3>4. n \in 0..(MaxTries - 1)
      BY <3>1, <3>2, <3>3
    <3>5. name \in Names
      BY <3>3, <3>4
    <3>6. Passed(a, n)
      BY <3>1, <3>3 DEF Trying
    <3> QED
      BY <3>1, <3>2, <3>3, <3>4, <3>5, <3>6
  <2>1. CASE Handles!Free(a, name)
    <3> HIDE DEF name, n
    <3>1. /\ handle' = [handle EXCEPT ![a] = name]
          /\ given' = given \cup {<<a, name>>}
          /\ ask' = [ask EXCEPT ![r] = Handles!Idle]
      BY <1>2, <2>1 DEF Handles!Try, name, n
    <3>2. HandlesType'
      BY <3>1, <2>0 DEF HandlesType, Handles!Idle
    <3>3. Distinct'
      BY <3>1, <2>0, <2>1 DEF Distinct, Handles!Free, HandlesType
    <3>4. First'
      <4>1. ASSUME NEW c \in People, handle'[c] # None
            PROVE  \E k \in 0..(MaxTries - 1) : handle'[c] = Candidate[c][k] /\ Passed(c, k)'
        <5>1. CASE c = a
          <6>1. PICK k \in 0..(MaxTries - 1) : k = n /\ Passed(a, k)
            BY <2>0
          <6>2. Passed(a, k)'
            BY <1>0, <2>0, <6>1, PassedStays
          <6>3. handle'[a] = Candidate[a][k]
            BY <3>1, <6>1 DEF HandlesType, name
          <6>4. QED
            BY <5>1, <6>1, <6>2, <6>3
        <5>2. CASE c # a
          <6>1. handle[c] # None /\ handle'[c] = handle[c]
            BY <3>1, <4>1, <5>2 DEF HandlesType
          <6>2. PICK k \in 0..(MaxTries - 1) : handle[c] = Candidate[c][k] /\ Passed(c, k)
            BY <6>1 DEF First
          <6>3. Passed(c, k)'
            BY <1>0, <2>0, <6>2, PassedStays
          <6>4. QED
            BY <6>1, <6>2, <6>3
        <5>3. QED
          BY <5>1, <5>2
      <4>2. QED
        BY <4>1 DEF First
    <3>5. Trying'
      <4>1. ASSUME NEW s \in Calls, ask'[s].account # None
            PROVE  Passed(ask[s].account, ask[s].try)'
        <5>1. s # r /\ ask'[s] = ask[s]
          BY <3>1, <4>1 DEF HandlesType, Handles!Idle
        <5>2. Passed(ask[s].account, ask[s].try)
          BY <4>1, <5>1 DEF Trying
        <5>3. ask[s].account \in People /\ ask[s].try \in Nat
          BY <4>1, <5>1 DEF HandlesType
        <5>4. \A x \in People, i \in Nat : Passed(x, i) => Passed(x, i)'
          BY <1>0, PassedStays
        <5>5. QED
          BY <5>1, <5>2, <5>3, <5>4 DEF Passed
      <4>2. QED
        BY <4>1 DEF Trying
    <3>6. Told'
      <4>1. ASSUME NEW g \in given' PROVE handle'[g[1]] = g[2]
        <5>1. CASE g = <<a, name>>
          BY <3>1, <5>1 DEF HandlesType
        <5>2. CASE g \in given
          <6>1. g[1] \in People /\ g[2] \in Names /\ handle[g[1]] = g[2] /\ g[2] # None
            BY <5>2, HandlesAssumption DEF HandlesType, Told, Handles!HandlesAssumption
          <6>2. QED
            BY <6>1, <1>0 DEF Kept
        <5>3. QED
          BY <3>1, <5>1, <5>2
      <4>2. QED
        BY <4>1 DEF Told
    <3>7. QED
      BY <3>2, <3>3, <3>4, <3>5, <3>6
  <2>2. CASE ~Handles!Free(a, name)
    <3>1. handle' = handle /\ given' = given /\ ask' = [ask EXCEPT ![r] = Handles!Following(r, a)]
      BY <1>2, <2>2 DEF Handles!Try
    <3>2. PICK b \in People \ {a} : handle[b] = name
      BY <2>2 DEF Handles!Free
    <3>3. Passed(a, n + 1)
      BY <2>0, <3>2 DEF Passed
    <3>4. Handles!Following(r, a) \in [account : People \cup {None}, try : Nat]
      BY <2>0 DEF Handles!Following, Handles!Idle
    <3>5. HandlesType'
      BY <3>1, <3>4 DEF HandlesType
    <3>6. Trying'
      <4>1. ASSUME NEW s \in Calls, ask'[s].account # None
            PROVE  Passed(ask[s].account, ask[s].try)'
        <5>1. CASE s = r
          <6>1. ask'[r] = [account |-> a, try |-> n + 1]
            BY <3>1, <4>1, <5>1, <2>0 DEF Handles!Following, Handles!Idle, HandlesType
          <6>2. QED
            BY <3>1, <3>3, <5>1, <6>1 DEF Passed
        <5>2. CASE s # r
          BY <3>1, <4>1, <5>2 DEF Trying, HandlesType, Passed
        <5>3. QED
          BY <5>1, <5>2
      <4>2. QED
        BY <4>1 DEF Trying
    <3>7. Distinct' /\ First' /\ Told'
      BY <3>1 DEF Distinct, First, Told, Passed
    <3>8. QED
      BY <3>5, <3>6, <3>7
  <2>3. QED
    BY <2>1, <2>2
<1>3. ASSUME NEW r \in Calls, NEW a \in People, Handles!EnsureHandle(r, a) PROVE HandlesInv'
  <2>1. handle' = handle
    BY <1>3 DEF Handles!EnsureHandle
  <2>2. Distinct' /\ First'
    BY <2>1 DEF Distinct, First, Passed
  <2>3. CASE handle[a] # None
    <3>1. given' = given \cup {<<a, handle[a]>>} /\ ask' = ask /\ handle[a] \in Names
      BY <1>3, <2>3 DEF Handles!EnsureHandle, HandlesType
    <3>2. HandlesType' /\ Trying'
      BY <2>1, <3>1 DEF HandlesType, Trying, Passed
    <3>3. Told'
      BY <2>1, <3>1 DEF Told
    <3>4. QED
      BY <2>2, <3>2, <3>3
  <2>4. CASE handle[a] = None
    <3>1. given' = given /\ ask' = [ask EXCEPT ![r] = [account |-> a, try |-> 0]]
      BY <1>3, <2>4 DEF Handles!EnsureHandle
    <3>2. HandlesType' /\ Told'
      BY <2>1, <3>1 DEF HandlesType, Told
    <3>3. Trying'
      BY <2>1, <3>1 DEF HandlesType, Trying, Passed
    <3>4. QED
      BY <2>2, <3>2, <3>3
  <2>5. QED
    BY <2>3, <2>4
<1>4. ASSUME NEW r \in Calls, Handles!Cut(r) PROVE HandlesInv'
  BY <1>4 DEF Handles!Cut, HandlesType, Distinct, First, Trying, Told, Passed, Handles!Idle
<1>5. QED
  BY <1>1, <1>2, <1>3, <1>4 DEF Handles!Next

-----------------------------------------------------------------------------
(* The second factor *)

FactorRow == [secret : Nat, on : BOOLEAN, last : Nat]
Visit == [pc : {"idle", "begin", "confirm", "clean", "insert", "check", "forget"}, row : FactorRow,
          code : Nat, left : Nat]

\* What a request knows of the row and the code it goes on with.
Remembers(q) ==
  /\ q.row.secret <= secrets
  /\ q.pc = "begin" => ~q.row.on
  /\ q.pc = "check" => q.row.on
  /\ q.pc \in {"confirm", "check"} => q.row.secret \in SecondFactor!Secrets /\ q.code \in 1..MaxStep
  /\ q.pc \in {"clean", "insert"} => q.row.secret \in SecondFactor!Secrets
  /\ q.pc = "insert" => q.left \in 1..RecoveryCodes

RowFine == totp \in FactorRow /\ totp.secret <= secrets /\ secrets \in 0..MaxSecrets
VisitsFine == visit \in [Screens -> Visit] /\ \A h \in Screens : Remembers(visit[h])
AcceptedFine ==
  accepted \in [SecondFactor!Codes -> Nat] /\ \A c \in SecondFactor!Codes : c.secret > secrets => accepted[c] = 0
ShownFine == shown \subseteq SecondFactor!Recovery /\ \A c \in shown : c.secret <= secrets

FactorType == RowFine /\ VisitsFine /\ AcceptedFine /\ ShownFine

\* A code of the secret there is was only accepted for a step that is past.
CodeInv ==
  ~clashed /\ ~crossed => \A c \in SecondFactor!Codes :
    /\ accepted[c] <= 1
    /\ c.secret = totp.secret /\ accepted[c] > 0 => totp.on /\ c.step <= totp.last

Printing(h) == visit[h].pc \in {"clean", "insert"}

\* One request at most prints recovery codes, those of the secret there is; none
\* of that secret was shown before.
PrintInv ==
  ~crossed =>
    /\ \A h \in Screens : Printing(h) => totp.on /\ ~whole /\ visit[h].row.secret = totp.secret
    /\ \A g, h \in Screens : Printing(g) /\ Printing(h) => g = h
    /\ \A h \in Screens : visit[h].pc = "insert" =>
         codes = {c \in SecondFactor!Recovery : c.secret = totp.secret /\ c.n > visit[h].left}
    /\ ~totp.on \/ ~whole => \A c \in shown : c.secret # totp.secret
    /\ totp.on /\ whole => codes = shown

FactorInv == FactorType /\ CodeInv /\ SecondFactor!Enrolled /\ PrintInv

LEMMA RestingVisit ==
  /\ SecondFactor!Resting \in Visit /\ SecondFactor!Resting.pc = "idle"
  /\ SecondFactor!Resting.row = [secret |-> 0, on |-> FALSE, last |-> 0]
BY DEF SecondFactor!Resting, Visit, FactorRow

LEMMA FactorInit ==
  ASSUME SecondFactor!Init
  PROVE  FactorInv
<1>1. totp \in FactorRow /\ totp.secret = 0 /\ ~totp.on /\ secrets = 0
  BY RestingVisit DEF SecondFactor!Init, FactorRow
<1>2. VisitsFine /\ \A h \in Screens : visit[h].pc = "idle"
  BY <1>1, RestingVisit DEF SecondFactor!Init, VisitsFine, Remembers
<1>3. FactorType
  BY <1>1, <1>2, FactorAssumption DEF SecondFactor!Init, FactorType, RowFine, AcceptedFine, ShownFine
<1>4. CodeInv /\ SecondFactor!Enrolled /\ PrintInv
  BY <1>1, <1>2 DEF SecondFactor!Init, CodeInv, SecondFactor!Enrolled, PrintInv, Printing
<1>5. QED
  BY <1>3, <1>4 DEF FactorInv

\* A request goes on with q.
LEMMA VisitSet ==
  ASSUME FactorInv, NEW h \in Screens, NEW q \in Visit, visit' = [visit EXCEPT ![h] = q],
         secrets' \in Nat, secrets <= secrets', Remembers(q)'
  PROVE  VisitsFine' /\ visit'[h] = q /\ \A g \in Screens : g # h => visit'[g] = visit[g]
<1>1. visit' \in [Screens -> Visit] /\ visit'[h] = q /\ \A g \in Screens : g # h => visit'[g] = visit[g]
  BY DEF FactorInv, FactorType, VisitsFine
<1>2. ASSUME NEW g \in Screens PROVE Remembers(visit[g])'
  <2>1. CASE g = h
    BY <1>1, <2>1 DEF Remembers
  <2>2. CASE g # h
    <3>1. visit'[g] = visit[g] /\ Remembers(visit[g]) /\ visit[g].row \in FactorRow /\ secrets \in Nat
      BY <1>1, <2>2 DEF FactorInv, FactorType, VisitsFine, RowFine, Visit
    <3>2. QED
      BY <3>1 DEF Remembers, FactorRow
  <2>3. QED
    BY <2>1, <2>2
<1>3. QED
  BY <1>1, <1>2 DEF VisitsFine

LEMMA ReadAs ==
  ASSUME NEW pc, NEW row0
  PROVE  [SecondFactor!Resting EXCEPT !.pc = pc, !.row = row0]
           = [pc |-> pc, row |-> row0, code |-> 0, left |-> 0]
<1> DEFINE a == [SecondFactor!Resting EXCEPT !.pc = pc]
<1>1. PICK old : SecondFactor!Resting = [pc |-> "idle", row |-> old, code |-> 0, left |-> 0]
  BY DEF SecondFactor!Resting
<1>2. a = [pc |-> pc, row |-> old, code |-> 0, left |-> 0]
  BY <1>1
<1> HIDE DEF a
<1>3. [a EXCEPT !.row = row0] = [pc |-> pc, row |-> row0, code |-> 0, left |-> 0]
  BY <1>2
<1>4. QED
  BY <1>3 DEF a

LEMMA TypedAs ==
  ASSUME NEW pc, NEW row0, NEW typed
  PROVE  [SecondFactor!Resting EXCEPT !.pc = pc, !.row = row0, !.code = typed]
           = [pc |-> pc, row |-> row0, code |-> typed, left |-> 0]
<1> DEFINE b == [SecondFactor!Resting EXCEPT !.pc = pc, !.row = row0]
<1>1. b = [pc |-> pc, row |-> row0, code |-> 0, left |-> 0]
  BY ReadAs
<1> HIDE DEF b
<1>2. [b EXCEPT !.code = typed] = [pc |-> pc, row |-> row0, code |-> typed, left |-> 0]
  BY <1>1
<1>3. QED
  BY <1>2 DEF b

\* A request that goes on to another statement, or to another code.
LEMMA GoesOnWith ==
  /\ \A v \in Visit, pc \in {"clean", "insert", "forget"} :
       /\ [v EXCEPT !.pc = pc] \in Visit /\ [v EXCEPT !.pc = pc].pc = pc
       /\ [v EXCEPT !.pc = pc].row = v.row /\ [v EXCEPT !.pc = pc].left = v.left
  /\ \A v \in Visit, left \in Nat :
       /\ [v EXCEPT !.left = left] \in Visit /\ [v EXCEPT !.left = left].pc = v.pc
       /\ [v EXCEPT !.left = left].row = v.row /\ [v EXCEPT !.left = left].left = left
BY DEF Visit

\* What a request looks like when it has read the row.
LEMMA HasRead ==
  ASSUME FactorInv, NEW pc \in {"begin", "confirm", "check"}, NEW typed \in Nat, pc = "begin" => ~totp.on, pc = "check" => totp.on,
         pc # "begin" => totp.secret # 0 /\ typed \in 1..MaxStep
  PROVE  \A q : q = [pc |-> pc, row |-> totp, code |-> typed, left |-> 0] => q \in Visit /\ Remembers(q)
<1> DEFINE q == [pc |-> pc, row |-> totp, code |-> typed, left |-> 0]
<1>1. totp \in FactorRow /\ totp.secret <= secrets /\ secrets \in 0..MaxSecrets
  BY DEF FactorInv, FactorType, RowFine
<1>2. q \in Visit
  BY <1>1 DEF Visit
<1>3. totp.secret # 0 => totp.secret \in SecondFactor!Secrets
  BY <1>1, FactorAssumption DEF SecondFactor!Secrets, FactorRow
<1>4. q.row = totp /\ q.pc = pc /\ q.code = typed
  OBVIOUS
<1>5. Remembers(q)
  BY <1>1, <1>3, <1>4 DEF Remembers
<1>6. QED
  BY <1>2, <1>5

\* Steps that only change what requests know, and print nothing.
LEMMA Quiet ==
  ASSUME FactorInv, VisitsFine', \A h \in Screens : visit'[h] = visit[h] \/ ~Printing(h)',
         UNCHANGED <<totp, codes, secrets, shown, accepted, proven, clashed, crossed, whole, offs>>
  PROVE  FactorInv'
<1>1. FactorType'
  BY DEF FactorInv, FactorType, RowFine, AcceptedFine, ShownFine
<1>2. CodeInv' /\ SecondFactor!Enrolled'
  BY DEF FactorInv, CodeInv, SecondFactor!Enrolled
<1>3. PrintInv'
  BY DEF FactorInv, PrintInv, Printing
<1>4. QED
  BY <1>1, <1>2, <1>3 DEF FactorInv

LEMMA ReadKeeps ==
  ASSUME FactorInv, NEW h \in Screens,
         \/ SecondFactor!BeginTOTP(h)
         \/ \E typed \in SecondFactor!Codes :
              \/ SecondFactor!ConfirmTOTP(h, typed) \/ SecondFactor!WrongCode(h, typed)
              \/ SecondFactor!CheckSecondFactor(h, typed)
  PROVE  FactorInv'
<1>1. UNCHANGED <<totp, codes, secrets, shown, accepted, proven, clashed, crossed, whole, offs>>
  BY DEF SecondFactor!BeginTOTP, SecondFactor!ConfirmTOTP, SecondFactor!WrongCode, SecondFactor!CheckSecondFactor,
         SecondFactor!history
<1>2. \/ visit' = visit
      \/ \E pc \in {"begin", "confirm", "check"}, typed \in Nat :
           /\ visit' = [visit EXCEPT ![h] = [pc |-> pc, row |-> totp, code |-> typed, left |-> 0]]
           /\ pc = "begin" => ~totp.on
           /\ pc = "check" => totp.on
           /\ pc # "begin" => totp.secret # 0 /\ typed \in 1..MaxStep
  <2>1. [SecondFactor!Resting EXCEPT !.pc = "begin", !.row = totp]
          = [pc |-> "begin", row |-> totp, code |-> 0, left |-> 0]
    BY ReadAs
  <2>2. \A pc, typed :
          [SecondFactor!Resting EXCEPT !.pc = pc, !.row = totp, !.code = typed]
            = [pc |-> pc, row |-> totp, code |-> typed, left |-> 0]
    BY TypedAs
  <2>3. CASE SecondFactor!BeginTOTP(h) \/ \E typed \in SecondFactor!Codes : SecondFactor!WrongCode(h, typed)
    BY <2>1, <2>3 DEF SecondFactor!BeginTOTP, SecondFactor!WrongCode
  <2>4. ASSUME NEW typed \in SecondFactor!Codes,
               SecondFactor!ConfirmTOTP(h, typed) \/ SecondFactor!CheckSecondFactor(h, typed)
        PROVE  \E pc \in {"confirm", "check"} :
                 /\ visit' = [visit EXCEPT ![h] = [pc |-> pc, row |-> totp, code |-> typed.step, left |-> 0]]
                 /\ totp.secret # 0 /\ typed.step \in 1..MaxStep /\ typed.step \in Nat
                 /\ pc = "check" => totp.on
    <3>1. typed.step \in 1..MaxStep /\ typed.step \in Nat /\ typed.secret # 0
      BY FactorAssumption DEF SecondFactor!Codes, SecondFactor!Secrets
    <3>2. PICK pc \in {"confirm", "check"} :
            /\ pc = "check" => totp.on
            /\ visit' = [visit EXCEPT ![h] = [SecondFactor!Resting EXCEPT !.pc = pc, !.row = totp, !.code = typed.step]]
      BY <2>4 DEF SecondFactor!ConfirmTOTP, SecondFactor!CheckSecondFactor
    <3>3. totp.secret # 0
      BY <2>4, <3>1 DEF SecondFactor!ConfirmTOTP, SecondFactor!CheckSecondFactor, SecondFactor!Matches
    <3>4. QED
      BY <2>2, <3>1, <3>2, <3>3
  <2>5. QED
    BY <2>3, <2>4
<1>3. CASE visit' = visit
  <2>1. VisitsFine'
    BY <1>1, <1>3 DEF FactorInv, FactorType, VisitsFine, Remembers
  <2>2. QED
    BY <1>1, <1>3, <2>1, Quiet
<1>4. ASSUME NEW pc \in {"begin", "confirm", "check"}, NEW typed \in Nat,
             visit' = [visit EXCEPT ![h] = [pc |-> pc, row |-> totp, code |-> typed, left |-> 0]],
             pc = "begin" => ~totp.on, pc = "check" => totp.on,
             pc # "begin" => totp.secret # 0 /\ typed \in 1..MaxStep
      PROVE  FactorInv'
  <2>1. PICK q : q = [pc |-> pc, row |-> totp, code |-> typed, left |-> 0]
    OBVIOUS
  <2>2. q \in Visit /\ Remembers(q) /\ q.pc \notin {"clean", "insert"}
    BY <1>4, <2>1, HasRead
  <2>3. Remembers(q)'
    BY <1>1, <2>2 DEF Remembers
  <2>4. secrets' \in Nat /\ secrets <= secrets'
    BY <1>1, FactorAssumption DEF FactorInv, FactorType, RowFine
  <2>5. VisitsFine' /\ visit'[h] = q /\ \A g \in Screens : g # h => visit'[g] = visit[g]
    BY <1>4, <2>1, <2>2, <2>3, <2>4, VisitSet
  <2>6. QED
    BY <1>1, <2>2, <2>5, Quiet DEF Printing
<1>5. QED
  BY <1>2, <1>3, <1>4

\* A request is over.
LEMMA Rests ==
  ASSUME FactorInv, NEW h \in Screens, SecondFactor!Finish(h), secrets' \in Nat, secrets <= secrets'
  PROVE  /\ VisitsFine' /\ visit'[h].pc = "idle" /\ \A g \in Screens : g # h => visit'[g] = visit[g]
         /\ secrets \in Nat
<1>1. Remembers(SecondFactor!Resting)'
  <2>1. SecondFactor!Resting' = SecondFactor!Resting
    BY DEF SecondFactor!Resting
  <2>2. SecondFactor!Resting.pc = "idle" /\ SecondFactor!Resting.row.secret = 0
    BY RestingVisit
  <2>3. QED
    BY <2>1, <2>2 DEF Remembers
<1>2. visit' = [visit EXCEPT ![h] = SecondFactor!Resting]
  BY DEF SecondFactor!Finish
<1>3. secrets \in Nat
  BY FactorAssumption DEF FactorInv, FactorType, RowFine
<1>4. PICK q : q = SecondFactor!Resting
  OBVIOUS
<1>5. Remembers(q)' /\ q \in Visit
  BY <1>1, <1>4, RestingVisit DEF Remembers
<1>6. QED
  BY <1>2, <1>3, <1>4, <1>5, VisitSet, RestingVisit

LEMMA SecretKeeps ==
  ASSUME FactorInv, NEW h \in Screens, SecondFactor!NewSecret(h)
  PROVE  FactorInv'
<1>1. /\ visit[h].pc = "begin" /\ secrets < MaxSecrets /\ secrets' = secrets + 1
      /\ totp' = [totp EXCEPT !.secret = secrets + 1, !.on = FALSE]
      /\ crossed' = (crossed \/ totp # visit[h].row)
      /\ offs' = IF totp.on THEN "page" ELSE offs
      /\ SecondFactor!Finish(h)
      /\ UNCHANGED <<codes, shown, accepted, proven, clashed, whole>>
  BY DEF SecondFactor!NewSecret
<1>2. totp \in FactorRow /\ secrets \in Nat /\ secrets' \in 0..MaxSecrets /\ Remembers(visit[h])
  BY <1>1, FactorAssumption DEF FactorInv, FactorType, RowFine, VisitsFine
<1>3. totp' \in FactorRow /\ totp'.secret = secrets + 1 /\ ~totp'.on
  <2> DEFINE a == [totp EXCEPT !.secret = secrets + 1]
  <2>1. a \in FactorRow /\ a.secret = secrets + 1 /\ totp' = [a EXCEPT !.on = FALSE]
    BY <1>1, <1>2 DEF FactorRow
  <2> HIDE DEF a
  <2>2. QED
    BY <2>1 DEF FactorRow
<1>4. VisitsFine' /\ visit'[h].pc = "idle" /\ \A g \in Screens : g # h => visit'[g] = visit[g]
  BY <1>1, <1>2, Rests
<1>5. \A c \in SecondFactor!Codes : c.secret \in Nat
  BY FactorAssumption DEF SecondFactor!Codes, SecondFactor!Secrets
<1>6. \A c \in shown : c.secret \in Nat /\ c.secret <= secrets
  BY FactorAssumption DEF FactorInv, FactorType, ShownFine, SecondFactor!Recovery, SecondFactor!Secrets
<1>7. RowFine' /\ AcceptedFine' /\ ShownFine'
  BY <1>1, <1>2, <1>3, <1>5, <1>6 DEF FactorInv, FactorType, RowFine, AcceptedFine, ShownFine
<1>8. CodeInv'
  <2>1. SUFFICES ASSUME ~clashed', ~crossed', NEW c \in SecondFactor!Codes
                 PROVE  accepted'[c] <= 1 /\ (c.secret = totp'.secret => ~(accepted'[c] > 0))
    BY DEF CodeInv
  <2>2. accepted[c] <= 1
    BY <1>1, <2>1 DEF FactorInv, CodeInv
  <2>3. c.secret > secrets => accepted[c] = 0
    BY DEF FactorInv, FactorType, AcceptedFine
  <2>4. QED
    BY <1>1, <1>2, <1>3, <2>2, <2>3
<1>9. ~crossed' => ~crossed /\ ~totp.on
  BY <1>1, <1>2 DEF Remembers
<1>10. SecondFactor!Enrolled'
  BY <1>1, <1>3, <1>9 DEF FactorInv, SecondFactor!Enrolled
<1>11. PrintInv'
  <2>1. SUFFICES ASSUME ~crossed' PROVE PrintInv'
    BY DEF PrintInv
  <2>2. \A g \in Screens : ~Printing(g)' /\ visit'[g].pc # "insert"
    BY <1>4, <1>9, <2>1 DEF FactorInv, PrintInv, Printing
  <2>3. \A c \in shown : c.secret # totp'.secret
    BY <1>2, <1>3, <1>6
  <2>4. QED
    BY <1>1, <1>3, <2>2, <2>3 DEF PrintInv
<1>12. QED
  BY <1>4, <1>7, <1>8, <1>10, <1>11 DEF FactorInv, FactorType

LEMMA ConfirmKeeps ==
  ASSUME FactorInv, NEW h \in Screens, SecondFactor!Confirmed(h)
  PROVE  FactorInv'
<1> DEFINE it == [secret |-> visit[h].row.secret, step |-> visit[h].code]
<1>1. /\ visit[h].pc = "confirm" /\ visit' = [visit EXCEPT ![h] = [visit[h] EXCEPT !.pc = "clean"]]
      /\ totp' = [totp EXCEPT !.on = TRUE, !.last = visit[h].code]
      /\ accepted' = [accepted EXCEPT ![it] = @ + 1]
      /\ proven' = visit[h].row.secret
      /\ crossed' = (crossed \/ totp # visit[h].row \/ totp.on)
      /\ clashed' = (clashed \/ totp.last # visit[h].row.last)
      /\ whole' = FALSE
      /\ UNCHANGED <<codes, secrets, shown, offs>>
  BY DEF SecondFactor!Confirmed, SecondFactor!Go, FactorInv, FactorType, VisitsFine
<1>2. totp \in FactorRow /\ secrets \in Nat /\ visit[h] \in Visit /\ Remembers(visit[h])
  BY FactorAssumption DEF FactorInv, FactorType, RowFine, VisitsFine
<1>3. /\ visit[h].row.secret \in SecondFactor!Secrets /\ visit[h].row.secret <= secrets
      /\ visit[h].code \in 1..MaxStep /\ visit[h].code \in Nat /\ it \in SecondFactor!Codes
  BY <1>1, <1>2, FactorAssumption DEF Remembers, SecondFactor!Codes, Visit
<1>4. totp' \in FactorRow /\ totp'.secret = totp.secret /\ totp'.on /\ totp'.last = visit[h].code
  <2> DEFINE a == [totp EXCEPT !.on = TRUE]
  <2>1. a \in FactorRow /\ a.secret = totp.secret /\ a.on /\ totp' = [a EXCEPT !.last = visit[h].code]
    BY <1>1, <1>2 DEF FactorRow
  <2> HIDE DEF a
  <2>2. QED
    BY <1>3, <2>1 DEF FactorRow
<1> PICK q : q = [visit[h] EXCEPT !.pc = "clean"]
  OBVIOUS
<1>5. q \in Visit /\ q.pc = "clean" /\ q.row = visit[h].row /\ visit' = [visit EXCEPT ![h] = q]
  BY <1>1, <1>2, GoesOnWith
<1>6. Remembers(q)'
  BY <1>1, <1>3, <1>5 DEF Remembers
<1>7. VisitsFine' /\ visit'[h] = q /\ \A g \in Screens : g # h => visit'[g] = visit[g]
  <2>1. secrets' \in Nat /\ secrets <= secrets'
    BY <1>1, <1>2
  <2>2. QED
    BY <1>5, <1>6, <2>1, VisitSet
<1>8. /\ \A c \in SecondFactor!Codes : accepted'[c] = IF c = it THEN accepted[it] + 1 ELSE accepted[c]
      /\ it.secret = visit[h].row.secret /\ it.step = visit[h].code
      /\ accepted \in [SecondFactor!Codes -> Nat]
  BY <1>1, <1>3 DEF FactorInv, FactorType, AcceptedFine
<1> HIDE DEF it
<1>9. RowFine' /\ ShownFine'
  BY <1>1, <1>4 DEF FactorInv, FactorType, RowFine, ShownFine
<1>10. AcceptedFine'
  <2>1. accepted' \in [SecondFactor!Codes -> Nat]
    BY <1>1, <1>3, <1>8
  <2>2. ASSUME NEW c \in SecondFactor!Codes, c.secret > secrets' PROVE accepted'[c] = 0
    <3>1. accepted[c] = 0
      BY <1>1, <2>2 DEF FactorInv, FactorType, AcceptedFine
    <3>2. c # it
      BY <1>1, <1>2, <1>3, <1>8, <2>2, FactorAssumption DEF SecondFactor!Secrets
    <3>3. QED
      BY <1>8, <3>1, <3>2
  <2>3. QED
    BY <2>1, <2>2 DEF AcceptedFine
<1>11. ~crossed' => ~crossed /\ ~totp.on /\ visit[h].row = totp
  BY <1>1
<1>12. CodeInv'
  <2>1. SUFFICES ASSUME ~clashed', ~crossed', NEW c \in SecondFactor!Codes
                 PROVE  /\ accepted'[c] <= 1
                        /\ c.secret = totp'.secret /\ accepted'[c] > 0 => totp'.on /\ c.step <= totp'.last
    BY DEF CodeInv
  <2>2. /\ accepted[c] <= 1 /\ accepted[c] \in Nat /\ accepted[it] \in Nat
        /\ c.secret = totp.secret => ~(accepted[c] > 0)
    BY <1>1, <1>3, <1>8, <1>11, <2>1 DEF FactorInv, CodeInv
  <2>3. ~(accepted[it] > 0)
    BY <1>1, <1>3, <1>8, <1>11, <2>1 DEF FactorInv, CodeInv
  <2>4. QED
    BY <1>3, <1>4, <1>8, <2>2, <2>3
<1>13. SecondFactor!Enrolled'
  BY <1>1, <1>4, <1>11 DEF FactorInv, SecondFactor!Enrolled
<1>14. PrintInv'
  <2>1. SUFFICES ASSUME ~crossed' PROVE PrintInv'
    BY DEF PrintInv
  <2>2. \A g \in Screens : ~Printing(g) /\ visit[g].pc # "insert"
    BY <1>11, <2>1 DEF FactorInv, PrintInv, Printing
  <2>3. \A g \in Screens : (Printing(g)' => g = h) /\ visit'[g].pc # "insert"
    BY <1>5, <1>7, <2>2 DEF Printing
  <2>4. \A c \in shown : c.secret # totp.secret
    BY <1>11, <2>1 DEF FactorInv, PrintInv
  <2>5. visit'[h].row.secret = totp'.secret
    BY <1>4, <1>5, <1>7, <1>11, <2>1
  <2>6. QED
    BY <1>1, <1>4, <2>3, <2>4, <2>5 DEF PrintInv
<1>15. QED
  BY <1>7, <1>9, <1>10, <1>12, <1>13, <1>14 DEF FactorInv, FactorType

LEMMA CleanKeeps ==
  ASSUME FactorInv, NEW h \in Screens, SecondFactor!CleanCodes(h)
  PROVE  FactorInv'
<1>1. /\ visit[h].pc = "clean" /\ codes' = {}
      /\ visit' = [visit EXCEPT ![h] = [[visit[h] EXCEPT !.pc = "insert"] EXCEPT !.left = RecoveryCodes]]
      /\ UNCHANGED <<totp, secrets, shown, accepted, proven, clashed, crossed, whole, offs>>
  BY DEF SecondFactor!CleanCodes, SecondFactor!history, FactorInv, FactorType, VisitsFine
<1>2. visit[h] \in Visit /\ Remembers(visit[h]) /\ secrets \in Nat /\ RecoveryCodes \in Nat \ {0}
  BY FactorAssumption DEF FactorInv, FactorType, RowFine, VisitsFine
<1> PICK q : q = [[visit[h] EXCEPT !.pc = "insert"] EXCEPT !.left = RecoveryCodes]
  OBVIOUS
<1>3. q \in Visit /\ q.pc = "insert" /\ q.row = visit[h].row /\ q.left = RecoveryCodes
  <2> DEFINE a == [visit[h] EXCEPT !.pc = "insert"]
  <2>1. a \in Visit /\ a.pc = "insert" /\ a.row = visit[h].row
    BY <1>2, GoesOnWith
  <2> HIDE DEF a
  <2>2. /\ [a EXCEPT !.left = RecoveryCodes] \in Visit
        /\ [a EXCEPT !.left = RecoveryCodes].pc = "insert" /\ [a EXCEPT !.left = RecoveryCodes].row = visit[h].row
        /\ [a EXCEPT !.left = RecoveryCodes].left = RecoveryCodes
    BY <1>2, <2>1, GoesOnWith
  <2>3. QED
    BY <2>2 DEF a
<1>4. Remembers(q)'
  BY <1>1, <1>2, <1>3 DEF Remembers
<1>5. VisitsFine' /\ visit'[h] = q /\ \A g \in Screens : g # h => visit'[g] = visit[g]
  <2>1. secrets' \in Nat /\ secrets <= secrets' /\ visit' = [visit EXCEPT ![h] = q]
    BY <1>1, <1>2
  <2>2. QED
    BY <1>3, <1>4, <2>1, VisitSet
<1>6. FactorType' /\ CodeInv' /\ SecondFactor!Enrolled'
  BY <1>1, <1>5 DEF FactorInv, FactorType, RowFine, AcceptedFine, ShownFine, CodeInv, SecondFactor!Enrolled
<1>7. PrintInv'
  <2>1. SUFFICES ASSUME ~crossed' PROVE PrintInv'
    BY DEF PrintInv
  <2>2. /\ \A g \in Screens : Printing(g) => g = h
        /\ totp.on /\ ~whole /\ visit[h].row.secret = totp.secret
        /\ \A c \in shown : c.secret # totp.secret
    BY <1>1, <2>1 DEF FactorInv, PrintInv, Printing
  <2>3. \A g \in Screens : Printing(g)' => g = h
    BY <1>5, <2>2 DEF Printing
  <2>4. codes' = {c \in SecondFactor!Recovery : c.secret = totp'.secret /\ c.n > visit'[h].left}
    <3>1. \A c \in SecondFactor!Recovery : ~(c.n > RecoveryCodes)
      BY <1>2 DEF SecondFactor!Recovery
    <3>2. visit'[h].left = RecoveryCodes
      BY <1>3, <1>5
    <3>3. QED
      BY <1>1, <3>1, <3>2
  <2>5. \A g \in Screens : visit'[g].pc = "insert" => g = h
    BY <2>3 DEF Printing
  <2>6. QED
    BY <1>1, <1>3, <1>5, <2>2, <2>3, <2>4, <2>5 DEF PrintInv
<1>8. QED
  BY <1>6, <1>7 DEF FactorInv

LEMMA InsertKeeps ==
  ASSUME FactorInv, NEW h \in Screens, SecondFactor!InsertCode(h)
  PROVE  FactorInv'
<1>1. /\ visit[h].pc = "insert"
      /\ codes' = codes \cup {[secret |-> visit[h].row.secret, n |-> visit[h].left]}
      /\ UNCHANGED <<totp, secrets, accepted, proven, clashed, crossed, offs>>
  BY DEF SecondFactor!InsertCode
<1>2. /\ visit[h] \in Visit /\ Remembers(visit[h]) /\ secrets \in Nat
      /\ visit[h].left \in 1..RecoveryCodes /\ visit[h].row.secret \in SecondFactor!Secrets
      /\ visit[h].row.secret <= secrets /\ RecoveryCodes \in Nat
  BY <1>1, FactorAssumption DEF FactorInv, FactorType, RowFine, VisitsFine, Remembers
<1>3. RowFine' /\ AcceptedFine' /\ CodeInv' /\ SecondFactor!Enrolled'
  BY <1>1 DEF FactorInv, FactorType, RowFine, AcceptedFine, CodeInv, SecondFactor!Enrolled
<1>4. ASSUME ~crossed
      PROVE  /\ \A g \in Screens : Printing(g) => g = h
             /\ totp.on /\ ~whole /\ visit[h].row.secret = totp.secret
             /\ \A c \in shown : c.secret # totp.secret
             /\ codes' = {c \in SecondFactor!Recovery : c.secret = totp.secret /\ c.n > visit[h].left - 1}
  <2>1. /\ \A g \in Screens : Printing(g) => g = h
        /\ totp.on /\ ~whole /\ visit[h].row.secret = totp.secret
        /\ \A c \in shown : c.secret # totp.secret
        /\ codes = {c \in SecondFactor!Recovery : c.secret = totp.secret /\ c.n > visit[h].left}
    BY <1>1, <1>4 DEF FactorInv, PrintInv, Printing
  <2>2. PICK one : one = [secret |-> visit[h].row.secret, n |-> visit[h].left]
    OBVIOUS
  <2>3. one \in SecondFactor!Recovery /\ one.secret = totp.secret /\ one.n = visit[h].left
    BY <1>2, <2>1, <2>2 DEF SecondFactor!Recovery
  <2>4. \A c \in SecondFactor!Recovery : c.secret = totp.secret /\ c.n = visit[h].left => c = one
    BY <2>1, <2>2 DEF SecondFactor!Recovery
  <2>5. \A c \in SecondFactor!Recovery : c.n \in Nat
    BY <1>2 DEF SecondFactor!Recovery
  <2>6. \A c \in SecondFactor!Recovery : c.n > visit[h].left - 1 <=> (c.n > visit[h].left \/ c.n = visit[h].left)
    BY <1>2, <2>5
  <2>7. codes' = codes \cup {one}
    BY <1>1, <2>2
  <2>8. QED
    BY <2>1, <2>3, <2>4, <2>6, <2>7
<1>5. CASE visit[h].left > 1
  <2>1. visit' = [visit EXCEPT ![h] = [visit[h] EXCEPT !.left = @ - 1]] /\ UNCHANGED <<shown, whole>>
    BY <1>5 DEF SecondFactor!InsertCode, FactorInv, FactorType, VisitsFine
  <2> PICK q : q = [visit[h] EXCEPT !.left = visit[h].left - 1]
    OBVIOUS
  <2>2. q \in Visit /\ q.pc = "insert" /\ q.row = visit[h].row /\ q.left = visit[h].left - 1
    <3>1. visit[h].left - 1 \in Nat
      BY <1>2, <1>5
    <3>2. QED
      BY <1>1, <1>2, <3>1, GoesOnWith
  <2>3. Remembers(q)'
    BY <1>1, <1>2, <1>5, <2>2 DEF Remembers
  <2>4. VisitsFine' /\ visit'[h] = q /\ \A g \in Screens : g # h => visit'[g] = visit[g]
    <3>1. secrets' \in Nat /\ secrets <= secrets' /\ visit' = [visit EXCEPT ![h] = q]
      BY <1>1, <1>2, <2>1
    <3>2. QED
      BY <2>2, <2>3, <3>1, VisitSet
  <2>5. ShownFine'
    BY <1>1, <2>1 DEF FactorInv, FactorType, ShownFine
  <2>6. PrintInv'
    <3>1. SUFFICES ASSUME ~crossed' PROVE PrintInv'
      BY DEF PrintInv
    <3>2. ~crossed
      BY <1>1, <3>1
    <3>3. \A g \in Screens : (Printing(g)' => g = h) /\ (visit'[g].pc = "insert" => g = h)
      BY <1>4, <2>4, <3>2 DEF Printing
    <3>4. codes' = {c \in SecondFactor!Recovery : c.secret = totp'.secret /\ c.n > visit'[h].left}
      BY <1>1, <1>4, <2>2, <2>4, <3>2
    <3>5. visit'[h].row.secret = totp'.secret /\ totp'.on /\ ~whole' /\ \A c \in shown' : c.secret # totp'.secret
      BY <1>1, <1>4, <2>1, <2>2, <2>4, <3>2
    <3>6. QED
      BY <3>3, <3>4, <3>5 DEF PrintInv
  <2>7. QED
    BY <1>3, <2>4, <2>5, <2>6 DEF FactorInv, FactorType
<1>6. CASE ~(visit[h].left > 1)
  <2>1. /\ SecondFactor!Finish(h) /\ shown' = {c \in SecondFactor!Recovery : c.secret = visit[h].row.secret}
        /\ whole' = TRUE
    BY <1>6 DEF SecondFactor!InsertCode
  <2>2. VisitsFine' /\ visit'[h].pc = "idle" /\ \A g \in Screens : g # h => visit'[g] = visit[g]
    BY <1>1, <1>2, <2>1, Rests
  <2>3. ShownFine'
    BY <1>1, <1>2, <2>1 DEF ShownFine
  <2>4. PrintInv'
    <3>1. SUFFICES ASSUME ~crossed' PROVE PrintInv'
      BY DEF PrintInv
    <3>2. ~crossed
      BY <1>1, <3>1
    <3>3. \A g \in Screens : ~Printing(g)' /\ visit'[g].pc # "insert"
      BY <1>4, <2>2, <3>2 DEF Printing
    <3>4. \A c \in SecondFactor!Recovery : c.n > visit[h].left - 1
      BY <1>2, <1>6 DEF SecondFactor!Recovery
    <3>5. codes' = shown'
      BY <1>4, <2>1, <3>2, <3>4
    <3>6. QED
      BY <1>1, <1>4, <2>1, <3>2, <3>3, <3>5 DEF PrintInv
  <2>5. QED
    BY <1>3, <2>2, <2>3, <2>4 DEF FactorInv, FactorType
<1>7. QED
  BY <1>5, <1>6

LEMMA UseKeeps ==
  ASSUME FactorInv, NEW h \in Screens, SecondFactor!UseStep(h)
  PROVE  FactorInv'
<1> DEFINE it == [secret |-> visit[h].row.secret, step |-> visit[h].code]
<1>1. /\ visit[h].pc = "check" /\ visit[h].code > visit[h].row.last /\ SecondFactor!Finish(h)
      /\ totp' = [totp EXCEPT !.last = visit[h].code]
      /\ accepted' = [accepted EXCEPT ![it] = @ + 1]
      /\ clashed' = (clashed \/ totp # visit[h].row)
      /\ UNCHANGED <<codes, secrets, shown, proven, crossed, whole, offs>>
  BY DEF SecondFactor!UseStep, SecondFactor!FreshStep
<1>2. totp \in FactorRow /\ secrets \in Nat /\ visit[h] \in Visit /\ Remembers(visit[h])
  BY FactorAssumption DEF FactorInv, FactorType, RowFine, VisitsFine
<1>3. /\ visit[h].row.secret \in SecondFactor!Secrets /\ visit[h].row.secret <= secrets
      /\ visit[h].code \in 1..MaxStep /\ visit[h].code \in Nat /\ it \in SecondFactor!Codes
  BY <1>1, <1>2, FactorAssumption DEF Remembers, SecondFactor!Codes, Visit
<1>4. /\ totp' \in FactorRow /\ totp'.secret = totp.secret /\ totp'.on = totp.on
      /\ totp'.last = visit[h].code
  BY <1>1, <1>2, <1>3 DEF FactorRow
<1>5. VisitsFine' /\ visit'[h].pc = "idle" /\ \A g \in Screens : g # h => visit'[g] = visit[g]
  BY <1>1, <1>2, Rests
<1>6. /\ \A c \in SecondFactor!Codes : accepted'[c] = IF c = it THEN accepted[it] + 1 ELSE accepted[c]
      /\ it.secret = visit[h].row.secret /\ it.step = visit[h].code
      /\ accepted \in [SecondFactor!Codes -> Nat]
  BY <1>1, <1>3 DEF FactorInv, FactorType, AcceptedFine
<1> HIDE DEF it
<1>7. RowFine' /\ ShownFine'
  BY <1>1, <1>4 DEF FactorInv, FactorType, RowFine, ShownFine
<1>8. AcceptedFine'
  <2>1. accepted' \in [SecondFactor!Codes -> Nat]
    BY <1>1, <1>3, <1>6
  <2>2. ASSUME NEW c \in SecondFactor!Codes, c.secret > secrets' PROVE accepted'[c] = 0
    <3>1. accepted[c] = 0
      BY <1>1, <2>2 DEF FactorInv, FactorType, AcceptedFine
    <3>2. c # it
      BY <1>1, <1>2, <1>3, <1>6, <2>2, FactorAssumption DEF SecondFactor!Secrets
    <3>3. QED
      BY <1>6, <3>1, <3>2
  <2>3. QED
    BY <2>1, <2>2 DEF AcceptedFine
<1>9. CodeInv'
  <2>1. SUFFICES ASSUME ~clashed', ~crossed', NEW c \in SecondFactor!Codes
                 PROVE  /\ accepted'[c] <= 1
                        /\ c.secret = totp'.secret /\ accepted'[c] > 0 => totp'.on /\ c.step <= totp'.last
    BY DEF CodeInv
  <2>2. visit[h].row = totp /\ ~clashed /\ ~crossed /\ totp.last < visit[h].code
    BY <1>1, <1>2, <1>3, <2>1 DEF FactorRow
  <2>3. \A d \in SecondFactor!Codes :
          /\ accepted[d] <= 1 /\ accepted[d] \in Nat
          /\ d.secret = totp.secret /\ accepted[d] > 0 => totp.on /\ d.step <= totp.last
    BY <1>6, <2>2 DEF FactorInv, CodeInv
  <2>4. ~(accepted[it] > 0)
    BY <1>2, <1>3, <1>6, <2>2, <2>3 DEF FactorRow
  <2>5. CASE c = it
    <3>1. totp.on
      BY <1>1, <1>2, <2>2 DEF Remembers
    <3>2. QED
      BY <1>3, <1>4, <1>6, <2>3, <2>4, <2>5, <3>1
  <2>6. CASE c # it
    <3>1. c.step \in Nat /\ totp.last \in Nat
      BY <1>2, FactorAssumption DEF SecondFactor!Codes, FactorRow
    <3>2. QED
      BY <1>3, <1>4, <1>6, <2>2, <2>3, <2>6, <3>1
  <2>7. QED
    BY <2>5, <2>6
<1>10. SecondFactor!Enrolled'
  BY <1>1, <1>4 DEF FactorInv, SecondFactor!Enrolled
<1>11. PrintInv'
  <2>1. \A g \in Screens : visit'[g] = visit[g] \/ (~Printing(g)' /\ visit'[g].pc # "insert")
    BY <1>5 DEF Printing
  <2>2. QED
    BY <1>1, <1>4, <2>1 DEF FactorInv, PrintInv, Printing
<1>12. QED
  BY <1>5, <1>7, <1>8, <1>9, <1>10, <1>11 DEF FactorInv, FactorType

LEMMA OffKeeps ==
  ASSUME FactorInv, NEW h \in Screens, SecondFactor!DisableTOTP(h)
  PROVE  FactorInv'
<1>1. /\ totp.on /\ totp' = [totp EXCEPT !.secret = 0, !.on = FALSE] /\ offs' = "owner"
      /\ crossed' = (crossed \/ \E g \in Screens : visit[g].pc \in {"confirm", "clean", "insert", "forget"})
      /\ visit' = [visit EXCEPT ![h] = [SecondFactor!Resting EXCEPT !.pc = "forget"]]
      /\ UNCHANGED <<codes, secrets, shown, accepted, proven, clashed, whole>>
  BY DEF SecondFactor!DisableTOTP
<1>2. totp \in FactorRow /\ secrets \in Nat
  BY FactorAssumption DEF FactorInv, FactorType, RowFine
<1>3. totp' \in FactorRow /\ totp'.secret = 0 /\ ~totp'.on
  <2> DEFINE a == [totp EXCEPT !.secret = 0]
  <2>1. a \in FactorRow /\ a.secret = 0 /\ totp' = [a EXCEPT !.on = FALSE]
    BY <1>1, <1>2 DEF FactorRow
  <2> HIDE DEF a
  <2>2. QED
    BY <2>1 DEF FactorRow
<1> PICK q : q = [SecondFactor!Resting EXCEPT !.pc = "forget"]
  OBVIOUS
<1>4. q \in Visit /\ q.pc = "forget" /\ q.row.secret = 0 /\ visit' = [visit EXCEPT ![h] = q]
  <2>1. 0 \in Nat /\ SecondFactor!Resting \in Visit /\ SecondFactor!Resting.row.secret = 0
    BY RestingVisit
  <2>2. q \in Visit /\ q.pc = "forget" /\ q.row = SecondFactor!Resting.row
    BY <2>1, GoesOnWith
  <2>3. QED
    BY <1>1, <2>1, <2>2
<1>5. Remembers(q)'
  BY <1>1, <1>2, <1>4 DEF Remembers
<1>6. VisitsFine' /\ visit'[h] = q /\ \A g \in Screens : g # h => visit'[g] = visit[g]
  <2>1. secrets' \in Nat /\ secrets <= secrets'
    BY <1>1, <1>2
  <2>2. QED
    BY <1>4, <1>5, <2>1, VisitSet
<1>7. RowFine' /\ ShownFine' /\ AcceptedFine'
  BY <1>1, <1>2, <1>3 DEF FactorInv, FactorType, RowFine, ShownFine, AcceptedFine
<1>8. \A c \in SecondFactor!Codes \cup SecondFactor!Recovery : c.secret # 0
  BY FactorAssumption DEF SecondFactor!Codes, SecondFactor!Recovery, SecondFactor!Secrets
<1>9. CodeInv' /\ SecondFactor!Enrolled'
  BY <1>1, <1>3, <1>8 DEF FactorInv, CodeInv, SecondFactor!Enrolled
<1>10. PrintInv'
  <2>1. SUFFICES ASSUME ~crossed' PROVE PrintInv'
    BY DEF PrintInv
  <2>2. \A g \in Screens : ~Printing(g)' /\ visit'[g].pc # "insert"
    BY <1>1, <1>4, <1>6, <2>1 DEF Printing
  <2>3. \A c \in shown' : c.secret # totp'.secret
    BY <1>1, <1>3, <1>8 DEF FactorInv, FactorType, ShownFine
  <2>4. QED
    BY <1>3, <2>2, <2>3 DEF PrintInv
<1>11. QED
  BY <1>6, <1>7, <1>9, <1>10 DEF FactorInv, FactorType

LEMMA ForgetKeeps ==
  ASSUME FactorInv, NEW h \in Screens, SecondFactor!ForgetCodes(h)
  PROVE  FactorInv'
<1>1. /\ visit[h].pc = "forget" /\ SecondFactor!Finish(h) /\ codes' = {} /\ shown' = {}
      /\ crossed' = (crossed \/ \E g \in Screens \ {h} : visit[g].pc \in {"clean", "insert"})
      /\ UNCHANGED <<totp, secrets, accepted, proven, clashed, whole, offs>>
  BY DEF SecondFactor!ForgetCodes
<1>2. secrets \in Nat
  BY FactorAssumption DEF FactorInv, FactorType, RowFine
<1>3. VisitsFine' /\ visit'[h].pc = "idle" /\ \A g \in Screens : g # h => visit'[g] = visit[g]
  BY <1>1, <1>2, Rests
<1>4. FactorType' /\ CodeInv' /\ SecondFactor!Enrolled'
  BY <1>1, <1>3 DEF FactorInv, FactorType, RowFine, AcceptedFine, ShownFine, CodeInv, SecondFactor!Enrolled
<1>5. PrintInv'
  <2>1. SUFFICES ASSUME ~crossed' PROVE PrintInv'
    BY DEF PrintInv
  <2>2. \A g \in Screens : ~Printing(g)' /\ visit'[g].pc # "insert"
    BY <1>1, <1>3, <2>1 DEF Printing
  <2>3. QED
    BY <1>1, <2>2 DEF PrintInv
<1>6. QED
  BY <1>4, <1>5 DEF FactorInv

LEMMA RecoveryKeepsFactor ==
  ASSUME FactorInv, NEW c \in SecondFactor!Recovery, SecondFactor!UseRecoveryCode(c)
  PROVE  FactorInv'
<1>1. /\ totp.on /\ c \in codes /\ c \in shown /\ codes' = codes \ {c} /\ shown' = shown \ {c}
      /\ UNCHANGED <<totp, visit, secrets, accepted, proven, clashed, crossed, whole, offs>>
  BY DEF SecondFactor!UseRecoveryCode
<1>2. FactorType' /\ CodeInv' /\ SecondFactor!Enrolled'
  BY <1>1 DEF FactorInv, FactorType, RowFine, VisitsFine, Remembers, AcceptedFine, ShownFine, CodeInv,
              SecondFactor!Enrolled
<1>3. PrintInv'
  <2>1. SUFFICES ASSUME ~crossed' PROVE PrintInv'
    BY DEF PrintInv
  <2>2. \A g \in Screens : visit[g].pc # "insert"
    <3>1. SUFFICES ASSUME NEW g \in Screens, visit[g].pc = "insert" PROVE FALSE
      OBVIOUS
    <3>2. ~whole /\ c.secret = totp.secret
      BY <1>1, <2>1, <3>1 DEF FactorInv, PrintInv, Printing
    <3>3. QED
      BY <1>1, <2>1, <3>2 DEF FactorInv, PrintInv
  <2>3. QED
    BY <1>1, <2>2 DEF FactorInv, PrintInv, Printing
<1>4. QED
  BY <1>2, <1>3 DEF FactorInv

LEMMA FactorStep ==
  ASSUME FactorInv, [SecondFactor!Next]_SecondFactor!vars
  PROVE  FactorInv'
<1>1. CASE UNCHANGED SecondFactor!vars \/ SecondFactor!Tick
  <2>1. UNCHANGED <<visit, totp, codes, secrets, shown, accepted, proven, clashed, crossed, whole, offs>>
    BY <1>1 DEF SecondFactor!vars, SecondFactor!Tick, SecondFactor!history
  <2>2. VisitsFine'
    BY <2>1 DEF FactorInv, FactorType, VisitsFine, Remembers
  <2>3. QED
    BY <2>1, <2>2, Quiet
<1>2. ASSUME NEW h \in Screens, SecondFactor!Reused(h) \/ SecondFactor!Cut(h)
      PROVE  FactorInv'
  <2>1. /\ SecondFactor!Finish(h)
        /\ UNCHANGED <<totp, codes, secrets, shown, accepted, proven, clashed, crossed, whole, offs>>
    BY <1>2 DEF SecondFactor!Reused, SecondFactor!Cut, SecondFactor!history
  <2>2. secrets' \in Nat /\ secrets <= secrets'
    BY <2>1, FactorAssumption DEF FactorInv, FactorType, RowFine
  <2>3. VisitsFine' /\ visit'[h].pc = "idle" /\ \A g \in Screens : g # h => visit'[g] = visit[g]
    BY <2>1, <2>2, Rests
  <2>4. QED
    BY <2>1, <2>3, Quiet DEF Printing
<1>3. ASSUME NEW h \in Screens,
             \/ SecondFactor!BeginTOTP(h) \/ SecondFactor!NewSecret(h) \/ SecondFactor!Confirmed(h)
             \/ SecondFactor!CleanCodes(h) \/ SecondFactor!InsertCode(h)
             \/ \E typed \in SecondFactor!Codes :
                  \/ SecondFactor!ConfirmTOTP(h, typed) \/ SecondFactor!WrongCode(h, typed)
                  \/ SecondFactor!CheckSecondFactor(h, typed)
             \/ SecondFactor!UseStep(h) \/ SecondFactor!DisableTOTP(h) \/ SecondFactor!ForgetCodes(h)
      PROVE  FactorInv'
  BY <1>3, ReadKeeps, SecretKeeps, ConfirmKeeps, CleanKeeps, InsertKeeps, UseKeeps, OffKeeps, ForgetKeeps
<1>4. ASSUME NEW c \in SecondFactor!Recovery, SecondFactor!UseRecoveryCode(c) PROVE FactorInv'
  BY <1>4, RecoveryKeepsFactor
<1>5. QED
  BY <1>1, <1>2, <1>3, <1>4 DEF SecondFactor!Next

-----------------------------------------------------------------------------
(* The parts together *)

AccountsInv ==
  /\ part = "sessions" => SessionsInv
  /\ part = "registration" => RegistrationInv
  /\ part = "handles" => HandlesInv
  /\ part = "factor" => FactorInv

LEMMA AccountsInit ==
  ASSUME Init
  PROVE  AccountsInv
BY SessionsInit, RegistrationInit, HandlesInit, FactorInit DEF Init, AccountsInv

\* A step of the instance is one of the part it works as.
LEMMA OfPart ==
  ASSUME [Next]_all
  PROVE  /\ part' = part
         /\ part = "sessions" => [Sessions!Next]_Sessions!vars
         /\ part = "registration" => [Registration!Next]_Registration!vars
         /\ part = "handles" => [Handles!Next]_Handles!vars
         /\ part = "factor" => [SecondFactor!Next]_SecondFactor!vars
<1>1. CASE Next
  BY <1>1 DEF Next
<1>2. CASE UNCHANGED all
  BY <1>2 DEF all, OfSessions, OfRegistration, OfHandles, OfSecondFactor,
              Sessions!vars, Registration!vars, Handles!vars, SecondFactor!vars
<1>3. QED
  BY <1>1, <1>2

LEMMA AccountsStep ==
  ASSUME AccountsInv, [Next]_all
  PROVE  AccountsInv'
<1>1. part' = part
  BY OfPart
<1>2. CASE part = "sessions"
  BY <1>1, <1>2, OfPart, SessionsStep DEF AccountsInv
<1>3. CASE part = "registration"
  BY <1>1, <1>3, OfPart, RegistrationStep DEF AccountsInv
<1>4. CASE part = "handles"
  BY <1>1, <1>4, OfPart, HandlesStep DEF AccountsInv
<1>5. CASE part = "factor"
  BY <1>1, <1>5, OfPart, FactorStep DEF AccountsInv
<1>6. QED
  BY <1>1, <1>2, <1>3, <1>4, <1>5 DEF AccountsInv

LEMMA AccountsAlways == Spec => []AccountsInv
<1>1. Init => AccountsInv
  BY AccountsInit
<1>2. AccountsInv /\ [Next]_all => AccountsInv'
  BY AccountsStep
<1>3. QED
  BY <1>1, <1>2, PTL DEF Spec

\* A link in a mail works once; a recovered account keeps no session from before
\* and no confirmation of its former password, and gets none on the strength of
\* it but one for each sign-in that the recovery overtook; a code, an address
\* and the owner's role go to one account each; and a handle that was returned once is the account's
\* for good, and nobody else's (internal/identity, internal/web/accounts.go,
\* internal/publish).
THEOREM AccountsStand == Spec => []Accounts
<1>1. SessionsInv => Sessions!LinkOnce /\ Sessions!Recovered
  BY DEF SessionsInv, Unspent, Current, Proven, Former, Sessions!LinkOnce, Sessions!Recovered, Sessions!FreshIn
<1>2. RegistrationInv => Registration!Welcome
  BY Welcomed
<1>3. HandlesInv => Handles!HandleStands
  BY HandlesAssumption
    DEF HandlesInv, Handles!HandleStands, Told, Distinct, HandlesType, Handles!HandlesAssumption
<1>4. AccountsInv => Accounts
  BY <1>1, <1>2, <1>3 DEF AccountsInv, Accounts
<1>5. QED
  BY <1>4, AccountsAlways, PTL

\* A code is good once, the second factor is on with the secret its owner
\* confirmed, and the recovery codes are those that were shown, unless two
\* enrolments or two checks overlapped (internal/identity/totp.go).
THEOREM SecondFactorStands == Spec => []SecondStep
<1>1. FactorInv => SecondFactor!CodeOnce
  BY DEF FactorInv, CodeInv, SecondFactor!CodeOnce
<1>2. FactorInv => SecondFactor!Enrolled /\ SecondFactor!CodesShown
  BY DEF FactorInv, PrintInv, SecondFactor!CodesShown
<1>3. AccountsInv => SecondStep
  BY <1>1, <1>2 DEF AccountsInv, SecondStep
<1>4. QED
  BY <1>3, AccountsAlways, PTL

=============================================================================
