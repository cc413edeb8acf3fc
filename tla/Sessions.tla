------------------------------ MODULE Sessions ------------------------------
(***************************************************************************)
(* How one account signs in: internal/identity/session.go, email.go and    *)
(* account.go, with the handlers of internal/web/auth.go, accounts.go and  *)
(* admin_panel.go that use them.                                           *)
(*                                                                         *)
(* Browsers send requests that overlap, tabs for short.  A request carries *)
(* the cookie its browser had when it was sent; what it answers about the  *)
(* cookie takes effect when the answer arrives.  last_seen and the date of *)
(* the email's verification are left out: nothing reads them.              *)
(***************************************************************************)
EXTENDS Naturals, FiniteSets

CONSTANTS
  Tabs, Browsers,
  Links,         \* links in mails
  None,
  Life,          \* SessionLifetime
  LinkLife,      \* tokenLifetime
  Window,        \* ReauthWindow
  MaxTime, MaxSessions, MaxPasswords, MaxFaults   \* bounds

VARIABLES
  now,
  pass,      \* which password the account has: they are numbered
  session,   \* table session
  link,      \* table email_token
  cookie,    \* the session cookie of each browser
  tab,       \* the requests
  started,   \* the sessions there have been (history), also their numbers
  spent,     \* what each link has been used for, and how often (history)
  overtaken, \* sign-ins let in, without a session yet when the password was
             \* last recovered (history)
  faults

vars == <<now, pass, session, link, cookie, tab, started, spent, overtaken, faults>>

Idle == [pc |-> "idle", b |-> None, sent |-> None, new |-> None, by |-> None, pass |-> 0]

NoLink == [state |-> "none", purpose |-> "signin", expires |-> 0]

Alive(id) == \E s \in session : s.id = id /\ now < s.expires

\* ReauthenticatedWithin, on a row.
FreshIn(s) == s.mark # None /\ now - s.mark <= Window

-----------------------------------------------------------------------------
(* Requests *)

Begin(t, b, pc, by) ==
  /\ tab[t].pc = "idle"
  /\ tab' = [tab EXCEPT ![t] = [Idle EXCEPT !.pc = pc, !.b = b, !.sent = cookie[b], !.by = by,
                                            !.pass = IF pc = "create" THEN pass ELSE 0]]

Go(t, pc) == tab' = [tab EXCEPT ![t].pc = pc]

\* submitLogin, once Authenticate agrees, which looked at the password there is;
\* a wrong password changes nothing.
Authenticate(t, b) ==
  /\ Begin(t, b, "create", None)
  /\ UNCHANGED <<now, pass, session, link, cookie, started, spent, overtaken, faults>>

NewLink(purpose) == [state |-> "fresh", purpose |-> purpose, expires |-> now + LinkLife]

\* submitMagic mails a link.
IssueToken(l, purpose) ==
  /\ link[l].state = "none" /\ link' = [link EXCEPT ![l] = NewLink(purpose)]
  /\ UNCHANGED <<now, pass, session, cookie, tab, started, spent, overtaken, faults>>

\* redeemTokenTx.
Redeemable(l) == link[l].state = "fresh" /\ now <= link[l].expires

Redeem(l) ==
  /\ Redeemable(l)
  /\ link' = [link EXCEPT ![l].state = "used"]
  /\ spent' = [spent EXCEPT ![l] = @ + 1]

\* followMagic and verifyEmail: the transaction that redeems the link.
FollowMagic(t, b, l) ==
  /\ link[l].purpose = "signin" /\ Redeem(l)
  /\ Begin(t, b, "create", None)
  /\ UNCHANGED <<now, pass, session, cookie, started, overtaken, faults>>

\* recoverForm: a look at the link, which is not spent yet.
PeekToken(t, b, l) ==
  /\ link[l].purpose = "recover" /\ Redeemable(l)
  /\ Begin(t, b, "form", l)
  /\ UNCHANGED <<now, pass, session, link, cookie, started, spent, overtaken, faults>>

\* Mutant: the sessions of the account live on.
RecoverPasswordOnly(t) ==
  /\ tab[t].pc = "form" /\ pass < MaxPasswords
  /\ Redeem(tab[t].by)
  /\ pass' = pass + 1
  /\ tab' = [tab EXCEPT ![t].pc = "create", ![t].by = None, ![t].pass = pass']
  /\ overtaken' = {u \in Tabs : tab[u].pc = "create"}
  /\ UNCHANGED <<now, session, cookie, started, faults>>

\* submitRecover: one transaction spends the link, sets the password and ends
\* every session.
RecoverPassword(t) ==
  /\ tab[t].pc = "form" /\ pass < MaxPasswords
  /\ Redeem(tab[t].by)
  /\ pass' = pass + 1 /\ session' = {}
  /\ tab' = [tab EXCEPT ![t].pc = "create", ![t].by = None, ![t].pass = pass']
  /\ overtaken' = {u \in Tabs : tab[u].pc = "create"}
  /\ UNCHANGED <<now, cookie, started, faults>>

\* The link was used or ran out while the form was open.
Refuse(t) ==
  /\ tab[t].pc = "form" /\ ~Redeemable(tab[t].by)
  /\ tab' = [tab EXCEPT ![t] = Idle]
  /\ UNCHANGED <<now, pass, session, link, cookie, started, spent, overtaken, faults>>

\* proof and of are history: the password the account had when the sign-in was
\* let in, and the request that signed in.
NewSession(t) == [id |-> started + 1, expires |-> now + Life, proof |-> tab[t].pass, of |-> t,
                  mark |-> None, markPass |-> 0]

\* CreateSession, the end of startSession and of submitLogin: it does not look
\* at the password again.
CreateSession(t) ==
  /\ tab[t].pc = "create" /\ started < MaxSessions
  /\ started' = started + 1 /\ session' = session \cup {NewSession(t)}
  /\ tab' = [tab EXCEPT ![t].pc = "give", ![t].new = started + 1, ![t].pass = 0]
  /\ UNCHANGED <<now, pass, link, cookie, spent, overtaken, faults>>

\* resolve: the session of a request is looked up, and ended if it is over.  A
\* request without one goes on, and its browser is told to forget the cookie,
\* also when the database could not be read.
Resolve(t, b) ==
  /\ cookie[b] # None
  /\ \E ok \in BOOLEAN :
       /\ ~ok => faults < MaxFaults
       /\ faults' = IF ok THEN faults ELSE faults + 1
       /\ Begin(t, b, IF ~ok THEN "fault" ELSE IF Alive(cookie[b]) THEN "in" ELSE "clear", None)
       /\ session' = IF ok THEN {s \in session : s.id # cookie[b] \/ now < s.expires} ELSE session
  /\ UNCHANGED <<now, pass, link, cookie, started, spent, overtaken>>

\* logout.
DestroySession(t) ==
  /\ tab[t].pc = "in" /\ Go(t, "clear")
  /\ session' = {s \in session : s.id # tab[t].sent}
  /\ UNCHANGED <<now, pass, link, cookie, started, spent, overtaken, faults>>

\* confirmIdentity, the password.
Confirm(t) ==
  /\ tab[t].pc = "in" /\ tab' = [tab EXCEPT ![t].pc = "mark", ![t].pass = pass]
  /\ UNCHANGED <<now, pass, session, link, cookie, started, spent, overtaken, faults>>

Marked(s, t) == [s EXCEPT !.mark = now, !.markPass = tab[t].pass]

\* confirmIdentity, MarkReauthenticated: nothing happens to a session that is
\* over.
MarkReauthenticated(t) ==
  /\ tab[t].pc = "mark" /\ tab' = [tab EXCEPT ![t].pc = "done", ![t].pass = 0]
  /\ session' = {IF s.id = tab[t].sent THEN Marked(s, t) ELSE s : s \in session}
  /\ UNCHANGED <<now, pass, link, cookie, started, spent, overtaken, faults>>

\* Mutant: every page renews the cookie its request came with.
AnswerRenewed(t) ==
  CASE tab[t].pc = "give"               -> [cookie EXCEPT ![tab[t].b] = tab[t].new]
    [] tab[t].pc \in {"clear", "fault"} -> [cookie EXCEPT ![tab[t].b] = None]
    [] tab[t].pc \in {"in", "done"}     -> [cookie EXCEPT ![tab[t].b] = tab[t].sent]
    [] OTHER                            -> cookie

\* What an answer does to the cookie of its browser.
AnswerCookie(t) ==
  CASE tab[t].pc = "give"               -> [cookie EXCEPT ![tab[t].b] = tab[t].new]
    [] tab[t].pc \in {"clear", "fault"} -> [cookie EXCEPT ![tab[t].b] = None]
    [] OTHER                            -> cookie

\* The answer arrives, or the client is gone by then.
Answer(t) ==
  /\ tab[t].pc \in {"give", "clear", "fault", "in", "done"}
  /\ cookie' = AnswerCookie(t)
  /\ tab' = [tab EXCEPT ![t] = Idle]
  /\ UNCHANGED <<now, pass, session, link, started, spent, overtaken, faults>>

\* The client is gone, which also cancels what the handler has left to do.
Hangup(t) ==
  /\ tab[t].pc # "idle" /\ faults < MaxFaults /\ faults' = faults + 1
  /\ tab' = [tab EXCEPT ![t] = Idle]
  /\ UNCHANGED <<now, pass, session, link, cookie, started, spent, overtaken>>

-----------------------------------------------------------------------------
(* Upkeep and the clock *)

PurgeExpiredSessions ==
  /\ session' = {s \in session : now < s.expires} /\ session' # session
  /\ UNCHANGED <<now, pass, link, cookie, tab, started, spent, overtaken, faults>>

PurgeExpiredTokens ==
  /\ link' = [l \in Links |-> IF link[l].state = "used" \/ (link[l].state = "fresh" /\ link[l].expires < now)
                              THEN [link[l] EXCEPT !.state = "purged"] ELSE link[l]]
  /\ link' # link
  /\ UNCHANGED <<now, pass, session, cookie, tab, started, spent, overtaken, faults>>

Tick ==
  /\ now < MaxTime /\ now' = now + 1
  /\ UNCHANGED <<pass, session, link, cookie, tab, started, spent, overtaken, faults>>

Init ==
  /\ now = 0 /\ pass = 1 /\ session = {} /\ link = [l \in Links |-> NoLink]
  /\ cookie = [b \in Browsers |-> None] /\ tab = [t \in Tabs |-> Idle]
  /\ started = 0 /\ spent = [l \in Links |-> 0] /\ overtaken = {} /\ faults = 0

Next ==
  \/ \E t \in Tabs :
       \/ \E b \in Browsers : \/ Authenticate(t, b) \/ Resolve(t, b)
                              \/ \E l \in Links : FollowMagic(t, b, l) \/ PeekToken(t, b, l)
       \/ RecoverPassword(t) \/ Refuse(t) \/ CreateSession(t) \/ DestroySession(t)
       \/ Confirm(t) \/ MarkReauthenticated(t) \/ Answer(t) \/ Hangup(t)
  \/ \E l \in Links, purpose \in {"signin", "recover"} : IssueToken(l, purpose)
  \/ PurgeExpiredSessions \/ PurgeExpiredTokens \/ Tick

Spec == Init /\ [][Next]_vars

-----------------------------------------------------------------------------
(* Properties *)

\* A link in a mail works once, however many tabs open it and whenever they
\* send what they show: RedeemToken and RecoverPassword.
LinkOnce == \A l \in Links : spent[l] <= 1

\* A recovered account keeps no session from before.  It gets one on the
\* strength of a former password only where a sign-in was let in and had not
\* come to its session when the password was recovered, and then only one each;
\* and no session counts as freshly confirmed with a former password, even when
\* the confirmation was under way.
Recovered ==
  /\ \A s \in session : s.proof = pass \/ s.of \in overtaken
  /\ \A s, u \in session : s.of = u.of /\ s.proof # pass /\ u.proof # pass => s = u
  /\ \A s \in session : FreshIn(s) => s.markPass = pass

\* A browser that is signed in stays so until it signs in anew: its cookie of a
\* live session is only ever taken by the answer to an earlier request, which
\* carried the cookie of a session that is over, or by a database that could not
\* be read.
CookieKept ==
  \A b \in Browsers :
    Alive(cookie[b]) /\ cookie'[b] # cookie[b] =>
      \E t \in Tabs : /\ tab[t].b = b /\ tab'[t].pc = "idle"
                      /\ \/ tab[t].pc \in {"fault", "give"}
                         \/ tab[t].pc = "clear" /\ tab[t].sent # cookie[b] /\ ~Alive(tab[t].sent)

=============================================================================
