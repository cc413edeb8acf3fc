---------------------------- MODULE RecordsProofs ---------------------------
(***************************************************************************)
(* What the records of the instance say of the world (Sites, Moderation,   *)
(* Mentions, Reading, Media and Backup, as parts of Services), for every   *)
(* number of requests, accounts, sites, reports, mentions, items and       *)
(* files, and who may change what belongs to an account.                   *)
(*                                                                         *)
(*  - SitesInv.  A request knows a row by its number, and writes to the    *)
(*    row it looked up unless that one was released meanwhile, because a   *)
(*    number is given anew only when its row is gone.                      *)
(*  - ModerationInv.  Of a report nothing is logged, or about to be,       *)
(*    before it is decided, and one thing at most thereafter.              *)
(*  - MentionsInv.  The worker's job is live.  A mention whose job is      *)
(*    being closed waits for nothing, a decision taken during a            *)
(*    verification is counted as raced, and at the end of an attempt row   *)
(*    and ledger agree.                                                    *)
(*  - ReadingInv.  What the reader has not seen is ahead of the cursor.    *)
(*  - MediaInv.  A file that a row or an upload relies on is there, and a  *)
(*    partial one has a writer or was cut off.  QuotaInv.  An account none *)
(*    of whose uploads overlapped has one at most, and room for it.        *)
(*  - BackupInv.  What a taker lists of its snapshot is whole, so is what  *)
(*    a manifest lists, and what verified waits unchanged.                 *)
(*  - Over.  A request whose answer takes a cookie away carried that of a  *)
(*    session that is over.                                                *)
(***************************************************************************)
EXTENDS AccountsProofs

-----------------------------------------------------------------------------
(* Sites *)

Site == [id : 1..MaxRows, owner : Owners, host : Hosts, verified : BOOLEAN]
Ask == [pc : {"idle", "claim", "fetch", "write", "release"}, owner : Owners \cup {None}, id : Nat,
        host : Hosts \cup {None}, saw : BOOLEAN]

SitesShape ==
  /\ site \subseteq Site
  /\ asks \in [Tabs -> Ask]
  /\ \A t \in Tabs : asks[t].pc = "claim" => asks[t].owner \in Owners /\ asks[t].host \in Hosts

\* A number names one row.
Numbered == \A r, s \in site : r.id = s.id => r = s

\* A request knows a row by its number until the row is gone.
Knows(q) == q.pc \in {"fetch", "write", "release"} =>
  q.id \in mixed \/ \E s \in site : s.id = q.id /\ s.owner = q.owner /\ s.host = q.host

\* What a verification saw was there to be seen.
Honest(q) == q.pc = "write" /\ q.saw => <<q.host, q.owner>> \in witness

SitesInv ==
  /\ SitesShape /\ Numbered /\ Sites!OneOwner /\ Sites!VerifiedTrue
  /\ \A t \in Tabs : Knows(asks[t]) /\ Honest(asks[t])

\* The number of a new row is none that is in use.
LEMMA NextIsNew ==
  ASSUME site \subseteq Site
  PROVE  Sites!NextId \in Nat \ {0} /\ \A s \in site : s.id < Sites!NextId
<1> DEFINE upto == {n \in 1..MaxRows : \E s \in site : s.id >= n}
<1>1. IsFiniteSet(1..MaxRows) /\ MaxRows \in Int /\ upto \in SUBSET (1..MaxRows)
  BY FS_Interval, SitesAssumption
<1>2. IsFiniteSet(upto)
  BY <1>1, FS_Subset
<1>3. Cardinality(upto) \in Nat
  BY <1>2, FS_CardinalityType
<1>4. ASSUME NEW s \in site PROVE s.id <= Cardinality(upto)
  <2>1. s.id \in 1..MaxRows
    BY DEF Site
  <2>2. 1..s.id \in SUBSET upto
    BY <2>1, SitesAssumption
  <2>3. Cardinality(1..s.id) = s.id
    BY <2>1, FS_Interval, SitesAssumption
  <2> HIDE DEF upto
  <2>4. QED
    BY <1>2, <2>2, <2>3, FS_Subset
<1>5. Sites!NextId = 1 + Cardinality(upto)
  BY DEF Sites!NextId, Sites!Cardinality, Cardinality, Sites!IsFiniteSet, IsFiniteSet
<1> HIDE DEF upto
<1>6. \A s \in site : s.id \in Nat
  BY SitesAssumption DEF Site
<1>7. QED
  BY <1>3, <1>4, <1>5, <1>6

LEMMA SitesInit ==
  ASSUME Sites!Init
  PROVE  SitesInv
<1>1. Sites!NoAsk \in Ask /\ Sites!NoAsk.pc = "idle"
  BY DEF Sites!NoAsk, Ask
<1>2. QED
  BY <1>1 DEF Sites!Init, SitesInv, SitesShape, Numbered, Sites!OneOwner, Sites!VerifiedTrue, Knows, Honest

\* A step of one request that leaves the table alone.
LEMMA Asks ==
  ASSUME SitesInv, NEW t \in Tabs, NEW q \in Ask, asks' = [asks EXCEPT ![t] = q],
         UNCHANGED <<site, mixed>>, witness \subseteq witness',
         q.pc = "claim" => q.owner \in Owners /\ q.host \in Hosts,
         q.pc \in {"fetch", "write", "release"} =>
           q.id \in mixed \/ \E s \in site : s.id = q.id /\ s.owner = q.owner /\ s.host = q.host,
         q.pc = "write" /\ q.saw => <<q.host, q.owner>> \in witness'
  PROVE  SitesInv'
<1>1. asks'[t] = q /\ \A u \in Tabs : u # t => asks'[u] = asks[u]
  BY DEF SitesInv, SitesShape
<1>2. SitesShape'
  BY <1>1 DEF SitesInv, SitesShape
<1>3. Numbered' /\ Sites!OneOwner' /\ Sites!VerifiedTrue'
  BY DEF SitesInv, Numbered, Sites!OneOwner, Sites!VerifiedTrue
<1>4. ASSUME NEW u \in Tabs PROVE Knows(asks[u])' /\ Honest(asks[u])'
  <2>1. CASE u = t
    BY <1>1, <2>1 DEF Knows, Honest
  <2>2. CASE u # t
    BY <1>1, <2>2 DEF SitesInv, Knows, Honest
  <2>3. QED
    BY <2>1, <2>2
<1>5. QED
  BY <1>2, <1>3, <1>4 DEF SitesInv

LEMMA ClaimKeeps ==
  ASSUME SitesInv, NEW t \in Tabs, NEW o \in Owners, NEW h \in Hosts, Sites!Claim(t, o, h)
  PROVE  SitesInv'
<1> DEFINE c == [Sites!NoAsk EXCEPT !.pc = "claim"]
           co == [c EXCEPT !.owner = o]
           q == [co EXCEPT !.host = h]
<1>1. c \in Ask /\ c.pc = "claim"
  BY DEF Sites!NoAsk, Ask
<1>2. asks' = [asks EXCEPT ![t] = q] /\ UNCHANGED <<site, mixed, witness>>
  BY DEF Sites!Claim, Sites!Start
<1> HIDE DEF c
<1>3. co \in Ask /\ co.pc = "claim" /\ co.owner = o
  BY <1>1 DEF Ask
<1> HIDE DEF co
<1>4. q \in Ask /\ q.pc = "claim" /\ q.owner = o /\ q.host = h
  BY <1>3 DEF Ask
<1> HIDE DEF q
<1>5. QED
  BY <1>2, <1>4, Asks

LEMMA LookupKeeps ==
  ASSUME SitesInv, NEW t \in Tabs, NEW o \in Owners, NEW id \in 1..MaxRows, NEW pc \in {"fetch", "release"},
         Sites!Lookup(t, o, id, pc)
  PROVE  SitesInv'
<1>1. PICK s \in Sites!Own(o, id) :
        asks' = [asks EXCEPT ![t] = [pc |-> pc, owner |-> o, id |-> id, host |-> s.host, saw |-> FALSE]]
  BY DEF Sites!Lookup, Sites!Start
<1>2. s \in site /\ s.id = id /\ s.owner = o /\ s.host \in Hosts
  BY DEF Sites!Own, Sites!Row, SitesInv, SitesShape, Site
<1> DEFINE q == [pc |-> pc, owner |-> o, id |-> id, host |-> s.host, saw |-> FALSE]
<1>3. q \in Ask /\ q.pc = pc /\ q.owner = o /\ q.id = id /\ q.host = s.host
  BY <1>2 DEF Ask
<1>4. asks' = [asks EXCEPT ![t] = q]
  BY <1>1
<1>5. UNCHANGED <<site, mixed, witness>>
  BY DEF Sites!Lookup
<1> HIDE DEF q
<1>6. QED
  BY <1>2, <1>3, <1>4, <1>5, Asks

LEMMA FetchKeeps ==
  ASSUME SitesInv, NEW t \in Tabs, Sites!Fetch(t)
  PROVE  SitesInv'
<1>1. PICK saw \in BOOLEAN :
        /\ asks' = [asks EXCEPT ![t].pc = "write", ![t].saw = saw]
        /\ saw => <<asks[t].host, asks[t].owner>> \in witness'
        /\ witness \subseteq witness'
  <2> DEFINE linksBack == asks[t].owner \in links[asks[t].host]
  <2>1. /\ asks' = [asks EXCEPT ![t].pc = "write", ![t].saw = linksBack]
        /\ witness' = IF linksBack THEN witness \cup {<<asks[t].host, asks[t].owner>>} ELSE witness
    BY DEF Sites!Fetch
  <2>2. linksBack \in BOOLEAN
    OBVIOUS
  <2>3. linksBack => <<asks[t].host, asks[t].owner>> \in witness'
    BY <2>1
  <2>4. witness \subseteq witness'
    BY <2>1
  <2> HIDE DEF linksBack
  <2>5. QED
    BY <2>1, <2>2, <2>3, <2>4
<1>2. asks[t] \in Ask /\ asks[t].pc = "fetch" /\ Knows(asks[t])
  BY DEF SitesInv, SitesShape, Sites!Fetch
<1> DEFINE g == [asks[t] EXCEPT !.pc = "write"]
           q == [g EXCEPT !.saw = saw]
<1>3. asks' = [asks EXCEPT ![t] = q]
  BY <1>1 DEF SitesInv, SitesShape
<1>4. g \in Ask /\ g.pc = "write" /\ g.owner = asks[t].owner /\ g.host = asks[t].host /\ g.id = asks[t].id
  BY <1>2 DEF Ask
<1> HIDE DEF g
<1>5. /\ q \in Ask /\ q.pc = "write" /\ q.owner = asks[t].owner /\ q.host = asks[t].host
      /\ q.id = asks[t].id /\ q.saw = saw
  BY <1>4 DEF Ask
<1> HIDE DEF q
<1>6. UNCHANGED <<site, mixed>>
  BY DEF Sites!Fetch
<1>7. q.id \in mixed \/ \E s \in site : s.id = q.id /\ s.owner = q.owner /\ s.host = q.host
  BY <1>2, <1>5 DEF Knows
<1>8. QED
  BY <1>1, <1>3, <1>5, <1>6, <1>7, Asks

\* The end of a request, after what it did to the table.
LEMMA Ends ==
  ASSUME SitesInv, NEW t \in Tabs, Sites!Finish(t), UNCHANGED witness
  PROVE  /\ asks' \in [Tabs -> Ask] /\ asks'[t] = Sites!NoAsk /\ \A u \in Tabs : u # t => asks'[u] = asks[u]
         /\ \A u \in Tabs : asks'[u].pc = "claim" => asks'[u].owner \in Owners /\ asks'[u].host \in Hosts
         /\ \A u \in Tabs : Honest(asks[u])'
<1>1. Sites!NoAsk \in Ask /\ Sites!NoAsk.pc = "idle"
  BY DEF Sites!NoAsk, Ask
<1>2. asks' \in [Tabs -> Ask] /\ asks'[t] = Sites!NoAsk /\ \A u \in Tabs : u # t => asks'[u] = asks[u]
  BY <1>1 DEF Sites!Finish, SitesInv, SitesShape
<1>3. \A u \in Tabs : asks'[u].pc = "claim" => asks'[u].owner \in Owners /\ asks'[u].host \in Hosts
  BY <1>1, <1>2 DEF SitesInv, SitesShape
<1>4. \A u \in Tabs : Honest(asks[u])'
  BY <1>1, <1>2 DEF SitesInv, Honest
<1>5. QED
  BY <1>2, <1>3, <1>4

LEMMA SiteInsertKeeps ==
  ASSUME SitesInv, NEW t \in Tabs, Sites!Insert(t)
  PROVE  SitesInv'
<1> DEFINE new == [id |-> Sites!NextId, owner |-> asks[t].owner, host |-> asks[t].host, verified |-> FALSE]
<1>1. /\ Sites!Finish(t) /\ UNCHANGED <<witness, mixed>> /\ Sites!NextId <= MaxRows
      /\ asks[t].owner \in Owners /\ asks[t].host \in Hosts
  BY DEF Sites!Insert, SitesInv, SitesShape
<1>2. Sites!NextId \in 1..MaxRows /\ \A s \in site : s.id # Sites!NextId
  BY <1>1, NextIsNew, SitesAssumption DEF SitesInv, SitesShape, Site
<1>3. new \in Site /\ new.id = Sites!NextId /\ ~new.verified /\ new.host = asks[t].host
  BY <1>1, <1>2 DEF Site
<1>4. site' = site \/ (Sites!Free(asks[t].host) /\ site' = site \cup {new})
  BY DEF Sites!Insert
<1> HIDE DEF new
<1>5. site' \subseteq Site /\ site \subseteq site'
  BY <1>3, <1>4 DEF SitesInv, SitesShape
<1>6. Numbered' /\ Sites!OneOwner'
  BY <1>2, <1>3, <1>4 DEF SitesInv, Numbered, Sites!OneOwner, Sites!Free
<1>7. Sites!VerifiedTrue'
  BY <1>1, <1>3, <1>4 DEF SitesInv, Sites!VerifiedTrue
<1>8. \A u \in Tabs : Knows(asks[u])'
  BY <1>1, <1>5, Ends DEF SitesInv, Knows, Sites!NoAsk
<1>9. QED
  BY <1>1, <1>5, <1>6, <1>7, <1>8, Ends DEF SitesInv, SitesShape

LEMMA RecordKeeps ==
  ASSUME SitesInv, NEW t \in Tabs, Sites!Record(t)
  PROVE  SitesInv'
<1> DEFINE seen(s) == [s EXCEPT !.verified = asks[t].saw]
<1>1. /\ Sites!Finish(t) /\ UNCHANGED <<witness, mixed>> /\ asks[t].pc = "write" /\ asks[t].saw \in BOOLEAN
      /\ site' = {IF s.id = asks[t].id THEN seen(s) ELSE s : s \in site}
  BY DEF Sites!Record, SitesInv, SitesShape, Ask
<1>2. \A s \in site : /\ seen(s) \in Site /\ seen(s).id = s.id /\ seen(s).owner = s.owner
                      /\ seen(s).host = s.host /\ seen(s).verified = asks[t].saw
  BY <1>1 DEF SitesInv, SitesShape, Site
<1>3. \A x \in site' : \E s \in site : x = s \/ (s.id = asks[t].id /\ x = seen(s))
  BY <1>1
<1>4. \A s \in site : \E x \in site' : x.id = s.id /\ x.owner = s.owner /\ x.host = s.host
  BY <1>1, <1>2
<1>5. site' \subseteq Site
  BY <1>2, <1>3 DEF SitesInv, SitesShape
<1>6. \A x, y \in site' : x.id = y.id \/ x.host = y.host => x = y
  <2>1. TAKE x, y \in site'
  <2>2. PICK r \in site : x = IF r.id = asks[t].id THEN seen(r) ELSE r
    BY <1>1
  <2>3. PICK s \in site : y = IF s.id = asks[t].id THEN seen(s) ELSE s
    BY <1>1
  <2>4. x.id = r.id /\ x.host = r.host /\ y.id = s.id /\ y.host = s.host
    BY <1>2, <2>2, <2>3
  <2>5. x.id = y.id \/ x.host = y.host => r = s
    BY <2>4 DEF SitesInv, Numbered, Sites!OneOwner
  <2>6. QED
    BY <2>2, <2>3, <2>5
<1>7. Sites!VerifiedTrue'
  <2>1. SUFFICES ASSUME NEW x \in site', x.verified, x.id \notin mixed PROVE <<x.host, x.owner>> \in witness
    BY <1>1 DEF Sites!VerifiedTrue
  <2>2. PICK s \in site : x = s \/ (s.id = asks[t].id /\ x = seen(s))
    BY <1>3
  <2>3. CASE x = s
    BY <2>1, <2>3 DEF SitesInv, Sites!VerifiedTrue
  <2>4. CASE s.id = asks[t].id /\ x = seen(s)
    <3>1. x.id = s.id /\ x.owner = s.owner /\ x.host = s.host /\ asks[t].saw
      BY <1>2, <2>1, <2>4
    <3>2. PICK r \in site : r.id = asks[t].id /\ r.owner = asks[t].owner /\ r.host = asks[t].host
      BY <1>1, <2>1, <2>4, <3>1 DEF SitesInv, Knows
    <3>3. r = s
      BY <2>4, <3>2 DEF SitesInv, Numbered
    <3>4. <<asks[t].host, asks[t].owner>> \in witness
      BY <1>1, <3>1 DEF SitesInv, Honest
    <3>5. QED
      BY <3>1, <3>2, <3>3, <3>4
  <2>5. QED
    BY <2>2, <2>3, <2>4
<1> HIDE DEF seen
<1>8. \A u \in Tabs : Knows(asks[u])'
  BY <1>1, <1>4, Ends DEF SitesInv, Knows, Sites!NoAsk
<1>9. Numbered' /\ Sites!OneOwner'
  BY <1>6 DEF Numbered, Sites!OneOwner
<1>10. QED
  BY <1>1, <1>5, <1>7, <1>8, <1>9, Ends DEF SitesInv, SitesShape

LEMMA ReleaseKeeps ==
  ASSUME SitesInv, NEW t \in Tabs, Sites!Release(t)
  PROVE  SitesInv'
<1>1. /\ Sites!Finish(t) /\ UNCHANGED witness /\ site' = site \ Sites!Row(asks[t].id)
      /\ mixed \subseteq mixed'
      /\ \A u \in Tabs \ {t} : (\E s \in Sites!Row(asks[t].id) : s.id = asks[u].id) => asks[u].id \in mixed'
  BY DEF Sites!Release, Sites!Mixed
<1>2. site' \subseteq site
  BY <1>1
<1>3. Numbered' /\ Sites!OneOwner' /\ Sites!VerifiedTrue'
  BY <1>1, <1>2 DEF SitesInv, Numbered, Sites!OneOwner, Sites!VerifiedTrue
<1>4. ASSUME NEW u \in Tabs PROVE Knows(asks[u])'
  <2>1. CASE u = t
    BY <1>1, <2>1, Ends DEF Knows, Sites!NoAsk
  <2>2. CASE u # t
    <3>1. asks'[u] = asks[u] /\ Knows(asks[u])
      BY <1>1, <2>2, Ends DEF SitesInv
    <3>2. QED
      BY <1>1, <2>2, <3>1 DEF Knows
  <2>3. QED
    BY <2>1, <2>2
<1>5. QED
  BY <1>1, <1>2, <1>3, <1>4, Ends DEF SitesInv, SitesShape

LEMMA SitesStep ==
  ASSUME SitesInv, [Sites!Next]_Sites!vars
  PROVE  SitesInv'
<1>1. CASE UNCHANGED Sites!vars \/ \E h \in Hosts, profiles \in SUBSET Owners : Sites!Edit(h, profiles)
  <2>1. UNCHANGED <<site, asks, witness, mixed>>
    BY <1>1 DEF Sites!vars, Sites!Edit
  <2>2. QED
    BY <2>1 DEF SitesInv, SitesShape, Numbered, Sites!OneOwner, Sites!VerifiedTrue, Knows, Honest
<1>2. ASSUME NEW t \in Tabs,
             \/ \E o \in Owners : \/ \E h \in Hosts : Sites!Claim(t, o, h)
                                  \/ \E id \in 1..MaxRows, pc \in {"fetch", "release"} : Sites!Lookup(t, o, id, pc)
             \/ Sites!Insert(t) \/ Sites!Fetch(t) \/ Sites!Record(t) \/ Sites!Release(t)
      PROVE  SitesInv'
  BY <1>2, ClaimKeeps, LookupKeeps, SiteInsertKeeps, FetchKeeps, RecordKeeps, ReleaseKeeps
<1>3. QED
  BY <1>1, <1>2 DEF Sites!Next

\* A row goes, or stops being verified, when a request that looked it up as its
\* owner's is done.
LEMMA SitesKept ==
  ASSUME SitesInv, [Sites!Next]_Sites!vars
  PROVE  Sites!OwnersOnly
<1>1. SUFFICES ASSUME NEW s \in site, s \notin site', s.id \notin mixed
               PROVE  \E t \in Tabs : asks[t].id = s.id /\ asks[t].owner = s.owner /\ asks'[t] = Sites!NoAsk
  BY DEF Sites!OwnersOnly
<1>2. PICK t \in Tabs : Sites!Record(t) \/ Sites!Release(t)
  <2>1. ~(site \subseteq site')
    BY <1>1
  <2>2. QED
    BY <2>1 DEF Sites!Next, Sites!vars, Sites!Claim, Sites!Lookup, Sites!Insert, Sites!Fetch, Sites!Edit
<1>3. asks'[t] = Sites!NoAsk
  BY <1>2 DEF Sites!Record, Sites!Release, Sites!Finish, SitesInv, SitesShape
<1>4. asks[t].id = s.id
  BY <1>1, <1>2 DEF Sites!Record, Sites!Release, Sites!Row
<1>5. Knows(asks[t]) /\ asks[t].pc \in {"write", "release"}
  BY <1>2 DEF SitesInv, Sites!Record, Sites!Release
<1>6. PICK u \in site : u.id = asks[t].id /\ u.owner = asks[t].owner
  BY <1>1, <1>4, <1>5 DEF Knows
<1>7. u = s
  BY <1>4, <1>6 DEF SitesInv, Numbered
<1>8. QED
  BY <1>3, <1>4, <1>6, <1>7

-----------------------------------------------------------------------------
(* Moderation *)

Log == [action : {"block", "unblock", "upheld", "dismissed"}, who : Insiders,
        subject : Values \cup Reports, detail : Insiders \cup {None}]

ModerationType ==
  /\ block \subseteq [scope : Insiders \cup {None}, value : Values, by : Insiders]
  /\ report \in [Reports -> [state : {"none", "open", "upheld", "dismissed"}, by : Insiders \cup {None}]]
  /\ audit \in Seq(Log) /\ act \in [Tabs -> Log \cup {Moderation!NoAct}] /\ lost \in Nat

Decided(r) == report[r].state \in {"upheld", "dismissed"}
Verdict(r) == Moderation!Entry(report[r].state, report[r].by, r, None)

\* What the log has of a report, and what a request has yet to log of it.
OnRecord(r) == {k \in DOMAIN audit : audit[k].subject = r}
InHand(r) == {t \in Tabs : act[t].subject = r}

\* All there is about a report is its verdict, once.
ReportFine(r) ==
  /\ \A k \in OnRecord(r) : audit[k] = Verdict(r) /\ Decided(r)
  /\ \A t \in InHand(r) : act[t] = Verdict(r) /\ Decided(r)
  /\ \A k, l \in OnRecord(r) : k = l
  /\ \A t, u \in InHand(r) : t = u
  /\ OnRecord(r) = {} \/ InHand(r) = {}
  /\ Decided(r) => OnRecord(r) # {} \/ InHand(r) # {} \/ lost > 0

BlockFine(b) ==
  \/ lost > 0
  \/ \E k \in DOMAIN audit : audit[k] = Moderation!Entry("block", b.by, b.value, b.scope)
  \/ \E t \in Tabs : act[t] = Moderation!Entry("block", b.by, b.value, b.scope)

ModerationInv ==
  /\ ModerationType
  /\ \A b \in block : BlockFine(b)
  /\ \A r \in Reports : ReportFine(r)

LEMMA NoActLogged ==
  Moderation!NoAct \notin Log /\ Moderation!NoAct.subject \notin Reports /\ Moderation!NoAct.action = "idle"
BY ModerationAssumption DEF Moderation!NoAct, Log

LEMMA ModerationInit ==
  ASSUME Moderation!Init
  PROVE  ModerationInv
<1>1. ModerationType
  BY DEF Moderation!Init, ModerationType
<1>2. \A r \in Reports : OnRecord(r) = {} /\ InHand(r) = {} /\ ~Decided(r)
  BY NoActLogged DEF Moderation!Init, OnRecord, InHand, Decided
<1>3. QED
  BY <1>1, <1>2 DEF Moderation!Init, ModerationInv, ReportFine

\* A request begins to log something.
LEMMA ActStarts ==
  ASSUME ModerationInv, NEW t \in Tabs, NEW e \in Log, Moderation!Act(t, e)
  PROVE  /\ act' \in [Tabs -> Log \cup {Moderation!NoAct}] /\ act[t] = Moderation!NoAct
         /\ act'[t] = e /\ \A u \in Tabs : u # t => act'[u] = act[u]
BY DEF Moderation!Act, ModerationInv, ModerationType

\* Blocks that were fine stay so while requests begin.
LEMMA BlocksStay ==
  ASSUME ModerationInv, NEW t \in Tabs, NEW e \in Log, Moderation!Act(t, e), UNCHANGED <<audit, lost>>
  PROVE  /\ \A b \in block : BlockFine(b)'
         /\ \A b : e = Moderation!Entry("block", b.by, b.value, b.scope) => BlockFine(b)'
BY ActStarts, NoActLogged DEF ModerationInv, BlockFine, Moderation!Entry, Moderation!NoAct

\* So do the reports what a request begins to log is not about.
LEMMA ReportsStay ==
  ASSUME ModerationInv, NEW t \in Tabs, NEW e \in Log, Moderation!Act(t, e),
         NEW r \in Reports, e.subject # r, report'[r] = report[r], UNCHANGED <<audit, lost>>
  PROVE  ReportFine(r)'
<1>1. InHand(r)' = InHand(r)
  BY ActStarts, NoActLogged DEF InHand
<1>2. OnRecord(r)' = OnRecord(r) /\ Verdict(r)' = Verdict(r) /\ Decided(r)' = Decided(r)
  BY DEF OnRecord, Verdict, Decided
<1>3. t \notin InHand(r)
  BY ActStarts, NoActLogged DEF InHand
<1>4. \A u \in InHand(r) : act'[u] = act[u]
  BY <1>3, ActStarts DEF InHand
<1>5. QED
  BY <1>1, <1>2, <1>4 DEF ModerationInv, ReportFine

LEMMA BlockKeeps ==
  ASSUME ModerationInv, NEW t \in Tabs, NEW who \in Insiders, NEW scope \in Insiders \cup {None}, NEW value \in Values,
         Moderation!Block(t, who, scope, value) \/ Moderation!Unblock(t, who, scope, value)
  PROVE  ModerationInv'
<1>1. PICK e \in Log :
        /\ Moderation!Act(t, e) /\ e.subject = value
        /\ \A b \in block' : b \in block \/ (/\ b \in [scope : Insiders \cup {None}, value : Values, by : Insiders]
                                             /\ e = Moderation!Entry("block", b.by, b.value, b.scope))
  <2>1. CASE Moderation!Block(t, who, scope, value)
    <3> DEFINE e == Moderation!Entry("block", who, value, scope)
               b == [scope |-> scope, value |-> value, by |-> who]
    <3>1. e \in Log /\ e.subject = value
      BY DEF Moderation!Entry, Log
    <3>2. /\ b \in [scope : Insiders \cup {None}, value : Values, by : Insiders]
          /\ e = Moderation!Entry("block", b.by, b.value, b.scope)
      OBVIOUS
    <3>3. Moderation!Act(t, e) /\ block' \subseteq block \cup {b}
      BY <2>1 DEF Moderation!Block
    <3> HIDE DEF e, b
    <3>4. QED
      BY <3>1, <3>2, <3>3
  <2>2. CASE Moderation!Unblock(t, who, scope, value)
    <3>1. Moderation!Entry("unblock", who, value, None) \in Log
      BY DEF Moderation!Entry, Log
    <3>2. Moderation!Entry("unblock", who, value, None).subject = value
      BY DEF Moderation!Entry
    <3>3. Moderation!Act(t, Moderation!Entry("unblock", who, value, None)) /\ block' \subseteq block
      BY <2>2 DEF Moderation!Unblock
    <3>4. QED
      BY <3>1, <3>2, <3>3
  <2>3. QED
    BY <2>1, <2>2
<1>2. UNCHANGED <<report, audit, lost>>
  BY DEF Moderation!Block, Moderation!Unblock
<1>3. ModerationType'
  <2>1. block' \subseteq [scope : Insiders \cup {None}, value : Values, by : Insiders]
    BY <1>1 DEF ModerationInv, ModerationType
  <2>2. QED
    BY <1>1, <1>2, <2>1, ActStarts DEF ModerationInv, ModerationType
<1>4. \A b \in block' : BlockFine(b)'
  BY <1>1, <1>2, BlocksStay
<1>5. \A r \in Reports : ReportFine(r)'
  BY <1>1, <1>2, ReportsStay, ModerationAssumption
<1>6. QED
  BY <1>3, <1>4, <1>5 DEF ModerationInv

LEMMA DecideKeeps ==
  ASSUME ModerationInv, NEW t \in Tabs, NEW who \in Insiders, NEW r \in Reports, NEW verdict \in {"upheld", "dismissed"},
         Moderation!Decide(t, who, r, verdict)
  PROVE  ModerationInv'
<1> DEFINE e == Moderation!Entry(verdict, who, r, None)
<1>1. e \in Log /\ e.subject = r
  BY DEF Moderation!Entry, Log
<1>2. /\ Moderation!Act(t, e) /\ report' = [report EXCEPT ![r] = [state |-> verdict, by |-> who]]
      /\ UNCHANGED <<block, audit, lost>> /\ ~Decided(r)
  BY DEF Moderation!Decide, Moderation!Undecided, Decided
<1>3. /\ report' \in [Reports -> [state : {"none", "open", "upheld", "dismissed"}, by : Insiders \cup {None}]]
      /\ report'[r] = [state |-> verdict, by |-> who] /\ \A q \in Reports : q # r => report'[q] = report[q]
  BY <1>2 DEF ModerationInv, ModerationType
<1>4. Verdict(r)' = e /\ Decided(r)'
  BY <1>3 DEF Verdict, Decided
<1> HIDE DEF e
<1>5. ModerationType'
  BY <1>1, <1>2, <1>3, ActStarts DEF ModerationInv, ModerationType
<1>6. \A b \in block' : BlockFine(b)'
  BY <1>1, <1>2, BlocksStay
<1>7. \A q \in Reports : q # r => ReportFine(q)'
  BY <1>1, <1>2, <1>3, ReportsStay
<1>8. ReportFine(r)'
  <2>1. OnRecord(r) = {} /\ InHand(r) = {}
    BY <1>2 DEF ModerationInv, ReportFine
  <2>2. OnRecord(r)' = {}
    BY <1>2, <2>1 DEF OnRecord
  <2>3. InHand(r)' = {t}
    BY <1>1, <1>2, <2>1, ActStarts DEF InHand
  <2>4. act'[t] = e
    BY <1>1, <1>2, ActStarts
  <2>5. QED
    BY <1>4, <2>2, <2>3, <2>4 DEF ReportFine
<1>9. QED
  BY <1>5, <1>6, <1>7, <1>8 DEF ModerationInv

\* What is in hand is logged.
LEMMA LogKeeps ==
  ASSUME ModerationInv, NEW t \in Tabs, Moderation!Log(t)
  PROVE  ModerationInv'
<1>1. act[t] \in Log /\ audit \in Seq(Log) /\ UNCHANGED <<block, report, lost>>
  BY DEF Moderation!Log, ModerationInv, ModerationType
<1>2. /\ act' \in [Tabs -> Log \cup {Moderation!NoAct}] /\ act'[t] = Moderation!NoAct
      /\ \A u \in Tabs : u # t => act'[u] = act[u]
  BY DEF Moderation!Log, ModerationInv, ModerationType
<1>3. audit' = Append(audit, act[t])
  BY DEF Moderation!Log
<1> DEFINE n == Len(audit) + 1
<1>4. /\ audit' \in Seq(Log) /\ DOMAIN audit' = DOMAIN audit \cup {n} /\ n \notin DOMAIN audit
      /\ audit'[n] = act[t] /\ \A k \in DOMAIN audit : audit'[k] = audit[k]
  BY <1>1, <1>3
<1> HIDE DEF n
<1>5. ModerationType'
  BY <1>1, <1>2, <1>4 DEF ModerationInv, ModerationType
<1>6. ASSUME NEW b \in block' PROVE BlockFine(b)'
  <2>1. BlockFine(b)
    BY <1>1 DEF ModerationInv
  <2>2. QED
    BY <1>1, <1>2, <1>4, <2>1 DEF BlockFine
<1>7. ASSUME NEW r \in Reports PROVE ReportFine(r)'
  <2>1. ReportFine(r) /\ Verdict(r)' = Verdict(r) /\ Decided(r)' = Decided(r)
    BY <1>1 DEF ModerationInv, Verdict, Decided
  <2>2. CASE act[t].subject = r
    <3>1. InHand(r) = {t} /\ OnRecord(r) = {} /\ act[t] = Verdict(r) /\ Decided(r)
      BY <2>1, <2>2 DEF ReportFine, InHand
    <3>2. InHand(r)' = {}
      BY <1>2, <3>1, NoActLogged DEF InHand
    <3>3. OnRecord(r)' = {n}
      BY <1>4, <2>2, <3>1 DEF OnRecord
    <3>4. QED
      BY <1>4, <2>1, <3>1, <3>2, <3>3 DEF ReportFine
  <2>3. CASE act[t].subject # r
    <3>1. InHand(r)' = InHand(r) /\ t \notin InHand(r) /\ \A u \in InHand(r) : act'[u] = act[u]
      BY <1>2, <2>3, NoActLogged DEF InHand
    <3>2. OnRecord(r)' = OnRecord(r) /\ \A k \in OnRecord(r) : audit'[k] = audit[k]
      BY <1>4, <2>3 DEF OnRecord
    <3>3. QED
      BY <1>1, <2>1, <3>1, <3>2 DEF ReportFine
  <2>4. QED
    BY <2>2, <2>3
<1>8. QED
  BY <1>5, <1>6, <1>7 DEF ModerationInv

LEMMA LoseKeeps ==
  ASSUME ModerationInv, NEW t \in Tabs, Moderation!Lose(t)
  PROVE  ModerationInv'
<1>1. lost' > 0 /\ lost' \in Nat /\ UNCHANGED <<block, report, audit>>
  BY DEF Moderation!Lose, ModerationInv, ModerationType
<1>2. /\ act' \in [Tabs -> Log \cup {Moderation!NoAct}] /\ act'[t] = Moderation!NoAct
      /\ \A u \in Tabs : u # t => act'[u] = act[u]
  BY DEF Moderation!Lose, ModerationInv, ModerationType
<1>3. ModerationType'
  BY <1>1, <1>2 DEF ModerationInv, ModerationType
<1>4. \A b \in block' : BlockFine(b)'
  BY <1>1 DEF BlockFine
<1>5. ASSUME NEW r \in Reports PROVE ReportFine(r)'
  <2>1. ReportFine(r) /\ Verdict(r)' = Verdict(r) /\ Decided(r)' = Decided(r) /\ OnRecord(r)' = OnRecord(r)
    BY <1>1 DEF ModerationInv, Verdict, Decided, OnRecord
  <2>2. InHand(r)' \subseteq InHand(r) /\ \A u \in InHand(r)' : act'[u] = act[u]
    BY <1>2, NoActLogged DEF InHand
  <2>3. QED
    BY <1>1, <2>1, <2>2 DEF ReportFine
<1>6. QED
  BY <1>3, <1>4, <1>5 DEF ModerationInv

LEMMA ReportKeeps ==
  ASSUME ModerationInv, NEW r \in Reports, Moderation!Report(r)
  PROVE  ModerationInv'
<1>1. ~Decided(r) /\ report' = [report EXCEPT ![r].state = "open"] /\ UNCHANGED <<block, audit, act, lost>>
  BY DEF Moderation!Report, Decided
<1>2. /\ report' \in [Reports -> [state : {"none", "open", "upheld", "dismissed"}, by : Insiders \cup {None}]]
      /\ report'[r].state = "open" /\ \A q \in Reports : q # r => report'[q] = report[q]
  BY <1>1 DEF ModerationInv, ModerationType
<1>3. ASSUME NEW q \in Reports PROVE ReportFine(q)'
  <2>1. OnRecord(q)' = OnRecord(q) /\ InHand(q)' = InHand(q) /\ ReportFine(q)
    BY <1>1 DEF OnRecord, InHand, ModerationInv
  <2>2. CASE q = r
    BY <1>1, <1>2, <2>1, <2>2 DEF ReportFine, Decided
  <2>3. CASE q # r
    BY <1>1, <1>2, <2>1, <2>3 DEF ReportFine, Decided, Verdict
  <2>4. QED
    BY <2>2, <2>3
<1>4. ModerationType' /\ \A b \in block' : BlockFine(b)'
  BY <1>1, <1>2 DEF ModerationInv, ModerationType, BlockFine
<1>5. QED
  BY <1>3, <1>4 DEF ModerationInv

LEMMA ModerationStep ==
  ASSUME ModerationInv, [Moderation!Next]_Moderation!vars
  PROVE  ModerationInv'
<1>1. CASE UNCHANGED Moderation!vars
  BY <1>1 DEF Moderation!vars, ModerationInv, ModerationType, BlockFine, ReportFine, Verdict, Decided, OnRecord, InHand
<1>2. CASE Moderation!Next
  BY <1>2, BlockKeeps, DecideKeeps, LogKeeps, LoseKeeps, ReportKeeps DEF Moderation!Next
<1>3. QED
  BY <1>1, <1>2

\* A set of at most one element has at most one.
LEMMA AtMostOne ==
  ASSUME NEW S, \A a, b \in S : a = b
  PROVE  Cardinality(S) \in {0, 1} /\ (S = {} => Cardinality(S) = 0)
<1>1. Cardinality({}) = 0
  BY FS_EmptySet
<1>2. CASE S = {}
  BY <1>1, <1>2
<1>3. CASE S # {}
  <2>1. PICK a \in S : S = {a}
    BY <1>3
  <2>2. Cardinality({a}) = 1
    BY FS_Singleton
  <2>3. QED
    BY <1>3, <2>1, <2>2
<1>4. QED
  BY <1>2, <1>3

\* What is fine agrees with the log.
LEMMA ReportAudited ==
  ASSUME ModerationInv, NEW r \in Reports
  PROVE  LET entry == Moderation!Entry(report[r].state, report[r].by, r, None)
             about == {k \in DOMAIN audit : audit[k].subject = r}
         IN  /\ about = Moderation!Logged(entry)
             /\ Cardinality(about) + Cardinality(Moderation!Pending(entry)) <= 1
             /\ report[r].state \in {"upheld", "dismissed"} =>
                  about # {} \/ Moderation!Pending(entry) # {} \/ lost > 0
<1>1. ReportFine(r) /\ Verdict(r).subject = r
  BY DEF ModerationInv, Verdict, Moderation!Entry
<1>2. OnRecord(r) = Moderation!Logged(Verdict(r))
  BY <1>1 DEF ReportFine, OnRecord, Moderation!Logged
<1>3. InHand(r) = Moderation!Pending(Verdict(r))
  BY <1>1 DEF ReportFine, InHand, Moderation!Pending
<1>4. Cardinality(OnRecord(r)) + Cardinality(InHand(r)) <= 1
  <2>1. /\ Cardinality(OnRecord(r)) \in {0, 1} /\ (OnRecord(r) = {} => Cardinality(OnRecord(r)) = 0)
        /\ Cardinality(InHand(r)) \in {0, 1} /\ (InHand(r) = {} => Cardinality(InHand(r)) = 0)
    BY <1>1, AtMostOne DEF ReportFine
  <2>2. QED
    BY <1>1, <2>1 DEF ReportFine
<1>5. Decided(r) => OnRecord(r) # {} \/ InHand(r) # {} \/ lost > 0
  BY <1>1 DEF ReportFine
<1>6. QED
  BY <1>2, <1>3, <1>4, <1>5 DEF OnRecord, Verdict, Decided

LEMMA InvAudited == ModerationInv => Moderation!Audited
<1>1. SUFFICES ASSUME ModerationInv PROVE Moderation!Audited
  OBVIOUS
<1>2. ASSUME NEW b \in block
      PROVE  \/ Moderation!Logged(Moderation!Entry("block", b.by, b.value, b.scope)) # {}
             \/ Moderation!Pending(Moderation!Entry("block", b.by, b.value, b.scope)) # {} \/ lost > 0
  BY <1>1, <1>2 DEF ModerationInv, BlockFine, Moderation!Logged, Moderation!Pending
<1>3. QED
  BY <1>1, <1>2, ReportAudited
    DEF Moderation!Audited, Cardinality, Moderation!Cardinality, IsFiniteSet, Moderation!IsFiniteSet

\* A block changes at the request of whoever may.
LEMMA BlocksKept ==
  ASSUME ModerationInv, [Moderation!Next]_Moderation!vars
  PROVE  Moderation!OnlyTheirs
<1>1. SUFFICES ASSUME NEW b \in (block \ block') \cup (block' \ block)
               PROVE  \E t \in Tabs : act[t] = Moderation!NoAct /\ Moderation!Allowed(act'[t].who, b.scope)
  BY DEF Moderation!OnlyTheirs
<1>2. PICK t \in Tabs, who \in Insiders, scope \in Insiders \cup {None}, value \in Values :
        Moderation!Block(t, who, scope, value) \/ Moderation!Unblock(t, who, scope, value)
  BY <1>1 DEF Moderation!Next, Moderation!vars, Moderation!Report, Moderation!Decide, Moderation!Log, Moderation!Lose
<1>3. b.scope = scope /\ Moderation!Allowed(who, scope)
  BY <1>1, <1>2 DEF Moderation!Block, Moderation!Unblock, Moderation!Same
<1>4. act[t] = Moderation!NoAct /\ act'[t].who = who
  BY <1>2 DEF Moderation!Block, Moderation!Unblock, Moderation!Act, Moderation!Entry, ModerationInv, ModerationType
<1>5. QED
  BY <1>3, <1>4

-----------------------------------------------------------------------------
(* Mentions *)

Stage == {"idle", "read", "fetch", "write", "record", "discover", "post", "sent", "ledger", "settle"}
Result == {"ok", "failed", "rejected"}
Work == [m : Incoming \cup Outgoing \cup {NoMention}, attempts : Nat, pc : Stage, saw : Mentions!Pages, outcome : Result]
Job == [live : BOOLEAN, attempts : Nat]
Sending == {"none", "pending", "approved", "failed"}

RowsFine ==
  /\ row \in [Incoming \cup Outgoing -> Mentions!States] /\ \A m \in Outgoing : row[m] \in Sending
  /\ page \in [Incoming -> Mentions!Pages] /\ req \in [Requests -> Incoming \cup {NoMention}]
  /\ listed \subseteq Incoming
  /\ journey \in [Outgoing -> {"none", "gave up"} \cup Result]
  /\ decision \in [Incoming -> {"none", "approved", "rejected"}]

QueueFine ==
  /\ job \in [Incoming \cup Outgoing -> Job] /\ dead \in [Incoming \cup Outgoing -> Nat] /\ cuts \in Nat
  /\ \A m \in Incoming \cup Outgoing : ~job[m].live => job[m].attempts = 0

\* The worker's job is live; nothing else changes it meanwhile.
HeldFine ==
  /\ held \in Work /\ (held.m = NoMention => held = Mentions!Resting)
  /\ held.m \in Incoming \cup Outgoing => job[held.m].live /\ held.attempts = job[held.m].attempts
  /\ held.m \in Incoming => held.pc \in {"read", "fetch", "write", "settle"}
  /\ held.m \in Outgoing => held.pc \in {"record", "discover", "post", "sent", "ledger", "settle"}

\* Only a crash leaves a job with an attempt it did not settle.
AttemptsFine ==
  \A m \in Incoming \cup Outgoing :
    /\ job[m].attempts <= MaxAttempts + cuts
    /\ job[m].live /\ held.m # m => job[m].attempts < MaxAttempts + cuts

\* A mention whose job is being done with waits for nothing, or its handler is
\* about to queue it, or lost it.
Answered(m) == row[m] # "pending" \/ m \in lapsed \/ \E r \in Requests : req[r] = m
ClosedFine == held.m \in Incoming /\ held.pc = "settle" /\ held.outcome # "failed" => Answered(held.m)

SeenFine ==
  /\ listed \subseteq found
  /\ \A m \in Incoming : row[m] \in {"verified", "approved"} => m \in found

\* A decision that is taken during a verification is raced.
RacedFine ==
  /\ \A m \in Incoming : decision[m] # "none" /\ m \notin raced => row[m] = decision[m]
  /\ held.m \in Incoming /\ held.pc \in {"fetch", "write"} /\ decision[held.m] # "none" => held.m \in raced

\* What the row and the ledger say of an attempt that ended with an outcome.
Wrote(m, outcome) == row[m] = (IF outcome = "ok" THEN "approved" ELSE "failed")
Entered(m, outcome, final) == journey[m] = (IF outcome = "failed" /\ final THEN "gave up" ELSE outcome)

SentFine ==
  held.m \in Outgoing \ unwritten =>
    /\ held.pc \in {"ledger", "settle"} => Wrote(held.m, held.outcome)
    /\ held.pc = "settle" => Entered(held.m, held.outcome, held.attempts >= MaxAttempts)

MentionsInv ==
  /\ RowsFine /\ QueueFine /\ HeldFine /\ AttemptsFine
  /\ Mentions!Unforgotten /\ ClosedFine /\ SeenFine /\ RacedFine /\ SentFine /\ Mentions!JourneyAgrees

LEMMA RestingWork ==
  Mentions!Resting \in Work /\ Mentions!Resting.m = NoMention /\ NoMention \notin Incoming \cup Outgoing
BY MentionsAssumption DEF Mentions!Resting, Work, Stage, Result, Mentions!Pages

LEMMA MentionsInit ==
  ASSUME Mentions!Init
  PROVE  MentionsInv
<1>1. RowsFine
  BY MentionsAssumption DEF Mentions!Init, RowsFine, Mentions!Mentions, Mentions!States, Sending, Result
<1>2. QueueFine
  BY DEF Mentions!Init, QueueFine, Job, Mentions!NoJob, Mentions!Mentions
<1>3. HeldFine /\ held.m = NoMention
  BY RestingWork DEF Mentions!Init, HeldFine
<1>4. AttemptsFine
  BY MentionsAssumption DEF Mentions!Init, AttemptsFine, Mentions!NoJob, Mentions!Mentions
<1>5. Mentions!Unforgotten /\ SeenFine /\ RacedFine /\ Mentions!JourneyAgrees
  BY RestingWork DEF Mentions!Init, Mentions!Unforgotten, SeenFine, RacedFine, Mentions!JourneyAgrees, Mentions!Mentions
<1>6. ClosedFine /\ SentFine
  BY <1>3, RestingWork DEF ClosedFine, SentFine
<1>7. QED
  BY <1>1, <1>2, <1>3, <1>4, <1>5, <1>6 DEF MentionsInv

\* The endpoint records a mention, which waits from then on.
LEMMA ReceiveKeeps ==
  ASSUME MentionsInv, NEW r \in Requests, NEW m \in Incoming, Mentions!Receive(r, m)
  PROVE  MentionsInv'
<1>1. /\ row' = [row EXCEPT ![m] = "pending"] /\ req' = [req EXCEPT ![r] = m]
      /\ decision' = [decision EXCEPT ![m] = "none"] /\ raced' = raced \ {m} /\ lapsed' = lapsed \ {m}
      /\ req[r] = NoMention
      /\ UNCHANGED <<job, dead, page, held, listed, journey, found, unwritten, cuts>>
  BY DEF Mentions!Receive, Mentions!queue, Mentions!world
<1>2. /\ row' \in [Incoming \cup Outgoing -> Mentions!States] /\ row'[m] = "pending"
      /\ \A n \in Incoming \cup Outgoing : n # m => row'[n] = row[n]
  BY <1>1 DEF MentionsInv, RowsFine, Mentions!States
<1>3. /\ req' \in [Requests -> Incoming \cup {NoMention}] /\ req'[r] = m
      /\ \A s \in Requests : s # r => req'[s] = req[s]
  BY <1>1 DEF MentionsInv, RowsFine
<1>4. /\ decision' \in [Incoming -> {"none", "approved", "rejected"}] /\ decision'[m] = "none"
      /\ \A n \in Incoming : n # m => decision'[n] = decision[n]
  BY <1>1 DEF MentionsInv, RowsFine
<1>5. RowsFine'
  <2>1. \A n \in Outgoing : row'[n] \in Sending
    BY <1>2, MentionsAssumption DEF MentionsInv, RowsFine
  <2>2. /\ page \in [Incoming -> Mentions!Pages] /\ listed \subseteq Incoming
        /\ journey \in [Outgoing -> {"none", "gave up"} \cup Result]
    BY DEF MentionsInv, RowsFine
  <2>3. QED
    BY <1>1, <1>2, <1>3, <1>4, <2>1, <2>2 DEF RowsFine
<1>6. QueueFine' /\ HeldFine' /\ AttemptsFine'
  BY <1>1 DEF MentionsInv, QueueFine, HeldFine, AttemptsFine
<1>7. Mentions!Unforgotten'
  BY <1>1, <1>2, <1>3, RestingWork DEF MentionsInv, Mentions!Unforgotten
<1>8. ClosedFine'
  BY <1>1, <1>2, <1>3, RestingWork DEF MentionsInv, ClosedFine, Answered
<1>9. SeenFine' /\ RacedFine'
  BY <1>1, <1>2, <1>4 DEF MentionsInv, SeenFine, RacedFine
<1>10. SentFine' /\ Mentions!JourneyAgrees'
  BY <1>1, <1>2, MentionsAssumption DEF MentionsInv, SentFine, Wrote, Entered, Mentions!JourneyAgrees
<1>11. QED
  BY <1>5, <1>6, <1>7, <1>8, <1>9, <1>10 DEF MentionsInv

LEMMA QueueVerifyKeeps ==
  ASSUME MentionsInv, NEW r \in Requests, Mentions!QueueVerify(r)
  PROVE  MentionsInv'
<1> DEFINE m == req[r]
<1>1. /\ m # NoMention /\ req' = [req EXCEPT ![r] = NoMention]
      /\ job' = IF job[m].live THEN job ELSE [job EXCEPT ![m] = [live |-> TRUE, attempts |-> 0]]
      /\ lapsed' = IF job[m].live /\ held.m = m /\ held.pc = "settle" THEN lapsed \cup {m} ELSE lapsed
      /\ UNCHANGED <<row, dead, page, held, listed, decision, raced, journey, found, unwritten, cuts>>
  BY DEF Mentions!QueueVerify, Mentions!world, Mentions!moderators
<1>2. m \in Incoming
  BY <1>1 DEF MentionsInv, RowsFine
<1> HIDE DEF m
<1>3. /\ job' \in [Incoming \cup Outgoing -> Job] /\ job'[m].live
      /\ job'[m] = job[m] \/ (~job[m].live /\ job'[m].attempts = 0)
      /\ \A n \in Incoming \cup Outgoing : n # m => job'[n] = job[n]
  BY <1>1, <1>2 DEF MentionsInv, QueueFine, Job
<1>4. /\ req' \in [Requests -> Incoming \cup {NoMention}] /\ req'[r] = NoMention /\ req[r] = m
      /\ \A s \in Requests : s # r => req'[s] = req[s]
  BY <1>1 DEF MentionsInv, RowsFine, m
<1>5. RowsFine' /\ QueueFine'
  BY <1>1, <1>3, <1>4 DEF MentionsInv, RowsFine, QueueFine
<1>6. HeldFine'
  BY <1>1, <1>2, <1>3 DEF MentionsInv, HeldFine
<1>7. AttemptsFine'
  BY <1>1, <1>2, <1>3, MentionsAssumption DEF MentionsInv, AttemptsFine, QueueFine
<1>8. Mentions!Unforgotten'
  BY <1>1, <1>2, <1>3, <1>4 DEF MentionsInv, Mentions!Unforgotten
<1>9. ClosedFine'
  <2>1. SUFFICES ASSUME held.m \in Incoming, held.pc = "settle", held.outcome # "failed" PROVE Answered(held.m)'
    BY <1>1 DEF ClosedFine
  <2>2. Answered(held.m)
    BY <2>1 DEF MentionsInv, ClosedFine
  <2>3. CASE held.m = m
    BY <1>1, <2>1, <2>3 DEF MentionsInv, HeldFine, Answered
  <2>4. CASE held.m # m
    BY <1>1, <1>4, <2>2, <2>4 DEF Answered
  <2>5. QED
    BY <2>3, <2>4
<1>10. SeenFine' /\ RacedFine' /\ SentFine'
  BY <1>1 DEF MentionsInv, SeenFine, RacedFine, SentFine, Wrote, Entered
<1>11. Mentions!JourneyAgrees'
  BY <1>1, <1>2, <1>3, MentionsAssumption DEF MentionsInv, Mentions!JourneyAgrees
<1>12. QED
  BY <1>5, <1>6, <1>7, <1>8, <1>9, <1>10, <1>11 DEF MentionsInv

LEMMA HangsUp ==
  ASSUME MentionsInv, NEW r \in Requests, Mentions!Fail(r)
  PROVE  MentionsInv'
<1>1. /\ req[r] # NoMention /\ req' = [req EXCEPT ![r] = NoMention] /\ lapsed' = lapsed \cup {req[r]}
      /\ cuts' = cuts + 1 /\ UNCHANGED <<row, job, dead, page, held, listed, decision, raced, journey, found, unwritten>>
  BY DEF Mentions!Fail, Mentions!world, Mentions!moderators, Mentions!queue
<1>2. /\ req' \in [Requests -> Incoming \cup {NoMention}] /\ req'[r] = NoMention
      /\ \A s \in Requests : s # r => req'[s] = req[s]
  BY <1>1 DEF MentionsInv, RowsFine
<1>3. RowsFine' /\ HeldFine'
  BY <1>1, <1>2 DEF MentionsInv, RowsFine, HeldFine
<1>4. QueueFine'
  BY <1>1 DEF MentionsInv, QueueFine
<1>5. AttemptsFine'
  <2>1. \A n \in Incoming \cup Outgoing : job[n].attempts \in Nat
    BY DEF MentionsInv, QueueFine, Job
  <2>2. QED
    BY <1>1, <2>1, MentionsAssumption DEF MentionsInv, AttemptsFine, QueueFine
<1>6. Mentions!Unforgotten' /\ ClosedFine'
  BY <1>1, <1>2 DEF MentionsInv, Mentions!Unforgotten, ClosedFine, Answered
<1>7. SeenFine' /\ RacedFine' /\ SentFine' /\ Mentions!JourneyAgrees'
  BY <1>1 DEF MentionsInv, SeenFine, RacedFine, SentFine, Wrote, Entered, Mentions!JourneyAgrees
<1>8. QED
  BY <1>3, <1>4, <1>5, <1>6, <1>7 DEF MentionsInv

\* A mention that has no live job gets one.
LEMMA QueueKeeps ==
  ASSUME MentionsInv, NEW m \in Incoming \cup Outgoing,
         (m \in Outgoing /\ Mentions!QueueSend(m)) \/ Mentions!Retry(m)
  PROVE  MentionsInv'
<1>1. /\ ~job[m].live /\ job' = [job EXCEPT ![m] = [live |-> TRUE, attempts |-> 0]]
      /\ UNCHANGED <<row, page, req, held, listed, decision, raced, journey, found, lapsed, unwritten, cuts>>
  BY DEF Mentions!QueueSend, Mentions!Retry, Mentions!world, Mentions!endpoint, Mentions!moderators
<1>2. /\ dead' \in [Incoming \cup Outgoing -> Nat]
      /\ \A n \in Incoming \cup Outgoing : n # m => dead'[n] = dead[n]
  <2>1. CASE UNCHANGED dead
    BY <2>1 DEF MentionsInv, QueueFine
  <2>2. CASE dead[m] > 0 /\ dead' = [dead EXCEPT ![m] = @ - 1]
    BY <2>2 DEF MentionsInv, QueueFine
  <2>3. QED
    BY <2>1, <2>2 DEF Mentions!QueueSend, Mentions!Retry
<1>3. /\ job' \in [Incoming \cup Outgoing -> Job] /\ job'[m].live /\ job'[m].attempts = 0
      /\ \A n \in Incoming \cup Outgoing : n # m => job'[n] = job[n]
  BY <1>1 DEF MentionsInv, QueueFine, Job
<1>4. RowsFine' /\ QueueFine'
  BY <1>1, <1>2, <1>3 DEF MentionsInv, RowsFine, QueueFine
<1>5. HeldFine'
  BY <1>1, <1>3 DEF MentionsInv, HeldFine
<1>6. AttemptsFine'
  BY <1>1, <1>3, MentionsAssumption DEF MentionsInv, AttemptsFine, QueueFine
<1>7. Mentions!Unforgotten'
  BY <1>1, <1>2, <1>3 DEF MentionsInv, Mentions!Unforgotten
<1>8. ClosedFine' /\ SeenFine' /\ RacedFine' /\ SentFine'
  BY <1>1 DEF MentionsInv, ClosedFine, Answered, SeenFine, RacedFine, SentFine, Wrote, Entered
<1>9. Mentions!JourneyAgrees'
  BY <1>1, <1>3 DEF MentionsInv, Mentions!JourneyAgrees
<1>10. QED
  BY <1>4, <1>5, <1>6, <1>7, <1>8, <1>9 DEF MentionsInv

LEMMA ClaimsJob ==
  ASSUME MentionsInv, NEW m \in Incoming \cup Outgoing, Mentions!Claim(m)
  PROVE  MentionsInv'
<1> DEFINE n == job[m].attempts + 1
           pc == IF m \in Incoming THEN "read" ELSE "record"
           v == [Mentions!Resting EXCEPT !.m = m]
           w == [v EXCEPT !.attempts = n]
           u == [w EXCEPT !.pc = pc]
<1>1. /\ held = Mentions!Resting /\ job[m].live /\ job' = [job EXCEPT ![m].attempts = @ + 1] /\ held' = u
      /\ UNCHANGED <<row, dead, page, req, listed, decision, raced, lapsed, journey, found, unwritten, cuts>>
  BY DEF Mentions!Claim, Mentions!worker, Mentions!others, Mentions!world, Mentions!endpoint, Mentions!moderators
<1>2. n \in Nat /\ pc \in Stage /\ job[m].attempts \in Nat
  BY DEF MentionsInv, QueueFine, Job, Stage
<1>3. v \in Work /\ v.m = m
  BY RestingWork DEF Work
<1> HIDE DEF v
<1>4. w \in Work /\ w.m = m /\ w.attempts = n
  BY <1>2, <1>3 DEF Work
<1> HIDE DEF w
<1>5. u \in Work /\ u.m = m /\ u.attempts = n /\ u.pc = pc
  BY <1>2, <1>4 DEF Work
<1> HIDE DEF u
<1>6. /\ job' \in [Incoming \cup Outgoing -> Job] /\ job'[m].live /\ job'[m].attempts = n
      /\ \A k \in Incoming \cup Outgoing : k # m => job'[k] = job[k]
  BY <1>1, <1>2 DEF MentionsInv, QueueFine, Job
<1>7. RowsFine' /\ QueueFine'
  BY <1>1, <1>6 DEF MentionsInv, RowsFine, QueueFine
<1>8. HeldFine'
  BY <1>1, <1>5, <1>6, RestingWork, MentionsAssumption DEF MentionsInv, HeldFine
<1>9. AttemptsFine'
  <2>1. job[m].attempts < MaxAttempts + cuts
    BY <1>1, RestingWork DEF MentionsInv, AttemptsFine
  <2>2. \A k \in Incoming \cup Outgoing : k # m /\ job[k].live => job[k].attempts < MaxAttempts + cuts
    BY <1>1, RestingWork DEF MentionsInv, AttemptsFine
  <2>3. n <= MaxAttempts + cuts
    BY <1>2, <2>1, MentionsAssumption DEF MentionsInv, QueueFine
  <2>4. QED
    BY <1>1, <1>5, <1>6, <2>2, <2>3 DEF MentionsInv, AttemptsFine
<1>10. Mentions!Unforgotten' /\ Mentions!JourneyAgrees'
  BY <1>1, <1>6 DEF MentionsInv, Mentions!Unforgotten, Mentions!JourneyAgrees
<1>11. ClosedFine' /\ SeenFine' /\ RacedFine' /\ SentFine'
  BY <1>1, <1>5 DEF MentionsInv, ClosedFine, SeenFine, RacedFine, SentFine
<1>12. QED
  BY <1>7, <1>8, <1>9, <1>10, <1>11 DEF MentionsInv

\* How the worker's copy of its job moves on.
Onward(w, v, pc) == v \in Work /\ v.pc = pc /\ v.m = w.m /\ v.attempts = w.attempts

LEMMA WorkMoves ==
  ASSUME NEW w \in Work, NEW pc \in Stage
  PROVE  Onward(w, [w EXCEPT !.pc = pc], pc) /\ [w EXCEPT !.pc = pc].outcome = w.outcome
BY DEF Onward, Work

LEMMA WorkSees ==
  ASSUME NEW w \in Work, NEW pc \in Stage, NEW saw \in Mentions!Pages
  PROVE  Onward(w, [w EXCEPT !.pc = pc, !.saw = saw], pc)
<1> DEFINE v == [w EXCEPT !.pc = pc]
<1>1. Onward(w, v, pc)
  BY WorkMoves
<1> HIDE DEF v
<1>2. Onward(w, [v EXCEPT !.saw = saw], pc)
  BY <1>1 DEF Onward, Work
<1>3. QED
  BY <1>2 DEF v

LEMMA WorkEnds ==
  ASSUME NEW w \in Work, NEW pc \in Stage, NEW outcome \in Result
  PROVE  /\ Onward(w, [w EXCEPT !.pc = pc, !.outcome = outcome], pc)
         /\ [w EXCEPT !.pc = pc, !.outcome = outcome].outcome = outcome
<1> DEFINE v == [w EXCEPT !.pc = pc]
<1>1. Onward(w, v, pc)
  BY WorkMoves
<1> HIDE DEF v
<1>2. Onward(w, [v EXCEPT !.outcome = outcome], pc) /\ [v EXCEPT !.outcome = outcome].outcome = outcome
  BY <1>1 DEF Onward, Work
<1>3. QED
  BY <1>2 DEF v

\* A statement that fails costs a job no attempt.
LEMMA Slips ==
  ASSUME MentionsInv, UNCHANGED <<job, dead>>, held'.m = held.m, cuts' = cuts \/ Mentions!Slip
  PROVE  QueueFine' /\ AttemptsFine'
<1>1. cuts \in Nat /\ \A n \in Incoming \cup Outgoing : job[n].attempts \in Nat
  BY DEF MentionsInv, QueueFine, Job
<1>2. cuts' \in Nat /\ cuts <= cuts'
  BY <1>1 DEF Mentions!Slip
<1>3. QueueFine'
  BY <1>2 DEF MentionsInv, QueueFine
<1>4. AttemptsFine'
  BY <1>1, <1>2, MentionsAssumption DEF MentionsInv, AttemptsFine
<1>5. QED
  BY <1>3, <1>4

LEMMA HasWork ==
  ASSUME MentionsInv, held.pc # "idle"
  PROVE  held \in Work /\ held.m \in Incoming \cup Outgoing
BY DEF MentionsInv, HeldFine, Mentions!Resting, Work

\* The steps that change the worker's copy only.
LEMMA LooksKeep ==
  ASSUME MentionsInv, Mentions!ReadMention \/ Mentions!Fetch \/ Mentions!Discover \/ Mentions!Post
  PROVE  MentionsInv'
<1>1. UNCHANGED <<row, job, dead, page, req, listed, decision, raced, lapsed, journey, found, unwritten, cuts>>
  BY DEF Mentions!ReadMention, Mentions!Fetch, Mentions!Discover, Mentions!Post, Mentions!queue,
         Mentions!worker, Mentions!others, Mentions!world, Mentions!endpoint, Mentions!moderators
<1>2. held.pc \in {"read", "fetch", "discover", "post"}
  BY DEF Mentions!ReadMention, Mentions!Fetch, Mentions!Discover, Mentions!Post
<1>3. PICK pc \in Stage :
        /\ Onward(held, held', pc)
        /\ held.pc \in {"read", "fetch"} => pc \in {"fetch", "write", "settle"}
        /\ held.pc \in {"discover", "post"} => pc \in {"post", "sent"}
        /\ held.pc = "read" /\ pc = "settle" => Mentions!Settled(held.m)
        /\ held.pc = "read" /\ pc # "settle" => ~Mentions!Settled(held.m)
        /\ held.pc = "fetch" => pc = "write"
  <2>1. held \in Work /\ held.m \in Incoming \cup Outgoing
    BY <1>2, HasWork
  <2>2. CASE Mentions!ReadMention
    <3>1. PICK pc \in {"settle", "fetch"} :
            held' = [held EXCEPT !.pc = pc] /\ (pc = "settle" <=> Mentions!Settled(held.m))
      BY <2>2 DEF Mentions!ReadMention, Mentions!Go
    <3>2. pc \in Stage /\ held.pc = "read"
      BY <2>2, <3>1 DEF Stage, Mentions!ReadMention
    <3>3. QED
      BY <2>1, <3>1, <3>2, WorkMoves
  <2>3. CASE Mentions!Fetch
    <3>1. held.pc = "fetch" /\ held' = [held EXCEPT !.pc = "write", !.saw = page[held.m]]
      BY <2>3 DEF Mentions!Fetch
    <3>2. held.m \in Incoming
      BY <2>1, <3>1 DEF MentionsInv, HeldFine
    <3>3. page[held.m] \in Mentions!Pages /\ "write" \in Stage
      BY <3>2 DEF MentionsInv, RowsFine, Stage
    <3>4. Onward(held, held', "write")
      BY <2>1, <3>1, <3>3, WorkSees
    <3>5. QED
      BY <3>1, <3>3, <3>4
  <2>4. CASE Mentions!Discover \/ Mentions!Post
    <3>1. PICK pc \in {"post", "sent"}, outcome \in Result : held' = [held EXCEPT !.pc = pc, !.outcome = outcome]
      BY <2>4 DEF Mentions!Discover, Mentions!Post, Result
    <3>2. pc \in Stage /\ held.pc \in {"discover", "post"}
      BY <2>4, <3>1 DEF Stage, Mentions!Discover, Mentions!Post
    <3>3. Onward(held, held', pc)
      BY <2>1, <3>1, <3>2, WorkEnds
    <3>4. QED
      BY <3>1, <3>2, <3>3
  <2>5. QED
    BY <2>2, <2>3, <2>4
<1>4. held.m \in Incoming \cup Outgoing
  BY <1>2, HasWork
<1>5. RowsFine' /\ QueueFine' /\ Mentions!Unforgotten' /\ SeenFine' /\ Mentions!JourneyAgrees'
  BY <1>1 DEF MentionsInv, RowsFine, QueueFine, Mentions!Unforgotten, SeenFine, Mentions!JourneyAgrees
<1>6. HeldFine'
  BY <1>1, <1>2, <1>3, <1>4, RestingWork, MentionsAssumption DEF MentionsInv, HeldFine, Onward
<1>7. AttemptsFine'
  BY <1>1, <1>3 DEF MentionsInv, AttemptsFine, Onward
<1>8. ClosedFine'
  BY <1>1, <1>2, <1>3 DEF ClosedFine, Answered, Onward, Mentions!Settled
<1>9. SentFine'
  BY <1>2, <1>3, <1>4, MentionsAssumption DEF MentionsInv, HeldFine, SentFine, Onward
<1>10. RacedFine'
  <2>1. SUFFICES ASSUME held.m \in Incoming, pc \in {"fetch", "write"}, decision[held.m] # "none"
                 PROVE  held.m \in raced
    BY <1>1, <1>3 DEF MentionsInv, RacedFine, Onward
  <2>2. CASE held.pc = "fetch"
    BY <2>1, <2>2 DEF MentionsInv, RacedFine
  <2>3. CASE held.pc # "fetch"
    <3>1. ~Mentions!Settled(held.m)
      BY <1>2, <1>3, <2>1, <2>3
    <3>2. decision[held.m] \in {"approved", "rejected"}
      BY <2>1 DEF MentionsInv, RowsFine
    <3>3. QED
      BY <2>1, <3>1, <3>2 DEF MentionsInv, RacedFine, Mentions!Settled
  <2>4. QED
    BY <2>2, <2>3
<1>11. QED
  BY <1>5, <1>6, <1>7, <1>8, <1>9, <1>10 DEF MentionsInv

\* A verification is written down, or the statement fails.
LEMMA WriteKeeps ==
  ASSUME MentionsInv, Mentions!Write
  PROVE  MentionsInv'
<1> DEFINE m == held.m
<1>1. /\ held.pc = "write" /\ UNCHANGED <<job, dead, page, req, listed, decision, raced, lapsed, journey, unwritten>>
      /\ cuts' = cuts \/ Mentions!Slip
  BY DEF Mentions!Write, Mentions!queue, Mentions!others, Mentions!world, Mentions!endpoint, Mentions!moderators
<1>2. held \in Work /\ m \in Incoming
  BY <1>1, HasWork DEF MentionsInv, HeldFine
<1>3. PICK outcome \in Result :
        /\ held' = [held EXCEPT !.pc = "settle", !.outcome = outcome]
        /\ \/ row' = row /\ found' = found /\ outcome = "failed"
           \/ /\ row' = [row EXCEPT ![m] = CASE held.saw = "links" -> "verified"
                                             [] held.saw = "gone"  -> "deleted"
                                             [] OTHER              -> "failed"]
              /\ found' = IF held.saw = "links" THEN found \cup {m} ELSE found
  BY DEF Mentions!Write, Result
<1>4. Onward(held, held', "settle") /\ held'.outcome = outcome
  <2>1. "settle" \in Stage
    BY DEF Stage
  <2>2. PICK new : new = [held EXCEPT !.pc = "settle", !.outcome = outcome]
    OBVIOUS
  <2>3. held' = new
    BY <1>3, <2>2
  <2>4. Onward(held, [held EXCEPT !.pc = "settle", !.outcome = outcome], "settle")
        /\ [held EXCEPT !.pc = "settle", !.outcome = outcome].outcome = outcome
    BY <1>2, <2>1, WorkEnds
  <2>5. QED
    BY <2>2, <2>3, <2>4
<1> HIDE DEF m
<1>5. /\ row' \in [Incoming \cup Outgoing -> Mentions!States]
      /\ \/ row'[m] = row[m] /\ outcome = "failed"
         \/ row'[m] \in {"verified", "deleted", "failed"} /\ (row'[m] = "verified" => m \in found')
      /\ found \subseteq found'
      /\ \A n \in Incoming \cup Outgoing : n # m => row'[n] = row[n]
  <2>1. CASE row' = row /\ found' = found /\ outcome = "failed"
    BY <2>1 DEF MentionsInv, RowsFine
  <2>2. CASE ~(row' = row /\ found' = found /\ outcome = "failed")
    BY <1>2, <1>3, <2>2 DEF MentionsInv, RowsFine, Mentions!States
  <2>3. QED
    BY <2>1, <2>2
<1>6. RowsFine'
  <2>1. \A n \in Outgoing : row'[n] \in Sending
    BY <1>2, <1>5, MentionsAssumption DEF MentionsInv, RowsFine
  <2>2. QED
    BY <1>1, <1>5, <2>1 DEF MentionsInv, RowsFine
<1>7. QueueFine' /\ AttemptsFine'
  BY <1>1, <1>4, Slips DEF Onward
<1>8. HeldFine'
  BY <1>1, <1>2, <1>4, RestingWork, MentionsAssumption DEF MentionsInv, HeldFine, Onward, m
<1>9. Mentions!Unforgotten'
  BY <1>1, <1>2, <1>5 DEF MentionsInv, Mentions!Unforgotten
<1>10. SeenFine'
  BY <1>1, <1>2, <1>5 DEF MentionsInv, SeenFine
<1>11. ClosedFine'
  BY <1>4, <1>5 DEF ClosedFine, Answered, Onward, m
<1>12. RacedFine'
  <2>1. decision[m] # "none" => m \in raced
    BY <1>1, <1>2 DEF MentionsInv, RacedFine, m
  <2>2. QED
    BY <1>1, <1>4, <1>5, <2>1 DEF MentionsInv, RacedFine, Onward
<1>13. SentFine' /\ Mentions!JourneyAgrees'
  BY <1>1, <1>2, <1>4, <1>5, MentionsAssumption DEF MentionsInv, SentFine, Mentions!JourneyAgrees, Onward, m
<1>14. QED
  BY <1>6, <1>7, <1>8, <1>9, <1>10, <1>11, <1>12, <1>13 DEF MentionsInv

\* What the two statements about the row of a mention that is being sent do.
LEMMA SendingDoes ==
  ASSUME MentionsInv, Mentions!RecordSend \/ Mentions!Sent
  PROVE  /\ UNCHANGED <<job, dead, page, req, listed, decision, raced, lapsed, journey, found>>
         /\ cuts' = cuts \/ Mentions!Slip
         /\ held \in Work /\ held.m \in Outgoing /\ job[held.m].live
         /\ \E state \in {"pending", "approved", "failed"} : row' = row \/ row' = [row EXCEPT ![held.m] = state]
         /\ \E pc \in {"discover", "ledger"} :
              /\ Onward(held, held', pc)
              /\ \/ unwritten' = unwritten \ {held.m} /\ pc = "discover"
                 \/ unwritten' = unwritten \cup {held.m}
                 \/ /\ unwritten' = unwritten /\ pc = "ledger"
                    /\ row' = [row EXCEPT ![held.m] = IF held'.outcome = "ok" THEN "approved" ELSE "failed"]
<1>1. /\ held.pc \in {"record", "sent"}
      /\ cuts' = cuts \/ Mentions!Slip
      /\ UNCHANGED <<job, dead, page, req, listed, decision, raced, lapsed, journey, found>>
  BY DEF Mentions!RecordSend, Mentions!Sent, Mentions!Unwritten, Mentions!queue, Mentions!others, Mentions!world,
         Mentions!endpoint, Mentions!moderators
<1>2. held \in Work /\ held.m \in Outgoing /\ job[held.m].live
  BY <1>1, HasWork DEF MentionsInv, HeldFine
<1>3. "discover" \in Stage /\ "ledger" \in Stage /\ held.outcome \in Result /\ "failed" \in Result
  BY <1>2 DEF Stage, Result, Work
<1>4. CASE Mentions!RecordSend
  <2>1. CASE held' = [held EXCEPT !.pc = "discover"] /\ unwritten' = unwritten \ {held.m} /\ row' = Mentions!Pending
    BY <1>1, <1>2, <1>3, <2>1, WorkMoves DEF Mentions!Pending
  <2>2. CASE /\ held' = [held EXCEPT !.pc = "ledger", !.outcome = "failed"] /\ unwritten' = unwritten \cup {held.m}
             /\ row' \in {row, Mentions!Pending}
    BY <1>1, <1>2, <1>3, <2>2, WorkEnds DEF Mentions!Pending
  <2>3. QED
    BY <1>4, <2>1, <2>2 DEF Mentions!RecordSend, Mentions!Go
<1>5. CASE Mentions!Sent
  <2>1. CASE /\ held' = [held EXCEPT !.pc = "ledger"] /\ unwritten' = unwritten
             /\ row' = [row EXCEPT ![held.m] = IF held.outcome = "ok" THEN "approved" ELSE "failed"]
    <3>1. Onward(held, held', "ledger") /\ held'.outcome = held.outcome
      BY <1>2, <1>3, <2>1, WorkMoves
    <3>2. \E state \in {"pending", "approved", "failed"} : row' = [row EXCEPT ![held.m] = state]
      BY <2>1
    <3>3. QED
      BY <1>1, <1>2, <2>1, <3>1, <3>2
  <2>2. CASE Mentions!Unwritten
    <3>1. PICK outcome : outcome = IF held.outcome = "ok" THEN "failed" ELSE held.outcome
      OBVIOUS
    <3>2. /\ outcome \in Result /\ held' = [held EXCEPT !.pc = "ledger", !.outcome = outcome]
          /\ unwritten' = unwritten \cup {held.m} /\ row' = row
      BY <1>2, <1>3, <2>2, <3>1 DEF Mentions!Unwritten
    <3>3. Onward(held, held', "ledger")
      BY <1>2, <1>3, <3>2, WorkEnds
    <3>4. QED
      BY <1>1, <1>2, <3>2, <3>3
  <2>3. QED
    BY <1>5, <2>1, <2>2 DEF Mentions!Sent, Mentions!Go
<1>6. QED
  BY <1>4, <1>5

\* The row of a mention that is being sent is written, or it is not, and the
\* attempt counts as one that was not written down.
LEMMA SendingKeeps ==
  ASSUME MentionsInv, Mentions!RecordSend \/ Mentions!Sent
  PROVE  MentionsInv'
<1> DEFINE m == held.m
<1>1. /\ UNCHANGED <<job, dead, page, req, listed, decision, raced, lapsed, journey, found>>
      /\ cuts' = cuts \/ Mentions!Slip
      /\ held \in Work /\ m \in Outgoing /\ job[m].live
      /\ \E state \in {"pending", "approved", "failed"} : row' = row \/ row' = [row EXCEPT ![m] = state]
  BY SendingDoes
<1>2. PICK pc \in {"discover", "ledger"} :
        /\ Onward(held, held', pc)
        /\ \/ unwritten' = unwritten \ {m} /\ pc = "discover"
           \/ unwritten' = unwritten \cup {m}
           \/ /\ unwritten' = unwritten /\ pc = "ledger"
              /\ row' = [row EXCEPT ![m] = IF held'.outcome = "ok" THEN "approved" ELSE "failed"]
  BY SendingDoes
<1>3. held'.m = m /\ held'.pc = pc
  BY <1>2 DEF Onward
<1> HIDE DEF m
<1>4. /\ row' \in [Incoming \cup Outgoing -> Mentions!States] /\ row'[m] \in Sending
      /\ \A n \in Incoming \cup Outgoing : n # m => row'[n] = row[n]
  <2>1. row \in [Incoming \cup Outgoing -> Mentions!States] /\ row[m] \in Sending
    BY <1>1 DEF MentionsInv, RowsFine
  <2>2. CASE row' = row
    BY <2>1, <2>2
  <2>3. CASE row' # row
    BY <1>1, <2>1, <2>3 DEF Mentions!States, Sending
  <2>4. QED
    BY <2>2, <2>3
<1>5. \A n \in Incoming : row'[n] = row[n]
  BY <1>1, <1>4, MentionsAssumption
<1>6. RowsFine'
  BY <1>1, <1>4, <1>5 DEF MentionsInv, RowsFine
<1>7. QueueFine' /\ AttemptsFine'
  BY <1>1, <1>3, Slips DEF m
<1>8. HeldFine'
  BY <1>1, <1>2, RestingWork, MentionsAssumption DEF MentionsInv, HeldFine, Onward, m
<1>9. Mentions!Unforgotten' /\ SeenFine'
  BY <1>1, <1>5 DEF MentionsInv, Mentions!Unforgotten, SeenFine
<1>10. ClosedFine' /\ RacedFine'
  BY <1>1, <1>3, <1>5, MentionsAssumption DEF MentionsInv, ClosedFine, RacedFine
<1>11. m \notin unwritten' /\ pc = "ledger" => row'[m] = (IF held'.outcome = "ok" THEN "approved" ELSE "failed")
  BY <1>1, <1>2 DEF MentionsInv, RowsFine
<1>12. SentFine'
  BY <1>3, <1>11 DEF SentFine, Wrote
<1>13. Mentions!JourneyAgrees'
  <2>1. \A n \in Outgoing : n # m /\ n \notin unwritten' => n \notin unwritten /\ row'[n] = row[n]
    BY <1>2, <1>4
  <2>2. QED
    BY <1>1, <2>1 DEF MentionsInv, Mentions!JourneyAgrees
<1>14. QED
  BY <1>6, <1>7, <1>8, <1>9, <1>10, <1>12, <1>13 DEF MentionsInv

LEMMA LedgerKeeps ==
  ASSUME MentionsInv, Mentions!Record
  PROVE  MentionsInv'
<1> DEFINE m == held.m
           final == held.attempts >= MaxAttempts
<1>1. /\ held.pc = "ledger" /\ held' = [held EXCEPT !.pc = "settle"]
      /\ \/ /\ journey' = [journey EXCEPT ![m] = IF held.outcome = "failed" /\ final THEN "gave up" ELSE held.outcome]
            /\ unwritten' = unwritten
         \/ journey' = journey /\ unwritten' = unwritten \cup {m}
      /\ cuts' = cuts \/ Mentions!Slip
      /\ UNCHANGED <<row, job, dead, page, req, listed, decision, raced, lapsed, found>>
  BY DEF Mentions!Record, Mentions!Go, Mentions!LastChance, Mentions!queue, Mentions!others, Mentions!world,
         Mentions!endpoint, Mentions!moderators
<1>2. held \in Work /\ m \in Outgoing /\ job[m].live
  BY <1>1, HasWork DEF MentionsInv, HeldFine
<1>3. "settle" \in Stage /\ held.outcome \in Result
  BY <1>2 DEF Stage, Work
<1>4. Onward(held, held', "settle") /\ held'.outcome = held.outcome
  BY <1>1, <1>2, <1>3, WorkMoves
<1>5. held'.m = m /\ held'.pc = "settle" /\ held'.attempts = held.attempts
  BY <1>4 DEF Onward
<1>6. /\ journey' \in [Outgoing -> {"none", "gave up"} \cup Result]
      /\ \/ journey'[m] = (IF held.outcome = "failed" /\ final THEN "gave up" ELSE held.outcome)
         \/ m \in unwritten'
      /\ \A n \in Outgoing : n # m => journey'[n] = journey[n] /\ (n \notin unwritten' => n \notin unwritten)
      /\ m \notin unwritten' => m \notin unwritten
  <2>1. journey \in [Outgoing -> {"none", "gave up"} \cup Result]
    BY DEF MentionsInv, RowsFine
  <2>2. CASE journey' = journey /\ unwritten' = unwritten \cup {m}
    BY <2>1, <2>2
  <2>3. CASE ~(journey' = journey /\ unwritten' = unwritten \cup {m})
    BY <1>1, <1>2, <1>3, <2>1, <2>3
  <2>4. QED
    BY <2>2, <2>3
<1>7. m \notin unwritten => Wrote(m, held.outcome)
  BY <1>1, <1>2 DEF MentionsInv, SentFine
<1> HIDE DEF m, final
<1>8. RowsFine'
  BY <1>1, <1>6 DEF MentionsInv, RowsFine
<1>9. HeldFine'
  BY <1>1, <1>2, <1>4, RestingWork, MentionsAssumption DEF MentionsInv, HeldFine, Onward, m
<1>10. QueueFine' /\ AttemptsFine'
  BY <1>1, <1>5, Slips DEF m
<1>11. Mentions!Unforgotten' /\ SeenFine' /\ ClosedFine' /\ RacedFine'
  BY <1>1, <1>2, <1>5, MentionsAssumption DEF MentionsInv, Mentions!Unforgotten, SeenFine, ClosedFine, RacedFine
<1>12. SentFine'
  BY <1>1, <1>4, <1>5, <1>6, <1>7 DEF SentFine, Wrote, Entered, final
<1>13. Mentions!JourneyAgrees'
  BY <1>1, <1>2, <1>6 DEF MentionsInv, Mentions!JourneyAgrees
<1>14. QED
  BY <1>8, <1>9, <1>10, <1>11, <1>12, <1>13 DEF MentionsInv

\* A job is closed, or waits for another attempt.
LEMMA SettleKeeps ==
  ASSUME MentionsInv, Mentions!Settle
  PROVE  MentionsInv'
<1> DEFINE m == held.m
<1>1. /\ held.pc = "settle" /\ held' = Mentions!Resting
      /\ UNCHANGED <<row, page, req, listed, decision, raced, lapsed, journey, found, unwritten, cuts>>
      /\ \/ held.outcome # "failed" /\ job' = [job EXCEPT ![m] = Mentions!NoJob] /\ dead' = dead
         \/ /\ held.outcome = "failed" /\ held.attempts >= MaxAttempts
            /\ job' = [job EXCEPT ![m] = Mentions!NoJob] /\ dead' = [dead EXCEPT ![m] = @ + 1]
         \/ held.outcome = "failed" /\ ~(held.attempts >= MaxAttempts) /\ job' = job /\ dead' = dead
  BY DEF Mentions!Settle, Mentions!LastChance, Mentions!queue, Mentions!worker, Mentions!others, Mentions!world,
         Mentions!endpoint, Mentions!moderators
<1>2. /\ held \in Work /\ m \in Incoming \cup Outgoing
      /\ job[m].live /\ held.attempts = job[m].attempts
  BY <1>1, HasWork DEF MentionsInv, HeldFine
<1>3. held.attempts \in Nat
  BY <1>2 DEF Work
<1> HIDE DEF m
<1>4. /\ job' \in [Incoming \cup Outgoing -> Job] /\ dead' \in [Incoming \cup Outgoing -> Nat]
      /\ \A n \in Incoming \cup Outgoing : n # m => job'[n] = job[n] /\ dead'[n] = dead[n]
      /\ (job'[m].live => job'[m] = job[m] /\ held.attempts < MaxAttempts)
      /\ (~job'[m].live => /\ job'[m].attempts = 0
                           /\ held.outcome = "failed" => dead'[m] > 0 /\ held.attempts >= MaxAttempts)
  <2>1. job \in [Incoming \cup Outgoing -> Job] /\ dead \in [Incoming \cup Outgoing -> Nat]
    BY DEF MentionsInv, QueueFine
  <2>2. Mentions!NoJob \in Job /\ ~Mentions!NoJob.live /\ Mentions!NoJob.attempts = 0
    BY DEF Mentions!NoJob, Job
  <2>3. CASE held.outcome # "failed"
    BY <1>1, <1>2, <2>1, <2>2, <2>3
  <2>4. CASE held.outcome = "failed" /\ held.attempts >= MaxAttempts
    BY <1>1, <1>2, <2>1, <2>2, <2>4
  <2>5. CASE held.outcome = "failed" /\ ~(held.attempts >= MaxAttempts)
    BY <1>1, <1>2, <1>3, <2>1, <2>5, MentionsAssumption
  <2>6. QED
    BY <2>3, <2>4, <2>5
<1>5. RowsFine' /\ QueueFine'
  BY <1>1, <1>2, <1>4 DEF MentionsInv, RowsFine, QueueFine
<1>6. HeldFine'
  BY <1>1, RestingWork DEF HeldFine
<1>7. AttemptsFine'
  BY <1>1, <1>2, <1>3, <1>4, MentionsAssumption DEF MentionsInv, AttemptsFine, QueueFine, m
<1>8. Mentions!Unforgotten'
  <2>1. SUFFICES ASSUME NEW n \in Incoming, row[n] = "pending", n \notin lapsed, \A r \in Requests : req[r] # n
                 PROVE  job'[n].live \/ dead'[n] > 0
    BY <1>1 DEF Mentions!Unforgotten
  <2>2. CASE n # m
    BY <1>4, <2>1, <2>2 DEF MentionsInv, Mentions!Unforgotten
  <2>3. CASE n = m
    <3>1. held.outcome = "failed"
      BY <1>1, <2>1, <2>3 DEF MentionsInv, ClosedFine, Answered, m
    <3>2. QED
      BY <1>4, <2>3, <3>1
  <2>4. QED
    BY <2>2, <2>3
<1>9. ClosedFine' /\ SeenFine' /\ RacedFine' /\ SentFine'
  BY <1>1, RestingWork DEF MentionsInv, ClosedFine, SeenFine, RacedFine, SentFine
<1>10. Mentions!JourneyAgrees'
  <2>1. SUFFICES ASSUME NEW n \in Outgoing, ~job'[n].live, row[n] # "none", n \notin unwritten
                 PROVE  \/ row[n] = "approved" /\ journey[n] = "ok"
                        \/ row[n] = "failed" /\ journey[n] \in {"gave up", "rejected"}
    BY <1>1 DEF Mentions!JourneyAgrees
  <2>2. CASE n # m
    BY <1>4, <2>1, <2>2 DEF MentionsInv, Mentions!JourneyAgrees
  <2>3. CASE n = m
    <3>1. Wrote(m, held.outcome) /\ Entered(m, held.outcome, held.attempts >= MaxAttempts)
      BY <1>1, <2>1, <2>3 DEF MentionsInv, SentFine, m
    <3>2. held.outcome \in Result /\ (held.outcome = "failed" => held.attempts >= MaxAttempts)
      BY <1>2, <1>4, <2>1, <2>3 DEF Work
    <3>3. QED
      BY <2>3, <3>1, <3>2 DEF Wrote, Entered, Result
  <2>4. QED
    BY <2>2, <2>3
<1>11. QED
  BY <1>5, <1>6, <1>7, <1>8, <1>9, <1>10 DEF MentionsInv

LEMMA CrashKeeps ==
  ASSUME MentionsInv, Mentions!Crash
  PROVE  MentionsInv'
<1>1. /\ cuts' = cuts + 1 /\ held' = Mentions!Resting /\ req' = [r \in Requests |-> NoMention] /\ listed' = {}
      /\ lapsed' = lapsed \cup ({req[r] : r \in Requests} \ {NoMention})
      /\ UNCHANGED <<row, job, dead, page, decision, raced, journey, found, unwritten>>
  BY DEF Mentions!Crash, Mentions!queue, Mentions!world
<1>2. RowsFine' /\ SeenFine' /\ Mentions!JourneyAgrees'
  BY <1>1 DEF MentionsInv, RowsFine, SeenFine, Mentions!JourneyAgrees
<1>3. QueueFine'
  BY <1>1 DEF MentionsInv, QueueFine
<1>4. HeldFine'
  BY <1>1, RestingWork DEF HeldFine
<1>5. AttemptsFine'
  <2>1. \A n \in Incoming \cup Outgoing : job[n].attempts \in Nat
    BY DEF MentionsInv, QueueFine, Job
  <2>2. QED
    BY <1>1, <2>1, MentionsAssumption DEF MentionsInv, AttemptsFine, QueueFine
<1>6. Mentions!Unforgotten'
  BY <1>1, RestingWork DEF MentionsInv, Mentions!Unforgotten
<1>7. ClosedFine' /\ RacedFine' /\ SentFine'
  BY <1>1, RestingWork DEF MentionsInv, ClosedFine, RacedFine, SentFine
<1>8. QED
  BY <1>2, <1>3, <1>4, <1>5, <1>6, <1>7 DEF MentionsInv

\* A moderator looks, and decides on what was there.
LEMMA DecisionKeeps ==
  ASSUME MentionsInv, NEW m \in Incoming, NEW state \in {"approved", "rejected"}, Mentions!Decide(m, state)
  PROVE  MentionsInv'
<1>1. /\ m \in listed /\ row' = [row EXCEPT ![m] = state] /\ listed' = listed \ {m}
      /\ decision' = [decision EXCEPT ![m] = state]
      /\ raced' = IF held.m = m /\ held.pc \in {"fetch", "write"} THEN raced \cup {m} ELSE raced
      /\ UNCHANGED <<job, dead, page, req, held, journey, found, lapsed, unwritten, cuts>>
  BY DEF Mentions!Decide, Mentions!queue, Mentions!world, Mentions!endpoint
<1>2. /\ row' \in [Incoming \cup Outgoing -> Mentions!States] /\ row'[m] = state
      /\ \A n \in Incoming \cup Outgoing : n # m => row'[n] = row[n]
  BY <1>1 DEF MentionsInv, RowsFine, Mentions!States
<1>3. \A n \in Outgoing : row'[n] = row[n]
  BY <1>2, MentionsAssumption
<1>4. /\ decision' \in [Incoming -> {"none", "approved", "rejected"}] /\ decision'[m] = state
      /\ \A n \in Incoming : n # m => decision'[n] = decision[n]
  BY <1>1 DEF MentionsInv, RowsFine
<1>5. RowsFine'
  BY <1>1, <1>2, <1>3, <1>4 DEF MentionsInv, RowsFine
<1>6. QueueFine' /\ HeldFine' /\ AttemptsFine'
  BY <1>1 DEF MentionsInv, QueueFine, HeldFine, AttemptsFine
<1>7. Mentions!Unforgotten' /\ ClosedFine'
  BY <1>1, <1>2 DEF MentionsInv, Mentions!Unforgotten, ClosedFine, Answered
<1>8. SeenFine'
  BY <1>1, <1>2 DEF MentionsInv, SeenFine
<1>9. RacedFine'
  BY <1>1, <1>2, <1>4 DEF MentionsInv, RacedFine
<1>10. SentFine'
  BY <1>1, <1>3 DEF MentionsInv, SentFine, Wrote, Entered
<1>11. Mentions!JourneyAgrees'
  BY <1>1, <1>3 DEF MentionsInv, Mentions!JourneyAgrees
<1>12. QED
  BY <1>5, <1>6, <1>7, <1>8, <1>9, <1>10, <1>11 DEF MentionsInv

\* Whatever else happens is a look, or a page that changes.
LEMMA LookKeeps ==
  ASSUME MentionsInv,
         \/ Mentions!AwaitingModeration \/ UNCHANGED Mentions!vars
         \/ \E m \in Incoming, answer \in Mentions!Pages : Mentions!Change(m, answer)
  PROVE  MentionsInv'
<1>1. UNCHANGED <<row, job, dead, req, held, decision, raced, lapsed, journey, found, unwritten, cuts>>
  BY DEF Mentions!AwaitingModeration, Mentions!vars, Mentions!Change, Mentions!queue, Mentions!world,
         Mentions!endpoint, Mentions!moderators
<1>2. page' \in [Incoming -> Mentions!Pages]
  BY DEF MentionsInv, RowsFine, Mentions!AwaitingModeration, Mentions!vars, Mentions!Change, Mentions!world
<1>3. listed' \subseteq Incoming /\ listed' \subseteq found
  BY DEF MentionsInv, RowsFine, SeenFine, Mentions!AwaitingModeration, Mentions!vars, Mentions!Change,
         Mentions!moderators
<1>4. RowsFine' /\ SeenFine'
  BY <1>1, <1>2, <1>3 DEF MentionsInv, RowsFine, SeenFine
<1>5. QED
  BY <1>1, <1>4 DEF MentionsInv, QueueFine, HeldFine, AttemptsFine, Mentions!Unforgotten, ClosedFine, Answered,
                    RacedFine, SentFine, Wrote, Entered, Mentions!JourneyAgrees

LEMMA MentionsStep ==
  ASSUME MentionsInv, [Mentions!Next]_Mentions!vars
  PROVE  MentionsInv'
<1>1. ASSUME NEW r \in Requests, (\E m \in Incoming : Mentions!Receive(r, m)) \/ Mentions!QueueVerify(r) \/ Mentions!Fail(r)
      PROVE  MentionsInv'
  BY <1>1, ReceiveKeeps, QueueVerifyKeeps, HangsUp
<1>2. ASSUME NEW m \in Incoming \cup Outgoing, Mentions!Claim(m) \/ Mentions!Retry(m) PROVE MentionsInv'
  BY <1>2, ClaimsJob, QueueKeeps
<1>3. ASSUME NEW m \in Outgoing, Mentions!QueueSend(m) PROVE MentionsInv'
  BY <1>3, QueueKeeps
<1>4. CASE \/ Mentions!ReadMention \/ Mentions!Fetch \/ Mentions!Write \/ Mentions!RecordSend \/ Mentions!Discover
           \/ Mentions!Post \/ Mentions!Sent \/ Mentions!Record \/ Mentions!Settle
  BY <1>4, LooksKeep, WriteKeeps, SendingKeeps, LedgerKeeps, SettleKeeps
<1>5. CASE Mentions!Crash
  BY <1>5, CrashKeeps
<1>6. ASSUME NEW m \in Incoming, \E state \in {"approved", "rejected"} : Mentions!Decide(m, state) PROVE MentionsInv'
  BY <1>6, DecisionKeeps
<1>7. CASE \/ Mentions!AwaitingModeration \/ UNCHANGED Mentions!vars
           \/ \E m \in Incoming, answer \in Mentions!Pages : Mentions!Change(m, answer)
  BY <1>7, LookKeeps
<1>8. QED
  BY <1>1, <1>2, <1>3, <1>4, <1>5, <1>6, <1>7 DEF Mentions!Next, Mentions!Mentions

LEMMA InvTypes == MentionsInv => Mentions!TypeOK
<1>1. SUFFICES ASSUME MentionsInv PROVE Mentions!TypeOK
  OBVIOUS
<1>2. \A m \in Incoming : row[m] \in Mentions!States
  BY <1>1 DEF MentionsInv, RowsFine
<1>3. \A m \in Outgoing : row[m] \in {"none", "pending", "approved", "failed"}
  BY <1>1 DEF MentionsInv, RowsFine, Sending
<1>4. held # Mentions!Resting => job[held.m].live
  BY <1>1 DEF MentionsInv, HeldFine, Work
<1>5. \A m \in Incoming \cup Outgoing : job[m].attempts <= MaxAttempts + cuts
  BY <1>1 DEF MentionsInv, AttemptsFine
<1>6. QED
  BY <1>2, <1>3, <1>4, <1>5 DEF Mentions!TypeOK, Mentions!Mentions

LEMMA InvDecided == MentionsInv => Mentions!DecisionStands
BY DEF MentionsInv, RacedFine, SeenFine, Mentions!DecisionStands

-----------------------------------------------------------------------------
(* The parts together, and who changes what *)

\* A request whose answer takes a cookie away carried that of a session that is
\* over.
Over == \A t \in Tabs : tab[t].pc = "clear" => ~Sessions!Alive(tab[t].sent)

LEMMA MarkedSame ==
  ASSUME NEW s \in Session, NEW t \in Tabs
  PROVE  Sessions!Marked(s, t).id = s.id /\ Sessions!Marked(s, t).expires = s.expires
<1> DEFINE x == [s EXCEPT !.mark = now]
<1>1. x.id = s.id /\ x.expires = s.expires /\ DOMAIN x = DOMAIN s
  BY DEF Session
<1>2. Sessions!Marked(s, t) = [x EXCEPT !.markPass = tab[t].pass]
  BY DEF Sessions!Marked
<1> HIDE DEF x
<1>3. QED
  BY <1>1, <1>2

\* A step makes no session but one with a number of its own, and revives none.
LEMMA NoRevival ==
  ASSUME SessionsInv, [Sessions!Next]_Sessions!vars
  PROVE  /\ now <= now'
         /\ \A x \in session' : x.id = started + 1 \/ \E s \in session : x.id = s.id /\ x.expires = s.expires
<1>1. CASE UNCHANGED <<now, session>>
  BY <1>1 DEF SessionsInv, SessionsShape, NumbersFine
<1>2. ASSUME NEW t \in Tabs,
             \/ Sessions!RecoverPassword(t) \/ Sessions!DestroySession(t)
             \/ \E b \in Browsers : Sessions!Resolve(t, b)
      PROVE  UNCHANGED now /\ session' \subseteq session
  BY <1>2 DEF Sessions!RecoverPassword, Sessions!DestroySession, Sessions!Resolve
<1>3. ASSUME NEW t \in Tabs, Sessions!CreateSession(t)
      PROVE  UNCHANGED now /\ \A x \in session' : x.id = started + 1 \/ x \in session
  BY <1>3 DEF Sessions!CreateSession, Sessions!NewSession
<1>4. ASSUME NEW t \in Tabs, Sessions!MarkReauthenticated(t)
      PROVE  UNCHANGED now /\ \A x \in session' : \E s \in session : x.id = s.id /\ x.expires = s.expires
  <2>1. UNCHANGED now /\ session' = {IF s.id = tab[t].sent THEN Sessions!Marked(s, t) ELSE s : s \in session}
    BY <1>4 DEF Sessions!MarkReauthenticated
  <2>2. \A s \in session : s \in Session
    BY DEF SessionsInv, SessionsShape, SessionsFine
  <2>3. QED
    BY <2>1, <2>2, MarkedSame
<1>5. CASE Sessions!PurgeExpiredSessions
  BY <1>5 DEF Sessions!PurgeExpiredSessions, SessionsInv, SessionsShape, NumbersFine
<1>6. CASE Sessions!Tick
  BY <1>6 DEF Sessions!Tick, SessionsInv, SessionsShape, NumbersFine
<1>7. now \in Int
  BY DEF SessionsInv, SessionsShape, NumbersFine
<1>8. CASE Sessions!PurgeExpiredTokens \/ \E l \in Links, purpose \in {"signin", "recover"} : Sessions!IssueToken(l, purpose)
  BY <1>1, <1>8 DEF Sessions!PurgeExpiredTokens, Sessions!IssueToken
<1>9. ASSUME NEW t \in Tabs,
             \/ \E b \in Browsers : \/ Sessions!Authenticate(t, b)
                                    \/ \E l \in Links : Sessions!FollowMagic(t, b, l) \/ Sessions!PeekToken(t, b, l)
             \/ Sessions!Refuse(t) \/ Sessions!Confirm(t) \/ Sessions!Answer(t) \/ Sessions!Hangup(t)
      PROVE  UNCHANGED <<now, session>>
  BY <1>9 DEF Sessions!Authenticate, Sessions!FollowMagic, Sessions!PeekToken, Sessions!Refuse, Sessions!Confirm,
              Sessions!Answer, Sessions!Hangup
<1>10. CASE UNCHANGED Sessions!vars
  BY <1>1, <1>10 DEF Sessions!vars
<1>11. QED
  BY <1>1, <1>2, <1>3, <1>4, <1>5, <1>6, <1>7, <1>8, <1>9, <1>10 DEF Sessions!Next

LEMMA StaysOver ==
  ASSUME SessionsInv, [Sessions!Next]_Sessions!vars
  PROVE  \A id : (id # None => id \in Nat /\ id <= started) /\ ~Sessions!Alive(id) => ~Sessions!Alive(id)'
<1>1. now \in Int /\ now' \in Int /\ started \in Nat /\ \A s \in session : s.expires \in Int
  BY SessionsStep DEF SessionsInv, SessionsShape, NumbersFine, SessionsFine, Session
<1>2. SUFFICES ASSUME NEW id, id # None => id \in Nat /\ id <= started, ~Sessions!Alive(id),
                      NEW x \in session', x.id = id, now' < x.expires
               PROVE  FALSE
  BY DEF Sessions!Alive
<1>3. id # None
  <2>1. x.id \in Nat
    BY SessionsStep DEF SessionsInv, SessionsShape, SessionsFine, Session
  <2>2. QED
    BY <1>2, <2>1, SessionsAssumption
<1>4. PICK s \in session : x.id = s.id /\ x.expires = s.expires
  BY <1>1, <1>2, <1>3, NoRevival
<1>5. QED
  BY <1>1, <1>2, <1>4, NoRevival DEF Sessions!Alive

\* Only two steps of a request end in a cookie that is taken away.
LEMMA ClearedBy ==
  ASSUME SessionsInv, [Sessions!Next]_Sessions!vars, NEW t \in Tabs, tab'[t].pc = "clear", tab'[t] # tab[t]
  PROVE  Sessions!DestroySession(t) \/ \E b \in Browsers : Sessions!Resolve(t, b)
<1>1. tab \in [Tabs -> Tab]
  BY DEF SessionsInv, SessionsShape, TabsFine
<1>2. ASSUME NEW u \in Tabs, NEW b \in Browsers,
             \/ Sessions!Authenticate(u, b)
             \/ \E l \in Links : Sessions!FollowMagic(u, b, l) \/ Sessions!PeekToken(u, b, l)
      PROVE  FALSE
  <2>1. PICK pc, by : pc \in {"create", "form"} /\ Sessions!Begin(u, b, pc, by)
    BY <1>2 DEF Sessions!Authenticate, Sessions!FollowMagic, Sessions!PeekToken
  <2> DEFINE q == [pc |-> pc, b |-> b, sent |-> cookie[b], new |-> None, by |-> by,
                   pass |-> IF pc = "create" THEN pass ELSE 0]
  <2>2. tab' = [tab EXCEPT ![u] = q]
    BY <2>1, BegunAs
  <2>3. QED
    BY <1>1, <2>1, <2>2
<1>3. ASSUME NEW u \in Tabs, Sessions!Refuse(u) \/ Sessions!Answer(u) \/ Sessions!Hangup(u)
      PROVE  FALSE
  <2>1. tab' = [tab EXCEPT ![u] = Sessions!Idle]
    BY <1>3 DEF Sessions!Refuse, Sessions!Answer, Sessions!Hangup
  <2>2. QED
    BY <1>1, <2>1, IdleTab
<1>4. ASSUME NEW u \in Tabs,
             \/ Sessions!RecoverPassword(u) \/ Sessions!CreateSession(u) \/ Sessions!Confirm(u)
             \/ Sessions!MarkReauthenticated(u)
      PROVE  FALSE
  <2>1. tab'[u].pc # "clear" /\ \A v \in Tabs : v # u => tab'[v] = tab[v]
    BY <1>1, <1>4 DEF Sessions!RecoverPassword, Sessions!CreateSession, Sessions!Confirm,
                      Sessions!MarkReauthenticated, Tab
  <2>2. QED
    BY <2>1
<1>5. ASSUME NEW u \in Tabs, u # t, Sessions!DestroySession(u) \/ \E b \in Browsers : Sessions!Resolve(u, b)
      PROVE  FALSE
  BY <1>1, <1>5 DEF Sessions!DestroySession, Sessions!Resolve, Sessions!Begin, Sessions!Go
<1>6. ~UNCHANGED tab
  OBVIOUS
<1>7. PICK u \in Tabs : Sessions!DestroySession(u) \/ \E b \in Browsers : Sessions!Resolve(u, b)
  BY <1>2, <1>3, <1>4, <1>6
    DEF Sessions!Next, Sessions!vars, Sessions!IssueToken, Sessions!PurgeExpiredSessions,
        Sessions!PurgeExpiredTokens, Sessions!Tick
<1>8. QED
  BY <1>5, <1>7

LEMMA OverKeeps ==
  ASSUME SessionsInv, Over, [Sessions!Next]_Sessions!vars
  PROVE  Over'
<1>1. SUFFICES ASSUME NEW t \in Tabs, tab'[t].pc = "clear" PROVE ~Sessions!Alive(tab[t].sent)'
  BY DEF Over
<1>2. PICK id : id = tab'[t].sent
  OBVIOUS
<1>3. SUFFICES ~Sessions!Alive(id)'
  BY <1>2 DEF Sessions!Alive
<1>4. CASE tab'[t] = tab[t]
  BY <1>1, <1>2, <1>4, StaysOver DEF Over, SessionsInv, SessionsShape, TabsFine, TabFine, Tab
<1>5. ASSUME NEW b \in Browsers, Sessions!Resolve(t, b) PROVE ~Sessions!Alive(id)'
  <2>1. PICK pc \in {"fault", "in", "clear"} :
          /\ Sessions!Begin(t, b, pc, None)
          /\ pc = "clear" => ~Sessions!Alive(cookie[b])
    BY <1>5 DEF Sessions!Resolve
  <2> DEFINE q == [pc |-> pc, b |-> b, sent |-> cookie[b], new |-> None, by |-> None,
                   pass |-> IF pc = "create" THEN pass ELSE 0]
  <2>2. tab' = [tab EXCEPT ![t] = q]
    BY <2>1, BegunAs
  <2>3. tab'[t] = q
    BY <2>2 DEF SessionsInv, SessionsShape, TabsFine
  <2>4. pc = "clear" /\ id = cookie[b]
    BY <1>1, <1>2, <2>3
  <2>5. QED
    BY <2>1, <2>4, StaysOver DEF SessionsInv, SessionsShape, CookiesFine
<1>6. ASSUME Sessions!DestroySession(t) PROVE ~Sessions!Alive(id)'
  <2>1. tab'[t] = [tab[t] EXCEPT !.pc = "clear"] /\ tab[t] \in Tab
    BY <1>6 DEF Sessions!DestroySession, Sessions!Go, SessionsInv, SessionsShape, TabsFine
  <2>2. id = tab[t].sent
    BY <1>2, <2>1 DEF Tab
  <2>3. QED
    BY <1>6, <2>2 DEF Sessions!DestroySession, Sessions!Alive
<1>7. QED
  BY <1>1, <1>4, <1>5, <1>6, ClearedBy

\* A cookie changes by the answer to a request of its browser.
LEMMA CookiesStay ==
  ASSUME SessionsInv, Over, [Sessions!Next]_Sessions!vars
  PROVE  Sessions!CookieKept
<1>1. SUFFICES ASSUME NEW b \in Browsers, Sessions!Alive(cookie[b]), cookie'[b] # cookie[b]
               PROVE  \E t \in Tabs : /\ tab[t].b = b /\ tab'[t].pc = "idle"
                                      /\ \/ tab[t].pc \in {"fault", "give"}
                                         \/ /\ tab[t].pc = "clear" /\ tab[t].sent # cookie[b]
                                            /\ ~Sessions!Alive(tab[t].sent)
  BY DEF Sessions!CookieKept
<1>2. PICK t \in Tabs : Sessions!Answer(t)
  BY <1>1 DEF Sessions!Next, Sessions!vars, Sessions!Authenticate, Sessions!Resolve, Sessions!FollowMagic,
    Sessions!PeekToken, Sessions!RecoverPassword, Sessions!Refuse, Sessions!CreateSession, Sessions!DestroySession,
    Sessions!Confirm, Sessions!MarkReauthenticated, Sessions!Hangup, Sessions!IssueToken,
    Sessions!PurgeExpiredSessions, Sessions!PurgeExpiredTokens, Sessions!Tick
<1>3. tab[t].b = b /\ tab[t].pc \in {"give", "clear", "fault"}
  BY <1>1, <1>2 DEF Sessions!Answer, Sessions!AnswerCookie, SessionsInv, SessionsShape, CookiesFine
<1>4. tab'[t].pc = "idle"
  BY <1>2, IdleTab DEF Sessions!Answer, SessionsInv, SessionsShape, TabsFine
<1>5. CASE tab[t].pc = "clear"
  <2>1. ~Sessions!Alive(tab[t].sent)
    BY <1>5 DEF Over
  <2>2. tab[t].sent # cookie[b]
    BY <1>1, <2>1
  <2>3. QED
    BY <1>3, <1>4, <1>5, <2>1, <2>2
<1>6. QED
  BY <1>3, <1>4, <1>5

-----------------------------------------------------------------------------
(* Reading *)

Walk == [pc : {"away", "page", "end"}, view : {"all", "unread", "saved", "collection"}, cut : Nat,
         seen : SUBSET Items, want : SUBSET Items, even : BOOLEAN]

\* What the reader can count on is in the view, and not hidden.
Wanted == walk.want \subseteq Reading!Members(walk.view) \ hidden

\* What was not on a page yet is on one to come.
Ahead ==
  walk.pc = "page" /\ walk.even /\ walk.view # "saved" =>
    \A k \in walk.want : k \in walk.seen \/ item[k].order < walk.cut

ReadingInv ==
  /\ item \in [Items -> Reading!Rows \cup {Reading!Absent}]
  /\ walk \in Walk
  /\ Wanted /\ Ahead /\ Reading!SeesAll

LEMMA SameCardinality == \A S : Reading!Cardinality(S) = Cardinality(S)
BY DEF Cardinality, Reading!Cardinality, IsFiniteSet, Reading!IsFiniteSet

LEMMA NothingBelow == \A x, y \in Nat : x < y => y # 0
OBVIOUS

LEMMA NoWalkFits == Reading!NoWalk \in Walk /\ Reading!NoWalk.pc = "away" /\ Reading!NoWalk.want = {}
BY ReadingAssumption DEF Reading!NoWalk, Walk

LEMMA ReadingInit ==
  ASSUME Reading!Init
  PROVE  ReadingInv
BY NoWalkFits DEF Reading!Init, Reading!Unread, ReadingInv, Wanted, Ahead, Reading!SeesAll

\* A row that is listed has a date.
LEMMA RowsDated ==
  ASSUME NEW r \in Reading!Rows \cup {Reading!Absent}, r.here
  PROVE  r.order \in 1..Dates /\ r.order \in Nat /\ r.shown \in Nat
BY ReadingAssumption DEF Reading!Rows, Reading!Absent

LEMMA OpenKeeps ==
  ASSUME ReadingInv, NEW view \in {"all", "unread", "saved", "collection"}, Reading!Open(view)
  PROVE  ReadingInv'
<1> DEFINE m == Reading!Members(view) \ hidden
           a == [Reading!NoWalk EXCEPT !.pc = "page"]
           b == [a EXCEPT !.view = view]
           c == [b EXCEPT !.cut = 2 * Dates]
           d == [c EXCEPT !.want = m]
<1>1. walk' = d /\ UNCHANGED <<item, marks, hidden, collection>>
  BY DEF Reading!Open
<1>2. m \in SUBSET Items /\ 2 * Dates \in Nat
  BY ReadingAssumption DEF Reading!Members
<1> HIDE DEF m
<1>3. a \in Walk /\ a.pc = "page"
  BY NoWalkFits DEF Walk
<1> HIDE DEF a
<1>4. b \in Walk /\ b.pc = "page" /\ b.view = view
  BY <1>3 DEF Walk
<1> HIDE DEF b
<1>5. c \in Walk /\ c.pc = "page" /\ c.view = view /\ c.cut = 2 * Dates
  BY <1>2, <1>4 DEF Walk
<1> HIDE DEF c
<1>6. d \in Walk /\ d.pc = "page" /\ d.view = view /\ d.cut = 2 * Dates /\ d.want = m
  BY <1>2, <1>5 DEF Walk
<1> HIDE DEF d
<1>7. Wanted'
  BY <1>1, <1>6 DEF Wanted, m, Reading!Members
<1>8. Ahead'
  <2>1. ASSUME NEW k \in m PROVE item[k].order < 2 * Dates
    <3>1. k \in Items /\ item[k].here /\ item[k] \in Reading!Rows \cup {Reading!Absent}
      BY <2>1 DEF m, Reading!Members, Reading!Belongs, ReadingInv
    <3> QED
      BY <3>1, RowsDated, ReadingAssumption
  <2> QED
    BY <1>1, <1>6, <2>1 DEF Ahead
<1> QED
  BY <1>1, <1>6, <1>7, <1>8 DEF ReadingInv, Reading!SeesAll

\* A page that broke off evenly left out only what is dated before its last.
LEMMA TurnLeaves ==
  ASSUME ReadingInv, walk.pc = "page", walk.view # "saved", walk.even,
         NEW P \in Reading!Select(walk.view, walk.cut), P \cap hidden = {},
         NEW k \in walk.want, k \notin walk.seen, k \notin P
  PROVE  /\ Cardinality(P) = Page
         /\ \A last \in P : Reading!Even(P, last) /\ (\A l \in P : Reading!Rank(walk.view, l) >= Reading!Rank(walk.view, last)) =>
              item[k].order < item[last].shown
<1> DEFINE left == {l \in Reading!Members(walk.view) : Reading!Before(l, walk.cut)}
<1>1. k \in left
  BY DEF ReadingInv, Wanted, Ahead, Reading!Before
<1>2. /\ P \in SUBSET left
      /\ Cardinality(P) = IF Cardinality(left) < Page THEN Cardinality(left) ELSE Page
      /\ \A l \in P, n \in left \ P : Reading!Rank(walk.view, l) >= Reading!Rank(walk.view, n)
  BY SameCardinality DEF Reading!Select
<1>3. left \subseteq Items /\ \A l \in left : item[l].here /\ l \in Reading!Members(walk.view)
  BY DEF Reading!Members, Reading!Belongs
<1> HIDE DEF left
<1>4. IsFiniteSet(left) /\ IsFiniteSet(P)
  BY <1>2, <1>3, ReadingAssumption, FS_Subset
<1>5. Cardinality(P) # Cardinality(left)
  BY <1>1, <1>2, <1>4, FS_Subset
<1>6. ASSUME NEW last \in P, Reading!Even(P, last)
      PROVE  item[k].order < item[last].shown
  <2>1. item[last].shown = item[last].order /\ item[k].order # item[last].order
    BY <1>1, <1>3, <1>6 DEF Reading!Even, Reading!Dated
  <2>2. item[last].order >= item[k].order
    BY <1>1, <1>2, <1>6 DEF Reading!Rank
  <2>3. item[k].order \in Nat /\ item[last].order \in Nat
    <3>1. /\ item[k] \in Reading!Rows \cup {Reading!Absent} /\ item[k].here
          /\ item[last] \in Reading!Rows \cup {Reading!Absent} /\ item[last].here
      BY <1>1, <1>2, <1>3, <1>6 DEF ReadingInv
    <3> QED
      BY <3>1, RowsDated
  <2> QED
    BY <2>1, <2>2, <2>3
<1> QED
  BY <1>2, <1>5, <1>6

LEMMA TurnKeeps ==
  ASSUME ReadingInv, Reading!Turn
  PROVE  ReadingInv'
<1> SUFFICES ASSUME NEW P \in Reading!Select(walk.view, walk.cut),
               LET visible == Reading!VisibleItems(P)
               IN  IF Cardinality(visible) = Page
                   THEN \E last \in Reading!Oldest(walk.view, visible) :
                          walk' = [walk EXCEPT !.seen = @ \cup visible, !.cut = Reading!MoreLink(last),
                                               !.pc = IF Reading!MoreLink(last) = 0 THEN "end" ELSE "page",
                                               !.even = @ /\ Reading!Even(P, last)]
                   ELSE walk' = [walk EXCEPT !.seen = @ \cup visible, !.pc = "end",
                                             !.even = @ /\ P \cap hidden = {}]
             PROVE  ReadingInv'
  BY SameCardinality DEF Reading!Turn
<1> DEFINE visible == P \ hidden
<1>1. walk \in Walk /\ walk.pc = "page" /\ UNCHANGED <<item, marks, hidden, collection>>
  BY DEF Reading!Turn, ReadingInv
<1>2. P \subseteq Items /\ \A l \in P : item[l].here
  BY DEF Reading!Select, Reading!Members, Reading!Belongs
<1>3. CASE Cardinality(visible) = Page
  <2>1. PICK last \in Reading!Oldest(walk.view, visible) :
          walk' = [walk EXCEPT !.seen = @ \cup visible, !.cut = Reading!MoreLink(last),
                               !.pc = IF Reading!MoreLink(last) = 0 THEN "end" ELSE "page",
                               !.even = @ /\ Reading!Even(P, last)]
    BY <1>3 DEF Reading!VisibleItems
  <2>2. last \in visible /\ \A l \in visible : Reading!Rank(walk.view, l) >= Reading!Rank(walk.view, last)
    BY DEF Reading!Oldest
  <2>3. item[last].shown \in Nat /\ item[last].order \in Nat
    BY <1>2, <2>2, RowsDated DEF ReadingInv
  <2> DEFINE cut == item[last].shown
             pc == IF cut = 0 THEN "end" ELSE "page"
             even == walk.even /\ Reading!Even(P, last)
             b == [walk EXCEPT !.seen = walk.seen \cup visible]
             c == [b EXCEPT !.cut = cut]
             d == [c EXCEPT !.pc = pc]
             e == [d EXCEPT !.even = even]
  <2>4. walk' = e
    BY <2>1 DEF Reading!MoreLink
  <2>5. b \in Walk /\ b.seen = walk.seen \cup visible /\ b.want = walk.want /\ b.view = walk.view
    BY <1>1, <1>2 DEF Walk
  <2> HIDE DEF b
  <2>6. /\ c \in Walk /\ c.seen = walk.seen \cup visible /\ c.want = walk.want /\ c.view = walk.view
        /\ c.cut = cut
    BY <2>3, <2>5 DEF Walk
  <2> HIDE DEF c
  <2>7. /\ d \in Walk /\ d.seen = walk.seen \cup visible /\ d.want = walk.want /\ d.view = walk.view
        /\ d.cut = cut /\ d.pc = pc
    BY <2>6 DEF Walk
  <2> HIDE DEF d
  <2>8. even \in BOOLEAN
    BY DEF Reading!Even
  <2> HIDE DEF even
  <2>9. /\ e \in Walk /\ e.seen = walk.seen \cup visible /\ e.want = walk.want /\ e.view = walk.view
        /\ e.cut = cut /\ e.pc = pc /\ e.even = even
    BY <2>7, <2>8 DEF Walk
  <2> HIDE DEF e
  <2>10. Wanted'
    BY <1>1, <2>4, <2>9 DEF Wanted, ReadingInv, Reading!Members
  <2>11. ASSUME even, walk.view # "saved", NEW k \in walk.want, k \notin walk.seen \cup visible
         PROVE  item[k].order < cut /\ cut # 0
    <3>1. walk.even /\ Reading!Even(P, last) /\ P \cap hidden = {}
      BY <2>11 DEF even, Reading!Even
    <3>2. visible = P /\ last \in P
      BY <2>2, <3>1
    <3>3. item[k].order < cut
      BY <1>1, <2>2, <2>11, <3>1, <3>2, TurnLeaves
    <3>4. item[k].order \in Nat
      <4>1. item[k].here /\ k \in Items
        BY <2>11 DEF ReadingInv, Wanted, Reading!Members, Reading!Belongs
      <4> QED
        BY <4>1, RowsDated DEF ReadingInv
    <3> QED
      BY <2>3, <3>3, <3>4, NothingBelow
  <2>12. Ahead' /\ Reading!SeesAll'
    BY <1>1, <2>4, <2>9, <2>11 DEF Ahead, Reading!SeesAll
  <2> QED
    BY <1>1, <2>4, <2>9, <2>10, <2>12 DEF ReadingInv
<1>4. CASE Cardinality(visible) # Page
  <2> DEFINE even == walk.even /\ P \cap hidden = {}
             b == [walk EXCEPT !.seen = walk.seen \cup visible]
             c == [b EXCEPT !.pc = "end"]
             d == [c EXCEPT !.even = even]
  <2>1. walk' = d
    BY <1>4 DEF Reading!VisibleItems
  <2>2. b \in Walk /\ b.seen = walk.seen \cup visible /\ b.want = walk.want /\ b.view = walk.view
    BY <1>1, <1>2 DEF Walk
  <2> HIDE DEF b
  <2>3. c \in Walk /\ c.seen = walk.seen \cup visible /\ c.want = walk.want /\ c.view = walk.view /\ c.pc = "end"
    BY <2>2 DEF Walk
  <2> HIDE DEF c
  <2>4. even \in BOOLEAN
    OBVIOUS
  <2>5. /\ d \in Walk /\ d.seen = walk.seen \cup visible /\ d.want = walk.want /\ d.view = walk.view
        /\ d.pc = "end" /\ d.even = even
    BY <2>3, <2>4 DEF Walk
  <2> HIDE DEF d
  <2>6. Wanted'
    BY <1>1, <2>1, <2>5 DEF Wanted, ReadingInv, Reading!Members
  <2>7. ASSUME even, walk.view # "saved", NEW k \in walk.want, k \notin walk.seen \cup visible
        PROVE  FALSE
    <3>1. visible = P /\ k \notin P /\ walk.even /\ P \cap hidden = {}
      BY <2>7
    <3>2. Cardinality(P) = Page
      BY <1>1, <2>7, <3>1, TurnLeaves
    <3> QED
      BY <1>4, <3>1, <3>2
  <2>8. Ahead' /\ Reading!SeesAll'
    BY <1>1, <2>1, <2>5, <2>7 DEF Ahead, Reading!SeesAll
  <2> QED
    BY <1>1, <2>1, <2>5, <2>6, <2>8 DEF ReadingInv
<1> QED
  BY <1>3, <1>4

\* What changes meanwhile, the reader can no longer count on.
LEMMA FollowKeeps ==
  ASSUME ReadingInv, Reading!Change, Reading!Follow,
         item' \in [Items -> Reading!Rows \cup {Reading!Absent}]
  PROVE  ReadingInv'
<1> DEFINE kept == {k \in walk.want : item'[k] = item[k] /\ k \notin hidden'
                       /\ Reading!Belongs(walk.view, item'[k], marks'[k], collection')}
<1>1. walk' = [walk EXCEPT !.want = kept]
  BY DEF Reading!Follow
<1>2. walk \in Walk /\ kept \subseteq walk.want /\ walk.want \subseteq Items
  BY DEF ReadingInv, Walk
<1>3. \A k \in kept : item'[k] = item[k] /\ k \in Items /\ k \notin hidden' /\ Reading!Belongs(walk.view, item'[k], marks'[k], collection')
  BY <1>2
<1> HIDE DEF kept
<1>4. /\ walk' \in Walk /\ walk'.want = kept /\ walk'.view = walk.view /\ walk'.pc = walk.pc
      /\ walk'.cut = walk.cut /\ walk'.seen = walk.seen /\ walk'.even = walk.even
  BY <1>1, <1>2 DEF Walk
<1>5. Wanted'
  BY <1>3, <1>4 DEF Wanted, Reading!Members
<1>6. Ahead' /\ Reading!SeesAll'
  BY <1>2, <1>3, <1>4 DEF ReadingInv, Ahead, Reading!SeesAll, Reading!Change
<1> QED
  BY <1>4, <1>5, <1>6 DEF ReadingInv

LEMMA ReadingStep ==
  ASSUME ReadingInv, [Reading!Next]_Reading!vars
  PROVE  ReadingInv'
<1>1. ASSUME NEW view \in {"all", "unread", "saved", "collection"}, Reading!Open(view) PROVE ReadingInv'
  BY <1>1, OpenKeeps
<1>2. CASE Reading!Turn
  BY <1>2, TurnKeeps
<1>3. CASE Reading!Leave
  BY <1>3, NoWalkFits DEF Reading!Leave, ReadingInv, Wanted, Ahead, Reading!SeesAll
<1>4. ASSUME NEW k \in Items, NEW new \in Reading!Rows \cup {Reading!Absent}, Reading!Converge(k, new)
      PROVE  ReadingInv'
  <2>1. item' \in [Items -> Reading!Rows \cup {Reading!Absent}] /\ Reading!Change /\ Reading!Follow
    BY <1>4 DEF Reading!Converge, ReadingInv
  <2> QED
    BY <2>1, FollowKeeps
<1>5. ASSUME item' = item, Reading!Change, Reading!Follow PROVE ReadingInv'
  BY <1>5, FollowKeeps DEF ReadingInv
<1>6. ASSUME NEW k \in Items, NEW column, NEW value, Reading!Touch(k, column, value) PROVE ReadingInv'
  BY <1>5, <1>6 DEF Reading!Touch
<1>7. ASSUME NEW k \in Items, Reading!Hide(k) PROVE ReadingInv'
  BY <1>5, <1>7 DEF Reading!Hide
<1>8. ASSUME NEW t, Reading!MarkAllRead(t) PROVE ReadingInv'
  BY <1>5, <1>8 DEF Reading!MarkAllRead
<1>9. ASSUME NEW sources, Reading!Collect(sources) PROVE ReadingInv'
  BY <1>5, <1>9 DEF Reading!Collect
<1>10. CASE UNCHANGED Reading!vars
  BY <1>10 DEF Reading!vars, ReadingInv, Wanted, Ahead, Reading!SeesAll, Reading!Members
<1>11. QED
  BY <1>1, <1>2, <1>3, <1>4, <1>6, <1>7, <1>8, <1>9, <1>10 DEF Reading!Next

-----------------------------------------------------------------------------
(* What an account uses: the fold over its files, a recursive function *)

\* Induction over finite sets, as the existence of a smallest counterexample.
LEMMA SmallestSet ==
  ASSUME NEW U, NEW T, T \subseteq FiniteSubsetsOf(U), T # {}
  PROVE  \E s \in T : \A r \in T : ~(r \subseteq s /\ r # s)
<1>1. PICK s \in T : \A r \in T : ~(<<r, s>> \in StrictSubsetOrdering(U))
  BY WFMin, FS_StrictSubsetOrderingWellFounded
<1>2. ASSUME NEW r \in T, r \subseteq s, r # s PROVE FALSE
  <2>1. r \in SUBSET U /\ s \in SUBSET U
    BY DEF FiniteSubsetsOf
  <2> QED
    BY <1>1, <1>2, <2>1 DEF StrictSubsetOrdering
<1> QED
  BY <1>2

Weight(m) == Size[m.content]
Picked(s) == CHOOSE x \in s : TRUE
SumRound(f, s) == IF s = {} THEN 0 ELSE f[s \ {Picked(s)}] + Weight(Picked(s))
Sums(S, f) == f = [s \in SUBSET S |-> SumRound(f, s)]
Total(S) == (CHOOSE f : Sums(S, f))[S]

LEMMA PickedIn == \A s : s # {} => Picked(s) \in s
BY DEF Picked

\* Two folds agree wherever both are defined.
LEMMA SumsAgree ==
  ASSUME NEW S, NEW R, NEW f, NEW g, Sums(S, f), Sums(R, g), IsFiniteSet(S)
  PROVE  \A s \in SUBSET S : s \subseteq R => f[s] = g[s]
<1> DEFINE T == {s \in SUBSET S : s \subseteq R /\ f[s] # g[s]}
<1>1. SUFFICES ASSUME T # {} PROVE FALSE
  OBVIOUS
<1>2. T \subseteq FiniteSubsetsOf(S)
  BY FS_Subset DEF FiniteSubsetsOf
<1>3. PICK s \in T : \A r \in T : ~(r \subseteq s /\ r # s)
  <2> HIDE DEF T
  <2> QED
    BY <1>1, <1>2, SmallestSet
<1>4. s \in SUBSET S /\ s \in SUBSET R /\ f[s] # g[s]
  OBVIOUS
<1>5. f[s] = SumRound(f, s) /\ g[s] = SumRound(g, s)
  BY <1>4 DEF Sums
<1>6. s # {}
  BY <1>4, <1>5 DEF SumRound
<1>7. f[s \ {Picked(s)}] = g[s \ {Picked(s)}]
  <2>1. Picked(s) \in s
    BY <1>6, PickedIn
  <2>2. s \ {Picked(s)} \subseteq s /\ s \ {Picked(s)} # s /\ s \ {Picked(s)} \in SUBSET S /\ s \ {Picked(s)} \subseteq R
    BY <1>4, <2>1
  <2> QED
    BY <1>3, <2>2
<1> QED
  BY <1>4, <1>5, <1>7 DEF SumRound

LEMMA SumsExist ==
  ASSUME NEW S, IsFiniteSet(S)
  PROVE  \E f : Sums(S, f)
<1> DEFINE T == {s \in SUBSET S : ~\E f : Sums(s, f)}
<1>1. SUFFICES ASSUME T # {} PROVE FALSE
  OBVIOUS
<1>2. T \subseteq FiniteSubsetsOf(S)
  BY FS_Subset DEF FiniteSubsetsOf
<1>3. PICK s \in T : \A r \in T : ~(r \subseteq s /\ r # s)
  <2> HIDE DEF T
  <2> QED
    BY <1>1, <1>2, SmallestSet
<1>4. s \in SUBSET S
  OBVIOUS
<1>5. ASSUME NEW r \in SUBSET s, r # s PROVE Total(r) = SumRound([q \in SUBSET s |-> Total(q)], r)
  <2>1. PICK h : Sums(r, h)
    BY <1>3, <1>4, <1>5
  <2> DEFINE f == CHOOSE f : Sums(r, f)
  <2>2. Sums(r, f)
    BY <2>1
  <2>3. Total(r) = f[r]
    BY DEF Total
  <2> HIDE DEF f
  <2>4. f[r] = SumRound(f, r)
    BY <2>2 DEF Sums
  <2>5. CASE r = {}
    BY <2>3, <2>4, <2>5 DEF SumRound
  <2>6. CASE r # {}
    <3> DEFINE q == r \ {Picked(r)}
    <3>1. q \in SUBSET r /\ q \in SUBSET s /\ q # s
      BY <1>5, <2>6, PickedIn
    <3>2. PICK k : Sums(q, k)
      BY <1>3, <1>4, <3>1
    <3> DEFINE g == CHOOSE g : Sums(q, g)
    <3>3. Sums(q, g)
      BY <3>2
    <3>4. Total(q) = g[q]
      BY DEF Total
    <3>5. IsFiniteSet(r)
      BY <1>4, <1>5, FS_Subset
    <3> HIDE DEF g, q
    <3>6. f[q] = g[q]
      BY <2>2, <3>1, <3>3, <3>5, SumsAgree
    <3>7. [p \in SUBSET s |-> Total(p)][q] = f[q]
      BY <3>1, <3>4, <3>6
    <3> QED
      BY <2>3, <2>4, <2>6, <3>7 DEF SumRound, q
  <2> QED
    BY <2>5, <2>6
<1> DEFINE t == [q \in SUBSET s |-> Total(q)]
           g == [r \in SUBSET s |-> SumRound(t, r)]
<1>6. \A r \in SUBSET s : r # s => g[r] = t[r]
  BY <1>5
<1>7. \A r \in SUBSET s : SumRound(t, r) = SumRound(g, r)
  <2> SUFFICES ASSUME NEW r \in SUBSET s, r # {} PROVE SumRound(t, r) = SumRound(g, r)
    BY DEF SumRound
  <2>1. r \ {Picked(r)} \in SUBSET s /\ r \ {Picked(r)} # s
    BY PickedIn
  <2>2. g[r \ {Picked(r)}] = t[r \ {Picked(r)}]
    BY <1>6, <2>1
  <2> HIDE DEF t, g
  <2> QED
    BY <2>2 DEF SumRound
<1>8. g = [r \in SUBSET s |-> SumRound(g, r)]
  BY <1>7
<1> HIDE DEF g
<1>9. Sums(s, g)
  BY <1>8 DEF Sums
<1> QED
  BY <1>9

LEMMA TotalIs ==
  ASSUME NEW S, IsFiniteSet(S)
  PROVE  Total(S) = IF S = {} THEN 0 ELSE Total(S \ {Picked(S)}) + Weight(Picked(S))
<1> DEFINE f == CHOOSE f : Sums(S, f)
<1>1. Sums(S, f)
  BY SumsExist
<1>2. Total(S) = f[S]
  BY DEF Total
<1> HIDE DEF f
<1>3. f[S] = SumRound(f, S)
  BY <1>1 DEF Sums
<1>4. CASE S # {}
  <2> DEFINE q == S \ {Picked(S)}
             g == CHOOSE g : Sums(q, g)
  <2>1. q \in SUBSET S /\ IsFiniteSet(q)
    BY FS_Subset
  <2>2. Sums(q, g)
    <3> HIDE DEF q
    <3> QED
      BY <2>1, SumsExist
  <2>3. Total(q) = g[q]
    BY DEF Total
  <2> HIDE DEF g, q
  <2>4. f[q] = g[q]
    BY <1>1, <2>1, <2>2, SumsAgree
  <2> QED
    BY <1>2, <1>3, <1>4, <2>3, <2>4 DEF SumRound, q
<1>5. CASE S = {}
  BY <1>2, <1>3, <1>5 DEF SumRound
<1> QED
  BY <1>4, <1>5

LEMMA TotalNat ==
  ASSUME NEW S, IsFiniteSet(S), \A x \in S : Weight(x) \in Nat
  PROVE  Total(S) \in Nat
<1> DEFINE T == {s \in SUBSET S : Total(s) \notin Nat}
<1>1. SUFFICES ASSUME T # {} PROVE FALSE
  OBVIOUS
<1>2. T \subseteq FiniteSubsetsOf(S)
  BY FS_Subset DEF FiniteSubsetsOf
<1>3. PICK s \in T : \A r \in T : ~(r \subseteq s /\ r # s)
  <2> HIDE DEF T
  <2> QED
    BY <1>1, <1>2, SmallestSet
<1>4. s \in SUBSET S /\ IsFiniteSet(s) /\ Total(s) \notin Nat
  BY FS_Subset
<1>5. s # {}
  <2>1. s = {} => Total(s) = 0
    BY <1>4, TotalIs
  <2> QED
    BY <1>4, <2>1
<1>6. Picked(s) \in s
  BY <1>5, PickedIn
<1>7. Total(s \ {Picked(s)}) \in Nat
  BY <1>3, <1>4, <1>6
<1>8. Weight(Picked(s)) \in Nat
  BY <1>4, <1>6
<1>9. Total(s) = Total(s \ {Picked(s)}) + Weight(Picked(s))
  BY <1>4, <1>5, TotalIs
<1> QED
  BY <1>4, <1>7, <1>8, <1>9

\* Whichever element the fold chooses first, any other could have been.
LEMMA TotalWithout ==
  ASSUME NEW S, IsFiniteSet(S), \A x \in S : Weight(x) \in Nat
  PROVE  \A x \in S : Total(S) = Total(S \ {x}) + Weight(x)
<1> DEFINE T == {s \in SUBSET S : \E x \in s : Total(s) # Total(s \ {x}) + Weight(x)}
<1>1. SUFFICES ASSUME T # {} PROVE FALSE
  OBVIOUS
<1>2. T \subseteq FiniteSubsetsOf(S)
  BY FS_Subset DEF FiniteSubsetsOf
<1>3. PICK s \in T : \A r \in T : ~(r \subseteq s /\ r # s)
  <2> HIDE DEF T
  <2> QED
    BY <1>1, <1>2, SmallestSet
<1>4. PICK x \in s : Total(s) # Total(s \ {x}) + Weight(x)
  OBVIOUS
<1> DEFINE p == Picked(s)
<1>5. s \in SUBSET S /\ IsFiniteSet(s) /\ s # {} /\ p \in s
  BY <1>4, FS_Subset, PickedIn
<1>6. Total(s) = Total(s \ {p}) + Weight(p)
  BY <1>5, TotalIs
<1> HIDE DEF p
<1>7. x # p
  BY <1>4, <1>6
<1>8. /\ Total(s \ {p}) = Total((s \ {p}) \ {x}) + Weight(x)
      /\ Total(s \ {x}) = Total((s \ {x}) \ {p}) + Weight(p)
  <2>1. /\ s \ {p} \in SUBSET S /\ s \ {p} \subseteq s /\ s \ {p} # s /\ x \in s \ {p}
        /\ s \ {x} \in SUBSET S /\ s \ {x} \subseteq s /\ s \ {x} # s /\ p \in s \ {x}
    BY <1>4, <1>5, <1>7
  <2> QED
    BY <1>3, <2>1
<1>9. (s \ {p}) \ {x} = (s \ {x}) \ {p}
  OBVIOUS
<1>10. Total((s \ {x}) \ {p}) \in Nat /\ Weight(x) \in Nat /\ Weight(p) \in Nat
  <2>1. (s \ {x}) \ {p} \in SUBSET S /\ IsFiniteSet((s \ {x}) \ {p})
    BY <1>5, FS_Subset
  <2> QED
    BY <1>4, <1>5, <2>1, TotalNat
<1> QED
  BY <1>4, <1>6, <1>8, <1>9, <1>10

\* The fold of Used is that sum.
LEMMA UsedIsTotal ==
  ASSUME NEW o, IsFiniteSet(media)
  PROVE  Media!Used(o) = Total({m \in media : m.owner = o})
<1> DEFINE S == {m \in media : m.owner = o}
           iter[s \in SUBSET S] == IF s = {} THEN 0 ELSE iter[s \ {CHOOSE x \in s : TRUE}] + Size[(CHOOSE x \in s : TRUE).content]
<1>1. Media!Used(o) = iter[S]
  BY DEF Media!Used, Media!FoldSet, Media!MapThenFoldSet
<1>2. iter = CHOOSE f : f = [s \in SUBSET S |-> IF s = {} THEN 0 ELSE f[s \ {CHOOSE x \in s : TRUE}] + Size[(CHOOSE x \in s : TRUE).content]]
  OBVIOUS
<1> HIDE DEF iter, S
<1>3. iter = CHOOSE f : Sums(S, f)
  BY <1>2 DEF Sums, SumRound, Weight, Picked
<1> QED
  BY <1>1, <1>3 DEF Total, S

-----------------------------------------------------------------------------
(* Media *)

State == {"none", "partial", "whole"}
Uploading == Owners \cup Uploaders
File == [owner : Uploading, content : Contents]
Put == [pc : {"idle", "stat", "open", "write", "row"}, owner : Uploading \cup {None}, content : Contents \cup {None}]

MediaShape ==
  /\ disk \in [Contents -> State]
  /\ media \subseteq File /\ IsFiniteSet(media)
  /\ put \in [Tabs -> Put]
  /\ \A t \in Tabs : put[t] = Media!NoPut \/ (put[t].owner \in Uploading /\ put[t].content \in Contents)

\* A file a row or an upload relies on is there, and a partial one is being
\* written or was cut off.
Backed ==
  /\ \A t \in Tabs : put[t].pc \in {"write", "row"} => disk[put[t].content] # "none"
  /\ \A m \in media : disk[m.content] # "none" /\ (disk[m.content] = "whole" \/ m.content \in unready)
  /\ \A c \in Contents : disk[c] = "partial" => Media!Writers(c) # {} \/ c \in torn

MediaInv == MediaShape /\ Backed /\ Media!OwnFiles

\* What no upload takes away.
Grows == media \subseteq media' /\ unready \subseteq unready'

\* An upload begins, whatever the quota.
PutBegins(t, o, c) ==
  /\ put[t] = Media!NoPut
  /\ put' = [put EXCEPT ![t] = [pc |-> "stat", owner |-> o, content |-> c]]
  /\ UNCHANGED <<disk, media, attached, torn, unready, breaks>>

LEMMA NoPutFits == Media!NoPut \in Put /\ Media!NoPut.pc = "idle" /\ Media!NoPut.owner = None
BY DEF Media!NoPut, Put

LEMMA MediaStarts ==
  ASSUME Media!Init
  PROVE  MediaInv
<1>1. IsFiniteSet(media)
  BY FS_EmptySet DEF Media!Init
<1>2. QED
  BY <1>1, NoPutFits DEF Media!Init, MediaInv, MediaShape, Backed, Media!OwnFiles, State

\* A step of one upload.
LEMMA OneUpload ==
  ASSUME MediaInv, NEW t \in Tabs, NEW p \in Put, put' = [put EXCEPT ![t] = p],
         p = Media!NoPut \/ (p.owner \in Uploading /\ p.content \in Contents)
  PROVE  /\ put'[t] = p /\ \A u \in Tabs : u # t => put'[u] = put[u]
         /\ put' \in [Tabs -> Put]
         /\ \A u \in Tabs : put'[u] = Media!NoPut \/ (put'[u].owner \in Uploading /\ put'[u].content \in Contents)
BY DEF MediaInv, MediaShape

LEMMA GoesTo ==
  ASSUME MediaInv, NEW t \in Tabs, put[t].pc # "idle",
         NEW pc \in {"stat", "open", "write", "row"}, Media!Go(t, pc)
  PROVE  /\ put'[t].pc = pc /\ put'[t].owner = put[t].owner /\ put'[t].content = put[t].content
         /\ \A u \in Tabs : u # t => put'[u] = put[u]
         /\ put' \in [Tabs -> Put]
         /\ \A u \in Tabs : put'[u] = Media!NoPut \/ (put'[u].owner \in Uploading /\ put'[u].content \in Contents)
<1> DEFINE p == [put[t] EXCEPT !.pc = pc]
<1>1. put[t] \in Put /\ put[t].owner \in Uploading /\ put[t].content \in Contents
  BY NoPutFits DEF MediaInv, MediaShape
<1>2. p \in Put /\ p.pc = pc /\ p.owner = put[t].owner /\ p.content = put[t].content
  BY <1>1 DEF Put
<1>3. put' = [put EXCEPT ![t] = p]
  BY DEF Media!Go, MediaInv, MediaShape
<1> HIDE DEF p
<1>4. QED
  BY <1>1, <1>2, <1>3, OneUpload

LEMMA PutBeginsKeeps ==
  ASSUME MediaInv, NEW t \in Tabs, NEW o \in Uploading, NEW c \in Contents, PutBegins(t, o, c)
  PROVE  MediaInv' /\ Grows
<1> DEFINE p == [pc |-> "stat", owner |-> o, content |-> c]
<1>1. p \in Put /\ p.pc = "stat" /\ p.owner = o /\ p.content = c /\ put' = [put EXCEPT ![t] = p]
  BY DEF Put, PutBegins
<1> HIDE DEF p
<1>2. /\ put'[t] = p /\ \A u \in Tabs : u # t => put'[u] = put[u]
      /\ put' \in [Tabs -> Put]
      /\ \A u \in Tabs : put'[u] = Media!NoPut \/ (put'[u].owner \in Uploading /\ put'[u].content \in Contents)
  BY <1>1, OneUpload
<1>3. UNCHANGED <<disk, media, attached, torn, unready>> /\ put[t].pc = "idle"
  BY NoPutFits DEF PutBegins
<1>4. MediaShape' /\ Media!OwnFiles' /\ Grows
  BY <1>2, <1>3 DEF MediaInv, MediaShape, Media!OwnFiles, Grows
<1>5. Backed'
  BY <1>1, <1>2, <1>3 DEF MediaInv, Backed, Media!Writers
<1>6. QED
  BY <1>4, <1>5 DEF MediaInv

LEMMA StatKeeps ==
  ASSUME MediaInv, NEW t \in Tabs, Media!Stat(t)
  PROVE  MediaInv' /\ Grows
<1>1. PICK pc \in {"open", "row"} : Media!Go(t, pc) /\ (pc = "row" => disk[put[t].content] # "none")
  BY DEF Media!Stat
<1>2. put[t].pc = "stat" /\ UNCHANGED <<disk, media, attached, torn, unready>>
  BY DEF Media!Stat
<1>3. /\ put'[t].pc = pc /\ put'[t].content = put[t].content
      /\ \A u \in Tabs : u # t => put'[u] = put[u]
      /\ put' \in [Tabs -> Put]
      /\ \A u \in Tabs : put'[u] = Media!NoPut \/ (put'[u].owner \in Uploading /\ put'[u].content \in Contents)
  BY <1>1, <1>2, GoesTo
<1>4. MediaShape' /\ Media!OwnFiles' /\ Grows
  BY <1>2, <1>3 DEF MediaInv, MediaShape, Media!OwnFiles, Grows
<1>5. Backed'
  BY <1>1, <1>2, <1>3 DEF MediaInv, Backed, Media!Writers
<1>6. QED
  BY <1>4, <1>5 DEF MediaInv

LEMMA OpenFileKeeps ==
  ASSUME MediaInv, NEW t \in Tabs, Media!OpenFile(t)
  PROVE  MediaInv' /\ Grows
<1> DEFINE c == put[t].content
<1>1. /\ put[t].pc = "open" /\ UNCHANGED <<media, attached, torn>>
      /\ disk' = [disk EXCEPT ![c] = "partial"] /\ unready \subseteq unready'
      /\ c \in Media!Named(media) => c \in unready'
  BY DEF Media!OpenFile
<1>2. c \in Contents
  BY <1>1, NoPutFits DEF MediaInv, MediaShape
<1>3. /\ put'[t].pc = "write" /\ put'[t].content = c
      /\ \A u \in Tabs : u # t => put'[u] = put[u]
      /\ put' \in [Tabs -> Put]
      /\ \A u \in Tabs : put'[u] = Media!NoPut \/ (put'[u].owner \in Uploading /\ put'[u].content \in Contents)
  BY <1>1, GoesTo DEF Media!OpenFile
<1> HIDE DEF c
<1>4. /\ disk' \in [Contents -> State] /\ disk'[c] = "partial"
      /\ \A b \in Contents : b # c => disk'[b] = disk[b]
  BY <1>1, <1>2 DEF MediaInv, MediaShape, State
<1>5. MediaShape' /\ Media!OwnFiles' /\ Grows
  BY <1>1, <1>3, <1>4 DEF MediaInv, MediaShape, Media!OwnFiles, Grows
<1>6. \A u \in Tabs : put'[u].pc \in {"write", "row"} => disk'[put'[u].content] # "none"
  <2>1. SUFFICES ASSUME NEW u \in Tabs, u # t, put[u].pc \in {"write", "row"} PROVE disk'[put[u].content] # "none"
    BY <1>3, <1>4
  <2>2. disk[put[u].content] # "none" /\ put[u].content \in Contents
    BY <2>1, NoPutFits DEF MediaInv, MediaShape, Backed
  <2>3. QED
    BY <1>4, <2>2
<1>7. \A m \in media' : disk'[m.content] # "none" /\ (disk'[m.content] = "whole" \/ m.content \in unready')
  <2>1. SUFFICES ASSUME NEW m \in media
                 PROVE  disk'[m.content] # "none" /\ (disk'[m.content] = "whole" \/ m.content \in unready')
    BY <1>1
  <2>2. m.content \in Contents /\ m.content \in Media!Named(media)
    BY DEF MediaInv, MediaShape, File, Media!Named
  <2>3. CASE m.content = c
    BY <1>1, <1>4, <2>2, <2>3
  <2>4. CASE m.content # c
    BY <1>1, <1>4, <2>2, <2>4 DEF MediaInv, Backed
  <2>5. QED
    BY <2>3, <2>4
<1>8. \A b \in Contents : disk'[b] = "partial" => Media!Writers(b)' # {} \/ b \in torn'
  <2>1. SUFFICES ASSUME NEW b \in Contents, disk'[b] = "partial" PROVE Media!Writers(b)' # {} \/ b \in torn'
    OBVIOUS
  <2>2. CASE b = c
    BY <1>3, <2>2 DEF Media!Writers
  <2>3. CASE b # c
    BY <1>1, <1>3, <1>4, <2>1, <2>3 DEF MediaInv, Backed, Media!Writers
  <2>4. QED
    BY <2>2, <2>3
<1>9. QED
  BY <1>5, <1>6, <1>7, <1>8 DEF MediaInv, Backed

LEMMA WriteFileKeeps ==
  ASSUME MediaInv, NEW t \in Tabs, Media!WriteFile(t)
  PROVE  MediaInv' /\ Grows
<1> DEFINE c == put[t].content
<1>1. /\ put[t].pc = "write" /\ UNCHANGED <<media, attached, torn, unready>>
      /\ \/ Media!Writers(c) = {t} /\ c \notin torn /\ disk' = [disk EXCEPT ![c] = "whole"]
         \/ ~(Media!Writers(c) = {t} /\ c \notin torn) /\ disk' = disk
  BY DEF Media!WriteFile
<1>2. c \in Contents /\ t \in Media!Writers(c)
  BY <1>1, NoPutFits DEF MediaInv, MediaShape, Media!Writers
<1>3. /\ put'[t].pc = "row" /\ put'[t].content = c
      /\ \A u \in Tabs : u # t => put'[u] = put[u]
      /\ put' \in [Tabs -> Put]
      /\ \A u \in Tabs : put'[u] = Media!NoPut \/ (put'[u].owner \in Uploading /\ put'[u].content \in Contents)
  BY <1>1, GoesTo DEF Media!WriteFile
<1>4. disk[c] # "none"
  BY <1>1 DEF MediaInv, Backed
<1> HIDE DEF c
<1>5. /\ disk' \in [Contents -> State] /\ \A b \in Contents : disk'[b] = disk[b] \/ (b = c /\ disk'[b] = "whole")
  BY <1>1, <1>2 DEF MediaInv, MediaShape, State
<1>6. MediaShape' /\ Media!OwnFiles' /\ Grows
  BY <1>1, <1>3, <1>5 DEF MediaInv, MediaShape, Media!OwnFiles, Grows
<1>7. \A u \in Tabs : put'[u].pc \in {"write", "row"} => disk'[put'[u].content] # "none"
  <2>1. TAKE u \in Tabs
  <2>2. CASE u = t
    BY <1>2, <1>3, <1>4, <1>5, <2>2
  <2>3. CASE u # t
    <3>1. SUFFICES ASSUME put[u].pc \in {"write", "row"} PROVE disk'[put[u].content] # "none"
      BY <1>3, <2>3
    <3>2. disk[put[u].content] # "none" /\ put[u].content \in Contents
      BY <3>1, NoPutFits DEF MediaInv, MediaShape, Backed
    <3>3. QED
      BY <1>5, <3>2
  <2>4. QED
    BY <2>2, <2>3
<1>8. \A m \in media' : disk'[m.content] # "none" /\ (disk'[m.content] = "whole" \/ m.content \in unready')
  <2>1. \A m \in media : m.content \in Contents
    BY DEF MediaInv, MediaShape, File
  <2>2. QED
    BY <1>1, <1>5, <2>1 DEF MediaInv, Backed
<1>9. \A b \in Contents : disk'[b] = "partial" => Media!Writers(b)' # {} \/ b \in torn'
  <2>1. SUFFICES ASSUME NEW b \in Contents, disk'[b] = "partial", b \notin torn PROVE Media!Writers(b)' # {}
    BY <1>1
  <2>2. disk[b] = "partial"
    BY <1>5, <2>1
  <2>3. PICK u \in Tabs : put[u].pc = "write" /\ put[u].content = b
    BY <2>1, <2>2 DEF MediaInv, Backed, Media!Writers
  <2>4. PICK v \in Tabs : v # t /\ put[v].pc = "write" /\ put[v].content = b
    <3>1. CASE u = t
      <4>1. b = c
        BY <2>3, <3>1 DEF c
      <4>2. Media!Writers(c) # {t}
        <5>1. Media!Writers(c) = {t} => disk'[c] = "whole"
          BY <1>1, <1>2, <2>1, <4>1 DEF MediaInv, MediaShape
        <5>2. QED
          BY <2>1, <4>1, <5>1
      <4>3. QED
        BY <1>2, <4>1, <4>2 DEF Media!Writers
    <3>2. CASE u # t
      BY <2>3, <3>2
    <3>3. QED
      BY <3>1, <3>2
  <2>5. QED
    BY <1>3, <2>4 DEF Media!Writers
<1>10. QED
  BY <1>6, <1>7, <1>8, <1>9 DEF MediaInv, Backed

LEMMA EndsPut ==
  ASSUME MediaInv, NEW t \in Tabs, put' = [put EXCEPT ![t] = Media!NoPut]
  PROVE  /\ put'[t] = Media!NoPut /\ \A u \in Tabs : u # t => put'[u] = put[u]
         /\ put' \in [Tabs -> Put]
         /\ \A u \in Tabs : put'[u] = Media!NoPut \/ (put'[u].owner \in Uploading /\ put'[u].content \in Contents)
BY NoPutFits, OneUpload

LEMMA RowKeeps ==
  ASSUME MediaInv, NEW t \in Tabs, Media!Record(t)
  PROVE  MediaInv' /\ Grows
<1> DEFINE c == put[t].content
           new == [owner |-> put[t].owner, content |-> c]
<1>1. /\ put[t].pc = "row" /\ UNCHANGED <<disk, attached, torn>> /\ media' = media \cup {new}
      /\ unready \subseteq unready' /\ (disk[c] # "whole" => c \in unready')
      /\ put' = [put EXCEPT ![t] = Media!NoPut]
  BY DEF Media!Record
<1>2. new \in File /\ new.content = c /\ c \in Contents
  BY <1>1, NoPutFits DEF MediaInv, MediaShape, File
<1>3. disk[c] # "none"
  BY <1>1 DEF MediaInv, Backed
<1>4. /\ put'[t] = Media!NoPut /\ \A u \in Tabs : u # t => put'[u] = put[u]
      /\ put' \in [Tabs -> Put]
      /\ \A u \in Tabs : put'[u] = Media!NoPut \/ (put'[u].owner \in Uploading /\ put'[u].content \in Contents)
  BY <1>1, EndsPut
<1> HIDE DEF c, new
<1>5. IsFiniteSet(media')
  BY <1>1, FS_AddElement DEF MediaInv, MediaShape
<1>6. MediaShape' /\ Media!OwnFiles' /\ Grows
  BY <1>1, <1>2, <1>4, <1>5 DEF MediaInv, MediaShape, Media!OwnFiles, Grows
<1>7. Backed'
  <2>1. \A u \in Tabs : put'[u].pc \in {"write", "row"} => disk'[put'[u].content] # "none"
    BY <1>1, <1>4, NoPutFits DEF MediaInv, Backed
  <2>2. \A m \in media' : disk'[m.content] # "none" /\ (disk'[m.content] = "whole" \/ m.content \in unready')
    BY <1>1, <1>2, <1>3 DEF MediaInv, Backed
  <2>3. \A b \in Contents : Media!Writers(b) \subseteq Media!Writers(b)'
    BY <1>1, <1>4 DEF Media!Writers
  <2>4. \A b \in Contents : disk'[b] = "partial" => Media!Writers(b)' # {} \/ b \in torn'
    BY <1>1, <2>3 DEF MediaInv, Backed
  <2>5. QED
    BY <2>1, <2>2, <2>4 DEF Backed
<1>8. QED
  BY <1>6, <1>7 DEF MediaInv

LEMMA BreakKeeps ==
  ASSUME MediaInv, NEW t \in Tabs, Media!Break(t)
  PROVE  MediaInv' /\ Grows
<1>1. /\ UNCHANGED <<disk, media, attached, unready>> /\ torn \subseteq torn'
      /\ put[t].pc = "write" => put[t].content \in torn'
      /\ put' = [put EXCEPT ![t] = Media!NoPut]
  BY DEF Media!Break
<1>2. /\ put'[t] = Media!NoPut /\ \A u \in Tabs : u # t => put'[u] = put[u]
      /\ put' \in [Tabs -> Put]
      /\ \A u \in Tabs : put'[u] = Media!NoPut \/ (put'[u].owner \in Uploading /\ put'[u].content \in Contents)
  BY <1>1, EndsPut
<1>3. MediaShape' /\ Media!OwnFiles' /\ Grows
  BY <1>1, <1>2 DEF MediaInv, MediaShape, Media!OwnFiles, Grows
<1>4. \A u \in Tabs : put'[u].pc \in {"write", "row"} => disk'[put'[u].content] # "none"
  BY <1>1, <1>2, NoPutFits DEF MediaInv, Backed
<1>5. \A b \in Contents : disk'[b] = "partial" => Media!Writers(b)' # {} \/ b \in torn'
  BY <1>1, <1>2 DEF MediaInv, Backed, Media!Writers
<1>6. QED
  BY <1>1, <1>3, <1>4, <1>5 DEF MediaInv, Backed

LEMMA AttachKeeps ==
  ASSUME MediaInv, NEW o, NEW m \in media, Media!Attach(o, m)
  PROVE  MediaInv' /\ Grows
<1>1. UNCHANGED <<disk, media, put, torn, unready>>
  BY DEF Media!Attach
<1>2. attached' = attached \cup {[by |-> o, file |-> m]} /\ m.owner = o
  BY DEF Media!Attach, Media!Attachable
<1>3. Media!OwnFiles'
  BY <1>1, <1>2 DEF MediaInv, Media!OwnFiles
<1>4. QED
  BY <1>1, <1>3 DEF MediaInv, MediaShape, Backed, Grows, Media!Writers

\* Uploads are the same whether a backup is taken or not.
Uploads ==
  \/ \E t \in Tabs :
       \/ \E o \in Uploading, c \in Contents : PutBegins(t, o, c)
       \/ Media!Stat(t) \/ Media!OpenFile(t) \/ Media!WriteFile(t) \/ Media!Record(t) \/ Media!Break(t)
  \/ \E o \in Uploading, m \in media : Media!Attach(o, m)

LEMMA UploadsKeep ==
  ASSUME MediaInv, Uploads \/ UNCHANGED Media!vars
  PROVE  MediaInv' /\ Grows
<1>1. CASE UNCHANGED Media!vars
  BY <1>1 DEF Media!vars, MediaInv, MediaShape, Backed, Grows, Media!Writers, Media!OwnFiles
<1>2. CASE Uploads
  BY <1>2, PutBeginsKeeps, StatKeeps, OpenFileKeeps, WriteFileKeeps, RowKeeps, BreakKeeps, AttachKeeps DEF Uploads
<1>3. QED
  BY <1>1, <1>2

LEMMA MediaUploads ==
  ASSUME Media!Next
  PROVE  Uploads
BY DEF Media!Next, Uploads, Media!Begin, PutBegins, Uploading

LEMMA BackupUploading ==
  ASSUME Backup!Next
  PROVE  Uploads
<1>1. ASSUME NEW t \in Tabs, NEW o \in Uploaders, NEW c \in Contents, Backup!Begin(t, o, c) PROVE PutBegins(t, o, c)
  BY <1>1 DEF Backup!Begin, PutBegins, Backup!NoPut, Media!NoPut
<1>2. ASSUME NEW t \in Tabs, Backup!Stat(t) PROVE Media!Stat(t)
  BY <1>2 DEF Backup!Stat, Media!Stat, Backup!Go, Media!Go
<1>3. ASSUME NEW t \in Tabs, Backup!OpenFile(t) PROVE Media!OpenFile(t)
  BY <1>3 DEF Backup!OpenFile, Media!OpenFile, Backup!Go, Media!Go, Backup!Named, Media!Named
<1>4. ASSUME NEW t \in Tabs, Backup!WriteFile(t) PROVE Media!WriteFile(t)
  BY <1>4 DEF Backup!WriteFile, Media!WriteFile, Backup!Go, Media!Go, Backup!Writers, Media!Writers
<1>5. ASSUME NEW t \in Tabs, Backup!Record(t) PROVE Media!Record(t)
  BY <1>5 DEF Backup!Record, Media!Record, Backup!NoPut, Media!NoPut
<1>6. ASSUME NEW t \in Tabs, Backup!Break(t) PROVE Media!Break(t)
  BY <1>6 DEF Backup!Break, Media!Break, Backup!NoPut, Media!NoPut
<1>7. ASSUME NEW o \in Uploaders, NEW m \in media, Backup!Attach(o, m) PROVE Media!Attach(o, m)
  BY <1>7 DEF Backup!Attach, Media!Attach, Backup!Attachable, Media!Attachable
<1>8. QED
  BY <1>1, <1>2, <1>3, <1>4, <1>5, <1>6, <1>7 DEF Backup!Next, Uploads, Uploading

\* No file behind a row is missing, and none is partial for long.
LEMMA InvWhole ==
  ASSUME MediaInv
  PROVE  Media!Whole
<1>1. ASSUME NEW m \in media
      PROVE  /\ Media!Served(m.content)
             /\ Media!Writers(m.content) = {} => disk[m.content] = "whole" \/ m.content \in torn
  <2>1. m.content \in Contents /\ disk[m.content] \in State /\ disk[m.content] # "none"
    BY DEF MediaInv, MediaShape, Backed, File
  <2>2. Media!Served(m.content)
    BY <2>1 DEF Media!Served, Media!AnyBySHA, Media!Opens
  <2>3. QED
    BY <2>1, <2>2 DEF MediaInv, Backed, State
<1>2. QED
  BY <1>1 DEF Media!Whole

\* The same after a step.
LEMMA UsedThen ==
  ASSUME NEW o, IsFiniteSet(media')
  PROVE  Media!Used(o)' = Total({m \in media' : m.owner = o})
<1> DEFINE S == {m \in media' : m.owner = o}
           iter[s \in SUBSET S] == IF s = {} THEN 0 ELSE iter[s \ {CHOOSE x \in s : TRUE}] + Size[(CHOOSE x \in s : TRUE).content]
<1>1. Media!Used(o)' = iter[S]
  BY DEF Media!Used, Media!FoldSet, Media!MapThenFoldSet
<1>2. iter = CHOOSE f : f = [s \in SUBSET S |-> IF s = {} THEN 0 ELSE f[s \ {CHOOSE x \in s : TRUE}] + Size[(CHOOSE x \in s : TRUE).content]]
  OBVIOUS
<1> HIDE DEF iter, S
<1>3. iter = CHOOSE f : Sums(S, f)
  BY <1>2 DEF Sums, SumRound, Weight, Picked
<1> QED
  BY <1>1, <1>3 DEF Total, S

\* An account whose uploads never overlapped has one at most, and room for it.
Room(o) ==
  /\ Media!Used(o) <= Quota
  /\ \A t \in Tabs : put[t].owner = o =>
       /\ Media!Used(o) + Size[put[t].content] <= Quota
       /\ \A u \in Tabs : put[u].owner = o => u = t

QuotaInv == \A o \in Owners \ overlap : Room(o)

LEMMA UsedNat ==
  ASSUME MediaInv, NEW o
  PROVE  Media!Used(o) \in Nat
<1> DEFINE S == {m \in media : m.owner = o}
<1>1. IsFiniteSet(S)
  BY FS_Subset DEF MediaInv, MediaShape
<1>2. \A x \in S : Weight(x) \in Nat
  BY MediaAssumption DEF MediaInv, MediaShape, File, Weight
<1>3. Media!Used(o) = Total(S)
  BY UsedIsTotal DEF MediaInv, MediaShape
<1> HIDE DEF S
<1>4. QED
  BY <1>1, <1>2, <1>3, TotalNat

\* A row adds its size to what its account uses, unless it was there.
LEMMA UsedMore ==
  ASSUME MediaInv, MediaInv', NEW p \in Uploading, NEW c \in Contents,
         media' = media \cup {[owner |-> p, content |-> c]}
  PROVE  /\ Media!Used(p)' <= Media!Used(p) + Size[c]
         /\ \A o : o # p => Media!Used(o)' = Media!Used(o)
<1> DEFINE new == [owner |-> p, content |-> c]
           S == {m \in media : m.owner = p}
           R == {m \in media' : m.owner = p}
<1>1. IsFiniteSet(media) /\ IsFiniteSet(media')
  BY DEF MediaInv, MediaShape
<1>2. R = S \cup {new} /\ Weight(new) = Size[c] /\ Size[c] \in Nat
  BY MediaAssumption DEF Weight
<1>3. IsFiniteSet(R) /\ \A x \in R : Weight(x) \in Nat
  BY <1>1, FS_Subset, MediaAssumption DEF MediaInv, MediaShape, File, Weight
<1>4. Media!Used(p) = Total(S) /\ Media!Used(p)' = Total(R) /\ Media!Used(p) \in Nat
  BY <1>1, UsedIsTotal, UsedThen, UsedNat
<1>5. ASSUME NEW o, o # p PROVE Media!Used(o)' = Media!Used(o)
  <2>1. {m \in media' : m.owner = o} = {m \in media : m.owner = o}
    BY <1>5
  <2>2. QED
    BY <1>1, <2>1, UsedIsTotal, UsedThen
<1> HIDE DEF new, S, R
<1>6. CASE new \in S
  <2>1. R = S
    BY <1>2, <1>6
  <2>2. QED
    BY <1>2, <1>4, <1>5, <2>1
<1>7. CASE new \notin S
  <2>1. R \ {new} = S /\ new \in R
    BY <1>2, <1>7
  <2>2. Total(R) = Total(S) + Size[c]
    BY <1>2, <1>3, <2>1, TotalWithout
  <2>3. QED
    BY <1>2, <1>4, <1>5, <2>2
<1>8. QED
  BY <1>6, <1>7

\* What an account uses changes with its rows alone.
LEMMA UsedSame ==
  ASSUME MediaInv, UNCHANGED media, NEW o
  PROVE  Media!Used(o)' = Media!Used(o)
BY UsedIsTotal, UsedThen DEF MediaInv, MediaShape

LEMMA RoomStays ==
  ASSUME MediaInv, QuotaInv, UNCHANGED media, overlap \subseteq overlap',
         \A t \in Tabs : put'[t].owner = None
                         \/ (put'[t].owner = put[t].owner /\ put'[t].content = put[t].content)
  PROVE  QuotaInv'
<1>1. SUFFICES ASSUME NEW o \in Owners \ overlap' PROVE Room(o)'
  BY DEF QuotaInv
<1>2. Room(o) /\ o # None
  BY <1>1, MediaAssumption DEF QuotaInv
<1>3. Media!Used(o)' = Media!Used(o)
  BY UsedSame
<1>4. QED
  BY <1>2, <1>3 DEF Room

LEMMA BeginKeepsQuota ==
  ASSUME MediaInv, QuotaInv, NEW t \in Tabs, NEW p \in Owners, NEW c \in Contents, Media!Begin(t, p, c)
  PROVE  QuotaInv'
<1> DEFINE q == [pc |-> "stat", owner |-> p, content |-> c]
<1>1. /\ put' = [put EXCEPT ![t] = q] /\ UNCHANGED media
      /\ put[t].owner = None
      /\ overlap' = IF \E u \in Tabs : put[u].owner = p THEN overlap \cup {p} ELSE overlap
      /\ Media!Used(p) + Size[c] <= Quota
  BY NoPutFits DEF Media!Begin, Media!Fits
<1>2. q.owner = p /\ q.content = c /\ put'[t] = q /\ \A u \in Tabs : u # t => put'[u] = put[u]
  BY <1>1 DEF MediaInv, MediaShape
<1> HIDE DEF q
<1>3. SUFFICES ASSUME NEW o \in Owners \ overlap' PROVE Room(o)'
  BY DEF QuotaInv
<1>4. Room(o) /\ o \notin overlap
  BY <1>1, <1>3 DEF QuotaInv
<1>5. Media!Used(o)' = Media!Used(o)
  BY <1>1, UsedSame
<1>6. CASE o = p
  <2>1. \A u \in Tabs : put[u].owner # p
    BY <1>1, <1>3, <1>6
  <2>2. \A u \in Tabs : put'[u].owner = o => u = t
    BY <1>2, <1>6, <2>1
  <2>3. QED
    BY <1>1, <1>2, <1>4, <1>5, <1>6, <2>2 DEF Room
<1>7. CASE o # p
  <2>1. \A u \in Tabs : put'[u].owner = o => u # t /\ put'[u] = put[u]
    BY <1>2, <1>7
  <2>2. QED
    BY <1>4, <1>5, <2>1 DEF Room
<1>8. QED
  BY <1>6, <1>7

LEMMA RowKeepsQuota ==
  ASSUME MediaInv, MediaInv', QuotaInv, NEW t \in Tabs, Media!Record(t)
  PROVE  QuotaInv'
<1>1. PICK p, c : p = put[t].owner /\ c = put[t].content
  OBVIOUS
<1>2. /\ media' = media \cup {[owner |-> p, content |-> c]} /\ UNCHANGED overlap
      /\ put[t].pc = "row" /\ put' = [put EXCEPT ![t] = Media!NoPut]
  BY <1>1 DEF Media!Record
<1>3. p \in Uploading /\ c \in Contents
  BY <1>1, <1>2, NoPutFits DEF MediaInv, MediaShape
<1>4. put'[t].owner = None /\ \A u \in Tabs : u # t => put'[u] = put[u]
  BY <1>2, EndsPut, NoPutFits
<1>5. Media!Used(p)' <= Media!Used(p) + Size[c] /\ \A o : o # p => Media!Used(o)' = Media!Used(o)
  BY <1>2, <1>3, UsedMore
<1>6. SUFFICES ASSUME NEW o \in Owners \ overlap PROVE Room(o)'
  BY <1>2 DEF QuotaInv
<1>7. Room(o) /\ o # None
  BY MediaAssumption DEF QuotaInv
<1>8. CASE o = p
  <2>1. \A u \in Tabs : put'[u].owner # o
    BY <1>1, <1>4, <1>7, <1>8 DEF Room
  <2>2. Media!Used(o) + Size[c] <= Quota
    BY <1>1, <1>7, <1>8 DEF Room
  <2>3. Media!Used(o)' \in Nat /\ Media!Used(o) \in Nat /\ Size[c] \in Nat /\ Quota \in Nat
    <3>1. media' \subseteq File /\ IsFiniteSet(media')
      BY DEF MediaInv, MediaShape
    <3> DEFINE R == {m \in media' : m.owner = o}
    <3>2. IsFiniteSet(R) /\ \A x \in R : Weight(x) \in Nat
      BY <3>1, FS_Subset, MediaAssumption DEF File, Weight
    <3>3. Media!Used(o)' = Total(R)
      BY <3>1, UsedThen
    <3> HIDE DEF R
    <3>4. Media!Used(o)' \in Nat
      BY <3>2, <3>3, TotalNat
    <3>5. QED
      BY <1>3, <3>4, UsedNat, MediaAssumption
  <2>4. QED
    BY <1>5, <1>8, <2>1, <2>2, <2>3 DEF Room
<1>9. CASE o # p
  BY <1>4, <1>5, <1>7, <1>9 DEF Room
<1>10. QED
  BY <1>8, <1>9

LEMMA QuotaStarts ==
  ASSUME Media!Init
  PROVE  QuotaInv
<1>1. SUFFICES ASSUME NEW o \in Owners PROVE Room(o)
  BY DEF QuotaInv
<1>2. \A t \in Tabs : put[t].owner # o
  BY NoPutFits, MediaAssumption DEF Media!Init
<1>3. Media!Used(o) = 0
  <2>1. media = {} /\ IsFiniteSet(media)
    BY FS_EmptySet DEF Media!Init
  <2>2. {m \in media : m.owner = o} = {}
    BY <2>1
  <2>3. QED
    BY <2>1, <2>2, UsedIsTotal, TotalIs
<1>4. QED
  BY <1>2, <1>3, MediaAssumption DEF Room

LEMMA QuotaStep ==
  ASSUME MediaInv, QuotaInv, [Media!Next]_Media!vars
  PROVE  QuotaInv'
<1>1. MediaInv'
  BY UploadsKeep, MediaUploads
<1>2. put \in [Tabs -> Put]
  BY DEF MediaInv, MediaShape
<1>3. ASSUME NEW t \in Tabs, Media!Stat(t) \/ Media!OpenFile(t) \/ Media!WriteFile(t) PROVE QuotaInv'
  <2>1. PICK pc \in {"stat", "open", "write", "row"} : Media!Go(t, pc)
    BY <1>3 DEF Media!Stat, Media!OpenFile, Media!WriteFile
  <2>2. UNCHANGED <<media, overlap>> /\ put[t].pc # "idle"
    BY <1>3 DEF Media!Stat, Media!OpenFile, Media!WriteFile
  <2>3. QED
    BY <2>1, <2>2, GoesTo, RoomStays
<1>4. ASSUME NEW t \in Tabs, Media!Break(t) PROVE QuotaInv'
  BY <1>4, EndsPut, NoPutFits, RoomStays DEF Media!Break
<1>5. CASE UNCHANGED Media!vars \/ \E o \in Owners, m \in media : Media!Attach(o, m)
  BY <1>5, RoomStays DEF Media!vars, Media!Attach
<1>6. QED
  BY <1>1, <1>3, <1>4, <1>5, BeginKeepsQuota, RowKeepsQuota DEF Media!Next

-----------------------------------------------------------------------------
(* Backup *)

Copies == [Contents -> State]
Database == [state : State, rows : SUBSET File]
Manifest == [there : BOOLEAN, db : Database, files : Copies]
Directory == [db : Database, files : Copies, manifest : Manifest]
Taking == [pc : {"idle", "vacuum", "media", "copy"}, db : Database, must : SUBSET Contents, listed : Copies,
           file : Contents \cup {None}]
Restored == [pc : {"none", "media", "done"}, rows : SUBSET File, files : Copies]

BackupShape ==
  /\ dir \in Directory /\ taker \in [Takers -> Taking] /\ restored \in Restored
  /\ \A k \in Takers : taker[k].pc = "copy" => taker[k].file \in Contents

\* The rows of a snapshot were there, and what lists one of their files lists it whole, unless it ever was not.
Promised(rows, files) == \A m \in rows : files[m.content] = "whole" \/ m.content \in unready

\* A walk begins with an empty list and comes to every file of its snapshot.
Walks(q) ==
  /\ q.pc \in {"idle", "vacuum"} => q.listed = Backup!NoFiles
  /\ q.pc \in {"media", "copy"} =>
       /\ q.db.rows \subseteq media
       /\ \A m \in q.db.rows : /\ m.content \in q.must
                               /\ q.listed[m.content] # "none" =>
                                    q.listed[m.content] = "whole" \/ m.content \in unready

\* What verified stays as it is until it is restored.
Verified == restored.pc = "media" =>
  /\ \A k \in Takers : taker[k].pc = "idle"
  /\ Promised(restored.rows, dir.manifest.files) /\ Promised(restored.rows, dir.files)

BackupInv ==
  /\ BackupShape
  /\ \A k \in Takers : Walks(taker[k])
  /\ Promised(dir.manifest.db.rows, dir.manifest.files)
  /\ Verified /\ Backup!Restorable

LEMMA Nothing ==
  /\ Backup!NoFiles \in Copies /\ Backup!NoDatabase \in Database /\ Backup!NoDatabase.rows = {}
  /\ Backup!NoManifest \in Manifest /\ Backup!NoManifest.db.rows = {}
  /\ Backup!NoTake \in Taking /\ Backup!NoTake.pc = "idle" /\ Backup!NoTake.listed = Backup!NoFiles
  /\ Backup!NotRestored \in Restored /\ Backup!NotRestored.pc = "none"
<1>1. Backup!NoFiles \in Copies
  BY DEF Backup!NoFiles, Copies, State
<1>2. Backup!NoDatabase \in Database /\ Backup!NoDatabase.rows = {}
  BY DEF Backup!NoDatabase, Database, State
<1>3. Backup!NoManifest \in Manifest /\ Backup!NoManifest.db.rows = {}
  BY <1>1, <1>2 DEF Backup!NoManifest, Manifest
<1>4. Backup!NoTake \in Taking /\ Backup!NoTake.pc = "idle" /\ Backup!NoTake.listed = Backup!NoFiles
  BY <1>1, <1>2 DEF Backup!NoTake, Taking
<1>5. Backup!NotRestored \in Restored /\ Backup!NotRestored.pc = "none"
  BY <1>1 DEF Backup!NotRestored, Restored
<1>6. QED
  BY <1>1, <1>2, <1>3, <1>4, <1>5

LEMMA BackupStarts ==
  ASSUME Backup!BackupInit
  PROVE  MediaInv /\ BackupInv
<1>1. Media!Init
  BY DEF Backup!BackupInit, Backup!Init, Media!Init, Backup!NoPut, Media!NoPut
<1>2. dir \in Directory /\ dir.manifest = Backup!NoManifest
  <2> DEFINE d == [db |-> Backup!NoDatabase, files |-> Backup!NoFiles, manifest |-> Backup!NoManifest]
  <2>1. d \in Directory /\ d.manifest = Backup!NoManifest
    BY Nothing DEF Directory
  <2>2. QED
    BY <2>1 DEF Backup!BackupInit
<1>3. taker = [k \in Takers |-> Backup!NoTake] /\ restored = Backup!NotRestored
  BY DEF Backup!BackupInit
<1>4. BackupInv
  BY <1>2, <1>3, Nothing DEF BackupInv, BackupShape, Promised, Walks, Verified, Backup!Restorable
<1>5. QED
  BY <1>1, <1>4, MediaStarts

\* Uploads take nothing away from a backup.
LEMMA UploadsHarmless ==
  ASSUME BackupInv, Grows, UNCHANGED <<dir, taker, restored>>
  PROVE  BackupInv'
BY DEF BackupInv, BackupShape, Promised, Walks, Verified, Backup!Restorable, Grows

\* A step of one taker, that leaves the manifest alone or replaces it by one as good.
LEMMA OneTaker ==
  ASSUME BackupInv, NEW k \in Takers, NEW q \in Taking, taker' = [taker EXCEPT ![k] = q],
         UNCHANGED <<disk, media, unready, restored>>, restored.pc # "media", dir' \in Directory,
         q.pc = "copy" => q.file \in Contents,
         Walks(q),
         Promised(dir'.manifest.db.rows, dir'.manifest.files)
  PROVE  BackupInv'
<1>1. taker'[k] = q /\ taker' \in [Takers -> Taking] /\ \A j \in Takers : j # k => taker'[j] = taker[j]
  BY DEF BackupInv, BackupShape
<1>2. BackupShape'
  BY <1>1 DEF BackupInv, BackupShape
<1>3. \A j \in Takers : Walks(taker[j])'
  BY <1>1 DEF BackupInv, Walks
<1>4. Promised(dir.manifest.db.rows, dir.manifest.files)'
  BY DEF Promised
<1>5. Verified' /\ Backup!Restorable'
  BY DEF BackupInv, Verified, Backup!Restorable
<1>6. QED
  BY <1>2, <1>3, <1>4, <1>5 DEF BackupInv

\* While a taker is at work nothing is restored.
LEMMA NoRestore ==
  ASSUME BackupInv, NEW k \in Takers, taker[k].pc # "idle"
  PROVE  restored.pc # "media"
BY DEF BackupInv, Verified

LEMMA TakeKeeps ==
  ASSUME BackupInv, NEW k \in Takers, Backup!Take(k)
  PROVE  BackupInv'
<1> DEFINE q == [taker[k] EXCEPT !.pc = "vacuum"]
           d == [dir EXCEPT !.db = Backup!NoDatabase]
<1>1. q \in Taking /\ q.pc = "vacuum" /\ q.listed = Backup!NoFiles
  BY DEF Backup!Take, Walks, BackupInv, BackupShape, Taking
<1>2. d \in Directory /\ d.manifest = dir.manifest
  BY Nothing DEF BackupInv, BackupShape, Directory
<1>3. taker' = [taker EXCEPT ![k] = q] /\ dir' = d /\ UNCHANGED <<disk, media, unready, restored>>
  BY DEF Backup!Take, Backup!vars, BackupInv, BackupShape
<1>4. restored.pc # "media"
  BY DEF Backup!Take
<1> HIDE DEF q, d
<1>5. Walks(q) /\ Promised(dir'.manifest.db.rows, dir'.manifest.files)
  BY <1>1, <1>2, <1>3 DEF Walks, BackupInv
<1>6. QED
  BY <1>1, <1>2, <1>3, <1>4, <1>5, OneTaker

\* A row of the moment has its file among those the walk comes to.
LEMMA VacuumKeeps ==
  ASSUME MediaInv, BackupInv, NEW k \in Takers, Backup!Vacuum(k)
  PROVE  BackupInv'
<1> DEFINE b == [state |-> "whole", rows |-> media]
           p == [taker[k] EXCEPT !.pc = "media"]
           pm == [p EXCEPT !.must = Backup!Present]
           q == [pm EXCEPT !.db = b]
           d == [dir EXCEPT !.db = b]
<1>1. b \in Database /\ b.rows = media
  BY DEF Database, State, MediaInv, MediaShape
<1>2. taker' = [taker EXCEPT ![k] = q] /\ dir' = d /\ UNCHANGED <<disk, media, unready, restored>>
  BY DEF Backup!Vacuum, Backup!vars, BackupInv, BackupShape
<1> HIDE DEF b
<1>3. p \in Taking /\ p.pc = "media" /\ p.listed = Backup!NoFiles /\ Backup!Present \in SUBSET Contents
  BY DEF BackupInv, BackupShape, Taking, Backup!Present, Backup!Vacuum, Walks
<1> HIDE DEF p
<1>4. pm \in Taking /\ pm.pc = "media" /\ pm.must = Backup!Present /\ pm.listed = Backup!NoFiles
  BY <1>3 DEF Taking
<1> HIDE DEF pm
<1>5. q \in Taking /\ q.pc = "media" /\ q.must = Backup!Present /\ q.db.rows = media /\ q.listed = Backup!NoFiles
  BY <1>1, <1>4 DEF Taking
<1>6. d \in Directory /\ d.manifest = dir.manifest
  BY <1>1 DEF BackupInv, BackupShape, Directory
<1>7. restored.pc # "media"
  BY NoRestore DEF Backup!Vacuum
<1> HIDE DEF q, d
<1>8. \A m \in media : m.content \in Backup!Present /\ m.content \in Contents
  BY DEF MediaInv, MediaShape, Backed, File, Backup!Present
<1>9. Walks(q)
  BY <1>5, <1>8 DEF Walks, Backup!NoFiles
<1>10. Promised(dir'.manifest.db.rows, dir'.manifest.files)
  BY <1>2, <1>6 DEF BackupInv
<1>11. QED
  BY <1>2, <1>5, <1>6, <1>7, <1>9, <1>10, OneTaker

LEMMA VisitKeeps ==
  ASSUME MediaInv, BackupInv, NEW k \in Takers, NEW c \in Contents, Backup!Visit(k, c)
  PROVE  BackupInv'
<1> DEFINE p == [taker[k] EXCEPT !.listed[c] = disk[c]]
           pm == [p EXCEPT !.pc = "copy"]
           q == [pm EXCEPT !.file = c]
           d == [dir EXCEPT !.files[c] = "none"]
<1>1. /\ UNCHANGED <<disk, media, unready, restored>> /\ taker[k].pc = "media" /\ disk[c] # "none"
      /\ \/ taker' = [taker EXCEPT ![k] = p] /\ dir' = dir
         \/ taker' = [taker EXCEPT ![k] = q] /\ dir' = d
  BY DEF Backup!Visit, Backup!Described, Backup!vars, BackupInv, BackupShape
<1>2. taker[k] \in Taking /\ Walks(taker[k]) /\ disk[c] \in State
  BY DEF BackupInv, BackupShape, MediaInv, MediaShape
<1>3. /\ p \in Taking /\ p.pc = "media" /\ p.db = taker[k].db /\ p.must = taker[k].must
      /\ p.listed[c] = disk[c] /\ \A b \in Contents : b # c => p.listed[b] = taker[k].listed[b]
  BY <1>1, <1>2 DEF Taking, Copies
<1>4. dir \in Directory /\ d \in Directory /\ d.manifest = dir.manifest
  BY DEF BackupInv, BackupShape, Directory, Copies, State
<1> HIDE DEF p, d
<1>5. pm \in Taking /\ pm.pc = "copy" /\ pm.db = p.db /\ pm.must = p.must /\ pm.listed = p.listed
  BY <1>3 DEF Taking
<1> HIDE DEF pm
<1>6. q \in Taking /\ q.pc = "copy" /\ q.db = p.db /\ q.must = p.must /\ q.listed = p.listed /\ q.file = c
  BY <1>5 DEF Taking
<1> HIDE DEF q
<1>7. Walks(p)
  <2>1. p.db.rows \subseteq media
    BY <1>1, <1>2, <1>3 DEF Walks
  <2>2. ASSUME NEW m \in p.db.rows
        PROVE  /\ m.content \in p.must
               /\ p.listed[m.content] # "none" => p.listed[m.content] = "whole" \/ m.content \in unready
    <3>1. m \in taker[k].db.rows /\ m \in media /\ m.content \in Contents
      BY <1>3, <2>1, <2>2 DEF MediaInv, MediaShape, File
    <3>2. CASE m.content = c
      BY <1>1, <1>2, <1>3, <3>1, <3>2 DEF Walks, MediaInv, Backed
    <3>3. CASE m.content # c
      BY <1>1, <1>2, <1>3, <3>1, <3>3 DEF Walks
    <3>4. QED
      BY <3>2, <3>3
  <2>3. QED
    BY <1>3, <2>1, <2>2 DEF Walks
<1>8. Walks(q)
  BY <1>3, <1>6, <1>7 DEF Walks
<1>9. restored.pc # "media"
  BY <1>1, NoRestore
<1>10. Promised(dir'.manifest.db.rows, dir'.manifest.files)
  BY <1>1, <1>4 DEF BackupInv
<1>11. CASE taker' = [taker EXCEPT ![k] = p] /\ dir' = dir
  BY <1>1, <1>3, <1>4, <1>7, <1>9, <1>10, <1>11, OneTaker
<1>12. CASE taker' = [taker EXCEPT ![k] = q] /\ dir' = d
  BY <1>1, <1>4, <1>6, <1>8, <1>9, <1>10, <1>12, OneTaker
<1>13. QED
  BY <1>1, <1>11, <1>12

LEMMA CopyKeeps ==
  ASSUME MediaInv, BackupInv, NEW k \in Takers, Backup!Copy(k)
  PROVE  BackupInv'
<1> DEFINE c == taker[k].file
           p == [taker[k] EXCEPT !.pc = "media"]
           q == [p EXCEPT !.file = None]
           d == [dir EXCEPT !.files[c] = disk[c]]
<1>1. /\ UNCHANGED <<disk, media, unready, restored>> /\ taker[k].pc = "copy"
      /\ taker' = [taker EXCEPT ![k] = q] /\ dir' = d
  BY DEF Backup!Copy, Backup!vars, BackupInv, BackupShape
<1>2. taker[k] \in Taking /\ Walks(taker[k]) /\ c \in Contents /\ disk[c] \in State
  BY <1>1 DEF BackupInv, BackupShape, MediaInv, MediaShape
<1>3. p \in Taking /\ p.pc = "media" /\ p.db = taker[k].db /\ p.must = taker[k].must /\ p.listed = taker[k].listed
  BY <1>2 DEF Taking
<1> HIDE DEF p
<1>4. q \in Taking /\ q.pc = "media" /\ q.db = p.db /\ q.must = p.must /\ q.listed = p.listed
  BY <1>3 DEF Taking
<1>5. d \in Directory /\ d.manifest = dir.manifest
  BY <1>2 DEF BackupInv, BackupShape, Directory, Copies
<1> HIDE DEF q, d
<1>6. Walks(q)
  BY <1>1, <1>2, <1>3, <1>4 DEF Walks
<1>7. restored.pc # "media"
  BY <1>1, NoRestore
<1>8. Promised(dir'.manifest.db.rows, dir'.manifest.files)
  BY <1>1, <1>5 DEF BackupInv
<1>9. QED
  BY <1>1, <1>4, <1>5, <1>6, <1>7, <1>8, OneTaker

\* A manifest has a whole copy of every file its database names.
LEMMA ManifestKeeps ==
  ASSUME BackupInv, NEW k \in Takers, Backup!WriteManifest(k)
  PROVE  BackupInv'
<1> DEFINE n == [there |-> TRUE, db |-> taker[k].db, files |-> taker[k].listed]
           d == [dir EXCEPT !.manifest = n]
<1>1. /\ UNCHANGED <<disk, media, unready, restored>> /\ taker[k].pc = "media"
      /\ taker' = [taker EXCEPT ![k] = Backup!NoTake] /\ dir' = d
      /\ \A c \in taker[k].must : taker[k].listed[c] # "none"
  BY DEF Backup!WriteManifest, Backup!vars
<1>2. taker[k] \in Taking /\ Walks(taker[k])
  BY DEF BackupInv, BackupShape
<1>3. n \in Manifest /\ n.db = taker[k].db /\ n.files = taker[k].listed
  BY <1>2 DEF Taking, Manifest
<1> HIDE DEF n
<1>4. d \in Directory /\ d.manifest = n
  BY <1>3 DEF BackupInv, BackupShape, Directory
<1> HIDE DEF d
<1>5. Promised(dir'.manifest.db.rows, dir'.manifest.files)
  BY <1>1, <1>2, <1>3, <1>4 DEF Walks, Promised
<1>6. Walks(Backup!NoTake)
  BY Nothing DEF Walks
<1>7. restored.pc # "media"
  BY <1>1, NoRestore
<1>8. QED
  BY <1>1, <1>4, <1>5, <1>6, <1>7, Nothing, OneTaker

LEMMA AbortKeeps ==
  ASSUME BackupInv, NEW k \in Takers, Backup!Abort(k)
  PROVE  BackupInv'
<1>1. /\ UNCHANGED <<disk, media, unready, restored>> /\ taker[k].pc # "idle"
      /\ taker' = [taker EXCEPT ![k] = Backup!NoTake]
  BY DEF Backup!Abort, Backup!vars
<1>2. dir' \in Directory /\ (dir'.manifest = dir.manifest \/ dir'.manifest = Backup!NoManifest)
  <2>1. dir \in Directory
    BY DEF BackupInv, BackupShape
  <2>2. CASE dir' = dir
    BY <2>1, <2>2
  <2>3. CASE dir' = [dir EXCEPT !.db.state = "partial"]
    BY <2>1, <2>3 DEF Directory, Database, State
  <2>4. CASE taker[k].pc = "copy" /\ dir' = [dir EXCEPT !.files[taker[k].file] = "partial"]
    BY <2>1, <2>4 DEF Directory, Copies, State
  <2>5. CASE dir' = [dir EXCEPT !.manifest = Backup!NoManifest]
    BY <2>1, <2>5, Nothing DEF Directory
  <2>6. QED
    BY <2>2, <2>3, <2>4, <2>5 DEF Backup!Abort
<1>3. Promised(dir'.manifest.db.rows, dir'.manifest.files)
  BY <1>2, Nothing DEF BackupInv, Promised
<1>4. Walks(Backup!NoTake)
  BY Nothing DEF Walks
<1>5. restored.pc # "media"
  BY <1>1, NoRestore
<1>6. QED
  BY <1>1, <1>2, <1>3, <1>4, <1>5, Nothing, OneTaker

\* A directory that verifies has what its manifest lists.
LEMMA RestoreDatabaseKeeps ==
  ASSUME BackupInv, Backup!RestoreDatabase
  PROVE  BackupInv'
<1> DEFINE p == [restored EXCEPT !.pc = "media"]
           q == [p EXCEPT !.rows = dir.db.rows]
<1>1. /\ UNCHANGED <<unready, media, dir, taker>> /\ restored' = q
      /\ \A k \in Takers : taker[k].pc = "idle"
      /\ dir.db = dir.manifest.db
      /\ \A c \in Contents : dir.manifest.files[c] # "none" => dir.files[c] = dir.manifest.files[c]
  BY DEF Backup!RestoreDatabase, Backup!vars, Backup!Verify, BackupInv, BackupShape
<1>2. dir.db.rows \in SUBSET File /\ restored \in Restored
  BY DEF BackupInv, BackupShape, Directory, Database
<1>3. p \in Restored /\ p.pc = "media"
  BY <1>2 DEF Restored
<1> HIDE DEF p
<1>4. q \in Restored /\ q.pc = "media" /\ q.rows = dir.db.rows
  BY <1>2, <1>3 DEF Restored
<1> HIDE DEF q
<1>5. Promised(dir.db.rows, dir.manifest.files)
  BY <1>1 DEF BackupInv
<1>6. Promised(dir.db.rows, dir.files)
  BY <1>1, <1>2, <1>5 DEF Promised, File
<1>7. Verified' /\ Backup!Restorable'
  BY <1>1, <1>4, <1>5, <1>6 DEF Verified, Promised, Backup!Restorable
<1>8. QED
  BY <1>1, <1>4, <1>7 DEF BackupInv, BackupShape, Walks, Promised

LEMMA RestoreMediaKeeps ==
  ASSUME BackupInv, Backup!RestoreMedia
  PROVE  BackupInv'
<1> DEFINE f == [c \in Contents |-> IF dir.manifest.files[c] = "none" THEN "none" ELSE dir.files[c]]
           p == [restored EXCEPT !.pc = "done"]
           q == [p EXCEPT !.files = f]
<1>1. UNCHANGED <<unready, media, dir, taker>> /\ restored' = q /\ restored.pc = "media"
  BY DEF Backup!RestoreMedia, Backup!vars, BackupInv, BackupShape
<1>2. dir \in Directory /\ restored \in Restored
  BY DEF BackupInv, BackupShape
<1>3. f \in Copies /\ \A c \in Contents : f[c] = IF dir.manifest.files[c] = "none" THEN "none" ELSE dir.files[c]
  BY <1>2 DEF Directory, Copies, State
<1>4. p \in Restored /\ p.pc = "done" /\ p.rows = restored.rows
  BY <1>2 DEF Restored
<1> HIDE DEF f, p
<1>5. q \in Restored /\ q.pc = "done" /\ q.rows = restored.rows /\ q.files = f
  BY <1>3, <1>4 DEF Restored
<1> HIDE DEF q
<1>6. Promised(restored.rows, f)
  BY <1>1, <1>2, <1>3 DEF BackupInv, Verified, Promised, Restored, File
<1>7. Verified' /\ Backup!Restorable'
  BY <1>1, <1>5, <1>6 DEF Verified, Promised, Backup!Restorable
<1>8. QED
  BY <1>1, <1>5, <1>7 DEF BackupInv, BackupShape, Walks, Promised

LEMMA BackupStep ==
  ASSUME MediaInv, BackupInv, [Backup!BackupNext]_Backup!all
  PROVE  MediaInv' /\ BackupInv'
<1>1. CASE UNCHANGED Backup!all \/ (Backup!Next /\ UNCHANGED <<dir, taker, restored, takes>>)
  <2>1. Uploads \/ UNCHANGED Media!vars
    BY <1>1, BackupUploading DEF Backup!all, Backup!vars, Media!vars
  <2>2. UNCHANGED <<dir, taker, restored>>
    BY <1>1 DEF Backup!all
  <2>3. QED
    BY <2>1, <2>2, UploadsKeep, UploadsHarmless
<1>2. CASE \E k \in Takers : \/ Backup!Take(k) \/ Backup!Vacuum(k) \/ Backup!Copy(k) \/ Backup!WriteManifest(k)
                             \/ Backup!Abort(k) \/ \E c \in Contents : Backup!Visit(k, c)
  <2>1. BackupInv'
    BY <1>2, TakeKeeps, VacuumKeeps, CopyKeeps, ManifestKeeps, AbortKeeps, VisitKeeps
  <2>2. UNCHANGED Media!vars
    BY <1>2 DEF Backup!Take, Backup!Vacuum, Backup!Copy, Backup!WriteManifest, Backup!Abort, Backup!Visit,
                Backup!vars, Media!vars
  <2>3. QED
    BY <2>1, <2>2, UploadsKeep
<1>3. CASE Backup!RestoreDatabase \/ Backup!RestoreMedia
  <2>1. BackupInv'
    BY <1>3, RestoreDatabaseKeeps, RestoreMediaKeeps
  <2>2. UNCHANGED Media!vars
    BY <1>3 DEF Backup!RestoreDatabase, Backup!RestoreMedia, Backup!vars, Media!vars
  <2>3. QED
    BY <2>1, <2>2, UploadsKeep
<1>4. QED
  BY <1>1, <1>2, <1>3 DEF Backup!BackupNext

LEMMA BackupWhole ==
  ASSUME MediaInv
  PROVE  Backup!Whole
BY InvWhole DEF Backup!Whole, Media!Whole, Backup!Served, Media!Served, Backup!AnyBySHA, Media!AnyBySHA,
                Backup!Opens, Media!Opens, Backup!Writers, Media!Writers

-----------------------------------------------------------------------------
(* The parts together *)

RecordsInv ==
  /\ part = "sessions" => Over
  /\ part = "sites" => SitesInv
  /\ part = "moderation" => ModerationInv
  /\ part = "mentions" => MentionsInv
  /\ part = "reading" => ReadingInv
  /\ part = "media" => MediaInv /\ QuotaInv
  /\ part = "backup" => MediaInv /\ BackupInv

LEMMA RecordsInit ==
  ASSUME Init
  PROVE  RecordsInv
<1>1. Sessions!Init => Over
  BY DEF Sessions!Init, Over, Sessions!Idle
<1>2. QED
  BY <1>1, SitesInit, ModerationInit, MentionsInit, ReadingInit, MediaStarts, QuotaStarts, BackupStarts
    DEF Init, RecordsInv

\* A step of the instance is one of the part it works as.
LEMMA OfRecord ==
  ASSUME [Next]_all
  PROVE  /\ part' = part
         /\ part = "sites" => [Sites!Next]_Sites!vars
         /\ part = "moderation" => [Moderation!Next]_Moderation!vars
         /\ part = "mentions" => [Mentions!Next]_Mentions!vars
         /\ part = "reading" => [Reading!Next]_Reading!vars
         /\ part = "media" => [Media!Next]_Media!vars
         /\ part = "backup" => [Backup!BackupNext]_Backup!all
<1>1. CASE Next
  BY <1>1 DEF Next
<1>2. CASE UNCHANGED all
  BY <1>2 DEF all, OfSites, OfModeration, OfMentions, OfReading, OfMedia, OfBackup, Sites!vars, Moderation!vars,
    Mentions!vars, Reading!vars, Media!vars, Backup!vars, Backup!all
<1>3. QED
  BY <1>1, <1>2

LEMMA RecordsStep ==
  ASSUME AccountsInv, RecordsInv, [Next]_all
  PROVE  RecordsInv'
<1>1. part' = part
  BY OfRecord
<1>2. CASE part = "sessions"
  BY <1>1, <1>2, OfPart, OverKeeps DEF AccountsInv, RecordsInv
<1>3. CASE part = "sites"
  BY <1>1, <1>3, OfRecord, SitesStep DEF RecordsInv
<1>4. CASE part = "moderation"
  BY <1>1, <1>4, OfRecord, ModerationStep DEF RecordsInv
<1>5. CASE part = "mentions"
  BY <1>1, <1>5, OfRecord, MentionsStep DEF RecordsInv
<1>6. CASE part = "reading"
  BY <1>1, <1>6, OfRecord, ReadingStep DEF RecordsInv
<1>7. CASE part = "media"
  BY <1>1, <1>7, OfRecord, MediaUploads, UploadsKeep, QuotaStep DEF RecordsInv
<1>8. CASE part = "backup"
  BY <1>1, <1>8, OfRecord, BackupStep DEF RecordsInv
<1>9. QED
  BY <1>1, <1>2, <1>3, <1>4, <1>5, <1>6, <1>7, <1>8 DEF RecordsInv

LEMMA RecordsAlways == Spec => []RecordsInv
<1>1. Init => RecordsInv
  BY RecordsInit
<1>2. AccountsInv /\ RecordsInv /\ [Next]_all => RecordsInv'
  BY RecordsStep
<1>3. QED
  BY <1>1, <1>2, AccountsAlways, PTL DEF Spec

\* A site has one account, and one that shows as verified was seen to link back
\* to it (internal/indieweb/sites.go).
THEOREM ClaimsHold == Spec => []Claims
<1>1. RecordsInv => Claims
  BY DEF RecordsInv, SitesInv, Claims
<1>2. QED
  BY <1>1, RecordsAlways, PTL

\* The log agrees with the tables it is about: every block in force is logged,
\* and every decision once, unless a request was cut off before it logged
\* (internal/moderation).
THEOREM LogAgrees == Spec => []Audited
<1>1. RecordsInv => Audited
  BY InvAudited DEF RecordsInv, Audited
<1>2. QED
  BY <1>1, RecordsAlways, PTL

\* No notification of a mention is forgotten: while it waits to be verified it
\* has a job, live or dead, or its handler failed (internal/webmention,
\* internal/web/delivery.go).
THEOREM MentionsWait == Spec => []Unforgotten
<1>1. RecordsInv => Unforgotten
  BY InvTypes DEF RecordsInv, MentionsInv, Unforgotten
<1>2. QED
  BY <1>1, RecordsAlways, PTL

\* A moderator's decision on a mention stands, unless a verification was under
\* way, and nothing shows that was never seen to link (internal/webmention).
THEOREM DecisionsStand == Spec => []DecisionStands
<1>1. RecordsInv => DecisionStands
  BY InvDecided DEF RecordsInv, DecisionStands
<1>2. QED
  BY <1>1, RecordsAlways, PTL

\* The row of a mention we send agrees with the ledger once nobody is at work on
\* it, unless a statement of the last attempt failed (internal/webmention,
\* internal/web/delivery.go, internal/ledger).
THEOREM JourneysAgree == Spec => []JourneyAgrees
<1>1. RecordsInv => JourneyAgrees
  BY DEF RecordsInv, MentionsInv, JourneyAgrees
<1>2. QED
  BY <1>1, RecordsAlways, PTL

\* A reader who follows the links to the end has seen every item that was in the
\* view all the while, unless a page ended unevenly (internal/web/reading.go,
\* internal/ingest/timeline.go).
THEOREM AllSeen == Spec => []SeesAll
<1>1. RecordsInv => SeesAll
  BY DEF RecordsInv, ReadingInv, SeesAll
<1>2. QED
  BY <1>1, RecordsAlways, PTL

\* An account whose uploads do not overlap stays within its quota, the file
\* behind a row is there and whole unless a writing was cut off, a post shows
\* its author's files, and a backup that verifies restores every file its
\* database names (internal/media, internal/backup).
THEOREM FilesStay == Spec => []Files
<1>1. MediaInv /\ QuotaInv => Media!QuotaKept /\ Media!OwnFiles
  BY DEF MediaInv, QuotaInv, Room, Media!QuotaKept
<1>2. RecordsInv => Files
  BY <1>1, InvWhole, BackupWhole DEF RecordsInv, BackupInv, Files
<1>3. QED
  BY <1>2, RecordsAlways, PTL

\* The cookie of a live session, a site and a block change only by requests of
\* whoever they belong to (internal/web).
THEOREM OthersKeepOff == Spec => OwnHands
<1>1. AccountsInv /\ RecordsInv /\ [Next]_all =>
        [/\ part = "sessions" => Sessions!CookieKept
         /\ part = "sites" => Sites!OwnersOnly
         /\ part = "moderation" => Moderation!OnlyTheirs]_all
  BY OfPart, OfRecord, CookiesStay, SitesKept, BlocksKept DEF AccountsInv, RecordsInv
<1>2. QED
  BY <1>1, AccountsAlways, RecordsAlways, PTL DEF Spec, OwnHands

=============================================================================
