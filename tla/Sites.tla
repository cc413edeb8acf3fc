------------------------------- MODULE Sites --------------------------------
(***************************************************************************)
(* The sites an account proves to be its own: internal/indieweb/sites.go   *)
(* and the handlers of internal/web/sites.go.                              *)
(*                                                                         *)
(* A claim, a verification and a release each read before they write, and  *)
(* a verification reads the site itself in between.  The identity of a row *)
(* is one more than the largest there is, so the one of a row that is gone *)
(* may come back.  What the owner is told about a failure is left out.     *)
(***************************************************************************)
EXTENDS Naturals, FiniteSets

CONSTANTS
  Tabs,        \* requests
  Owners,      \* accounts
  Hosts,       \* sites
  None,
  MaxEdits, MaxRows, MaxRequests   \* bounds

VARIABLES
  site,     \* table site
  links,    \* the profiles each site links to
  asks,     \* the requests
  witness,  \* which site was seen to link to which profile (history)
  mixed,    \* identities whose row changed under a request (history)
  edits, requests

vars == <<site, links, asks, witness, mixed, edits, requests>>

NoAsk == [pc |-> "idle", owner |-> None, id |-> 0, host |-> None, saw |-> FALSE]

Row(id) == {s \in site : s.id = id}
NextId == 1 + Cardinality({n \in 1..MaxRows : \E s \in site : s.id >= n})

Start(t, ask) ==
  /\ asks[t] = NoAsk /\ requests < MaxRequests /\ requests' = requests + 1
  /\ asks' = [asks EXCEPT ![t] = ask]

Finish(t) == asks' = [asks EXCEPT ![t] = NoAsk]

\* Rows that go away under requests that know them by their identity.
Mixed(t, gone) ==
  mixed' = mixed \cup {asks[u].id : u \in {v \in Tabs \ {t} : \E s \in gone : s.id = asks[v].id}}

-----------------------------------------------------------------------------

\* Claim: nobody has the host yet ...
Claim(t, o, h) ==
  /\ \A s \in site : s.host # h
  /\ Start(t, [NoAsk EXCEPT !.pc = "claim", !.owner = o, !.host = h])
  /\ UNCHANGED <<site, links, witness, mixed, edits>>

\* The unique index on the host.
Free(h) == \A s \in site : s.host # h

\* ... and the insertion decides who has it.
Insert(t) ==
  /\ asks[t].pc = "claim" /\ NextId <= MaxRows /\ Finish(t)
  /\ site' = IF Free(asks[t].host)
             THEN site \cup {[id |-> NextId, owner |-> asks[t].owner, host |-> asks[t].host, verified |-> FALSE]}
             ELSE site
  /\ UNCHANGED <<links, witness, mixed, edits, requests>>

Own(o, id) == {s \in Row(id) : s.owner = o}

\* verifySite and releaseSite look the row up and ask whose it is.
Lookup(t, o, id, pc) ==
  /\ \E s \in Own(o, id) : Start(t, [pc |-> pc, owner |-> o, id |-> id, host |-> s.host, saw |-> FALSE])
  /\ UNCHANGED <<site, links, witness, mixed, edits>>

\* Verify reads the page; one that cannot be read counts as one without a link.
Fetch(t) ==
  /\ asks[t].pc = "fetch"
  /\ LET linksBack == asks[t].owner \in links[asks[t].host]
     IN  /\ asks' = [asks EXCEPT ![t].pc = "write", ![t].saw = linksBack]
         /\ witness' = IF linksBack THEN witness \cup {<<asks[t].host, asks[t].owner>>} ELSE witness
  /\ UNCHANGED <<site, links, mixed, edits, requests>>

\* Mutant: a site that was verified once stays so.
RecordSticky(t) ==
  /\ asks[t].pc = "write" /\ Finish(t)
  /\ site' = {IF s.id = asks[t].id THEN [s EXCEPT !.verified = TRUE] ELSE s : s \in site}
  /\ UNCHANGED <<links, witness, mixed, edits, requests>>

\* The end of Verify, and recordCheck.
Record(t) ==
  /\ asks[t].pc = "write" /\ Finish(t)
  /\ site' = {IF s.id = asks[t].id THEN [s EXCEPT !.verified = asks[t].saw] ELSE s : s \in site}
  /\ UNCHANGED <<links, witness, mixed, edits, requests>>

\* Release deletes the row.
Release(t) ==
  /\ asks[t].pc = "release" /\ Finish(t)
  /\ site' = site \ Row(asks[t].id) /\ Mixed(t, Row(asks[t].id))
  /\ UNCHANGED <<links, witness, edits, requests>>

\* Somebody edits a page.
Edit(h, profiles) ==
  /\ links[h] # profiles /\ edits < MaxEdits /\ edits' = edits + 1
  /\ links' = [links EXCEPT ![h] = profiles]
  /\ UNCHANGED <<site, asks, witness, mixed, requests>>

Init ==
  /\ site = {} /\ links = [h \in Hosts |-> {}] /\ asks = [t \in Tabs |-> NoAsk]
  /\ witness = {} /\ mixed = {} /\ edits = 0 /\ requests = 0

Next ==
  \/ \E t \in Tabs :
       \/ \E o \in Owners : \/ \E h \in Hosts : Claim(t, o, h)
                            \/ \E id \in 1..MaxRows, pc \in {"fetch", "release"} : Lookup(t, o, id, pc)
       \/ Insert(t) \/ Fetch(t) \/ Record(t) \/ Release(t)
  \/ \E h \in Hosts, profiles \in SUBSET Owners : Edit(h, profiles)

Spec == Init /\ [][Next]_vars

-----------------------------------------------------------------------------
(* Properties *)

\* One account per site, however the claims interleave.
OneOwner == \A r, s \in site : r.host = s.host => r = s

\* A site that shows as verified was seen to link to the profile of the account
\* that has it, unless its identity was given to another row while a request
\* knew the former one.
VerifiedTrue == \A s \in site : s.verified /\ s.id \notin mixed => <<s.host, s.owner>> \in witness

\* A site is only released, and only stops being verified, at a request of the
\* account that has it, with the same exception.
OwnersOnly ==
  \A s \in site : s \notin site' /\ s.id \notin mixed =>
    \E t \in Tabs : asks[t].id = s.id /\ asks[t].owner = s.owner /\ asks'[t] = NoAsk

=============================================================================
