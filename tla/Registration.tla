---------------------------- MODULE Registration ----------------------------
(***************************************************************************)
(* How accounts come to be: Create and CreateWithInvite of                 *)
(* internal/identity/account.go, the codes of email.go, bootstrap.go, and  *)
(* the handlers submitRegister and inviteForm of internal/web/accounts.go. *)
(*                                                                         *)
(* A form is checked and its password hashed before anything is written,   *)
(* so forms overlap; then one statement (open registration) or one         *)
(* transaction (by invitation) decides.  The unique indices are on the     *)
(* folded address and on the role of the owner.                            *)
(***************************************************************************)
EXTENDS Naturals, FiniteSets

CONSTANTS
  Tabs,
  Emails,        \* folded addresses
  Codes,         \* codes of invitations
  None,
  MaxRestarts    \* bound

VARIABLES
  open,       \* whether registration is open, else it is by invitation
  account,    \* table account; via is the code an account came by (history)
  code,       \* the invitations in table email_token
  form,       \* the registrations under way
  mailed,     \* addresses that were sent a link to confirm them
  restarts

vars == <<open, account, code, form, mailed, restarts>>

NoForm == [pc |-> "idle", email |-> None, code |-> None]
NoCode == [state |-> "none", email |-> None]

Taken(e) == \E a \in account : a.email = e
Owned == \E a \in account : a.role = "owner"

\* inviteForm.
Invite(c, e) ==
  /\ code[c].state = "none" /\ code' = [code EXCEPT ![c] = [state |-> "fresh", email |-> e]]
  /\ UNCHANGED <<open, account, form, mailed, restarts>>

\* A week passes, or upkeep purges what is used or over.
Fade(c) ==
  /\ \/ code[c].state = "fresh" /\ code' = [code EXCEPT ![c].state = "expired"]
     \/ code[c].state \in {"used", "expired"} /\ code' = [code EXCEPT ![c].state = "purged"]
  /\ UNCHANGED <<open, account, form, mailed, restarts>>

\* submitRegister, up to the hash of the password.
Submit(t, e, c) ==
  /\ form[t] = NoForm /\ form' = [form EXCEPT ![t] = [pc |-> "create", email |-> e, code |-> c]]
  /\ UNCHANGED <<open, account, code, mailed, restarts>>

Welcomed(t) == [email |-> form[t].email, role |-> "user", via |-> IF open THEN None ELSE form[t].code]

\* redeemTokenTx and what CreateWithInvite asks in the same transaction, which
\* is undone when the address has an account.
Redeemed(c, e) == code[c].state = "fresh" /\ code[c].email = e /\ ~Taken(e)

\* createAccount; a refused form leaves everything as it is.
Create(t) ==
  /\ form[t].pc = "create"
  /\ LET e == form[t].email
         by == form[t].code
         made == ~Taken(e) /\ (open \/ (by # None /\ Redeemed(by, e)))
     IN  /\ account' = IF made THEN account \cup {Welcomed(t)} ELSE account
         /\ code' = IF ~open /\ by # None /\ Redeemed(by, e) THEN [code EXCEPT ![by].state = "used"] ELSE code
         /\ form' = [form EXCEPT ![t] = IF made THEN [@ EXCEPT !.pc = "mail"] ELSE NoForm]
  /\ UNCHANGED <<open, mailed, restarts>>

\* sendVerification, unless the client is gone by then.
SendVerification(t) ==
  /\ form[t].pc = "mail" /\ form' = [form EXCEPT ![t] = NoForm]
  /\ mailed' = mailed \cup {form[t].email}
  /\ UNCHANGED <<open, account, code, restarts>>

Hangup(t) ==
  /\ form[t] # NoForm /\ form' = [form EXCEPT ![t] = NoForm]
  /\ UNCHANGED <<open, account, code, mailed, restarts>>

OwnerFrom(e) == [email |-> e, role |-> "owner", via |-> None]

\* Bootstrap: the owner of the environment, if there is none yet.
MayBootstrap(e) == ~Owned /\ ~Taken(e)

\* The process restarts, perhaps with another configuration.
Restart(e, mode) ==
  /\ restarts < MaxRestarts /\ restarts' = restarts + 1
  /\ open' = mode /\ form' = [t \in Tabs |-> NoForm]
  /\ account' = IF e # None /\ MayBootstrap(e) THEN account \cup {OwnerFrom(e)} ELSE account
  /\ UNCHANGED <<code, mailed>>

Init ==
  /\ open \in BOOLEAN /\ account = {} /\ code = [c \in Codes |-> NoCode]
  /\ form = [t \in Tabs |-> NoForm] /\ mailed = {} /\ restarts = 0

Next ==
  \/ \E c \in Codes : Fade(c) \/ \E e \in Emails : Invite(c, e)
  \/ \E t \in Tabs :
       \/ \E e \in Emails, c \in Codes \cup {None} : Submit(t, e, c)
       \/ Create(t) \/ SendVerification(t) \/ Hangup(t)
  \/ \E e \in Emails \cup {None}, mode \in BOOLEAN : Restart(e, mode)

Spec == Init /\ [][Next]_vars

-----------------------------------------------------------------------------
(* Properties *)

\* However forms overlap and the mode of registration changes: a code makes one
\* account, for the address it was sent to, and is only spent by doing so; an
\* address has one account, and the instance one owner.
Welcome ==
  /\ \A c \in Codes :
       LET guests == {a \in account : a.via = c}
       IN  /\ Cardinality(guests) <= 1
           /\ \A a \in guests : a.email = code[c].email /\ code[c].state \in {"used", "purged"}
           /\ code[c].state = "used" => guests # {}
  /\ \A a, b \in account : a.email = b.email \/ (a.role = "owner" /\ b.role = "owner") => a = b

=============================================================================
