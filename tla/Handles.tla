------------------------------ MODULE Handles -------------------------------
(***************************************************************************)
(* How an account gets the handle its posts, its feed and its actor are    *)
(* known by: EnsureHandle of internal/publish/publish.go, which whatever   *)
(* page needs a handle calls, so several requests of one account and of    *)
(* accounts with similar addresses overlap.  Each try is a statement, and  *)
(* the unique index on the handle decides it.                              *)
(***************************************************************************)
EXTENDS Naturals

CONSTANTS
  Requests,
  Accounts,
  Names,
  None,
  MaxTries,   \* attempts of the loop
  Candidate   \* handleFrom: what each account tries, in order

\* What the theorems about this module suppose of the constants.
HandlesAssumption ==
  /\ MaxTries \in Nat
  /\ Candidate \in [Accounts -> [0..(MaxTries - 1) -> Names]]
  /\ None \notin Names /\ None \notin Accounts

VARIABLES
  handle,   \* the column of table account
  ask,      \* the calls under way: which candidate is tried next
  given     \* what the calls returned (history)

vars == <<handle, ask, given>>

Idle == [account |-> None, try |-> 0]

Free(a, name) == \A b \in Accounts \ {a} : handle[b] # name

\* The handle is read, and returned if there is one.
EnsureHandle(r, a) ==
  /\ ask[r].account = None
  /\ IF handle[a] # None
     THEN given' = given \cup {<<a, handle[a]>>} /\ UNCHANGED ask
     ELSE ask' = [ask EXCEPT ![r] = [account |-> a, try |-> 0]] /\ UNCHANGED given
  /\ UNCHANGED handle

\* What is tried after a candidate that is taken.
Following(r, a) ==
  IF ask[r].try + 1 < MaxTries THEN [account |-> a, try |-> ask[r].try + 1] ELSE Idle

\* One turn of the loop: the candidate is taken, whatever handle the account has
\* by now, or somebody else has it and the next one is tried.
Try(r, a) ==
  LET name == Candidate[a][ask[r].try]
  IN  /\ ask[r].account = a /\ ask[r].try < MaxTries
      /\ \/ /\ Free(a, name)
            /\ handle' = [handle EXCEPT ![a] = name]
            /\ given' = given \cup {<<a, name>>}
            /\ ask' = [ask EXCEPT ![r] = Idle]
         \/ /\ ~Free(a, name)
            /\ ask' = [ask EXCEPT ![r] = Following(r, a)]
            /\ UNCHANGED <<handle, given>>

\* Another error, or the client is gone.
Cut(r) ==
  /\ ask[r] # Idle /\ ask' = [ask EXCEPT ![r] = Idle]
  /\ UNCHANGED <<handle, given>>

Init ==
  /\ handle = [a \in Accounts |-> None]
  /\ ask = [r \in Requests |-> Idle]
  /\ given = {}

Next ==
  \E r \in Requests : Cut(r) \/ \E a \in Accounts : EnsureHandle(r, a) \/ Try(r, a)

Spec == Init /\ [][Next]_vars

-----------------------------------------------------------------------------
(* Properties *)

\* A handle that was returned once is the account's for good, although a call
\* that began before the account had one goes on trying: links, feeds and the
\* actor that were published under it stay true.  Nobody else ever has it.
HandleStands ==
  \A g \in given : /\ handle[g[1]] = g[2]
                   /\ \A a \in Accounts : handle[a] = g[2] => a = g[1]

=============================================================================
