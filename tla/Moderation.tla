----------------------------- MODULE Moderation -----------------------------
(***************************************************************************)
(* Blocks, reports and the audit log: internal/moderation/moderation.go    *)
(* and the handlers decideReport and blockSomething of                     *)
(* internal/web/admin_panel.go.                                            *)
(*                                                                         *)
(* Every operation is a statement on its table and then one that logs it,  *)
(* so operations overlap between the two and may be cut off there.  A value*)
(* stands for a kind and a normalised value.                               *)
(***************************************************************************)
EXTENDS Naturals, FiniteSets, Sequences

CONSTANTS
  Tabs,         \* requests
  Owners,       \* accounts
  Moderators,   \* those of them that CanModerate
  Values,
  Reports,
  None,         \* the instance, as the scope of a block
  MaxActs, MaxLost   \* bounds

VARIABLES
  block,    \* table block
  report,   \* table report
  audit,    \* table audit, in order
  act,      \* what each request has yet to log
  acts, lost

vars == <<block, report, audit, act, acts, lost>>

NoAct == [action |-> "idle", who |-> None, subject |-> None, detail |-> None]

Entry(action, who, subject, detail) ==
  [action |-> action, who |-> who, subject |-> subject, detail |-> detail]

Act(t, entry) ==
  /\ act[t] = NoAct /\ acts < MaxActs /\ acts' = acts + 1
  /\ act' = [act EXCEPT ![t] = entry]

\* requireModerator.
CanModerate(who) == who \in Moderators

\* The handler acts for the account itself or for the instance.
Allowed(who, scope) == scope = who \/ (scope = None /\ CanModerate(who))

Same(b, scope, value) == b.scope = scope /\ b.value = value

\* Block: on conflict, nothing is inserted, but it is logged all the same.
Block(t, who, scope, value) ==
  /\ Allowed(who, scope)
  /\ Act(t, Entry("block", who, value, scope))
  /\ block' = IF \E b \in block : Same(b, scope, value) THEN block
              ELSE block \cup {[scope |-> scope, value |-> value, by |-> who]}
  /\ UNCHANGED <<report, audit, lost>>

\* Unblock; its entry does not say in which scope.
Unblock(t, who, scope, value) ==
  /\ Allowed(who, scope)
  /\ Act(t, Entry("unblock", who, value, None))
  /\ block' = {b \in block : ~Same(b, scope, value)}
  /\ UNCHANGED <<report, audit, lost>>

Report(r) ==
  /\ report[r].state = "none" /\ report' = [report EXCEPT ![r].state = "open"]
  /\ UNCHANGED <<block, audit, act, acts, lost>>

\* Mutant: the statement does not ask whether the report is open.
UndecidedAny(r) == report[r].state # "none"

Undecided(r) == report[r].state = "open"

\* Decide; nothing is logged of a report that was decided before.
Decide(t, who, r, verdict) ==
  /\ CanModerate(who) /\ Undecided(r)
  /\ Act(t, Entry(verdict, who, r, None))
  /\ report' = [report EXCEPT ![r] = [state |-> verdict, by |-> who]]
  /\ UNCHANGED <<block, audit, lost>>

Log(t) ==
  /\ act[t] # NoAct /\ act' = [act EXCEPT ![t] = NoAct]
  /\ audit' = Append(audit, act[t])
  /\ UNCHANGED <<block, report, acts, lost>>

\* The request is cancelled, or the process stops, before the log is written.
Lose(t) ==
  /\ act[t] # NoAct /\ lost < MaxLost /\ lost' = lost + 1
  /\ act' = [act EXCEPT ![t] = NoAct]
  /\ UNCHANGED <<block, report, audit, acts>>

Init ==
  /\ block = {} /\ report = [r \in Reports |-> [state |-> "none", by |-> None]]
  /\ audit = <<>> /\ act = [t \in Tabs |-> NoAct] /\ acts = 0 /\ lost = 0

Next ==
  \/ \E t \in Tabs :
       \/ \E who \in Owners :
            \/ \E scope \in Owners \cup {None}, value \in Values :
                 Block(t, who, scope, value) \/ Unblock(t, who, scope, value)
            \/ \E r \in Reports, verdict \in {"upheld", "dismissed"} : Decide(t, who, r, verdict)
       \/ Log(t) \/ Lose(t)
  \/ \E r \in Reports : Report(r)

Spec == Init /\ [][Next]_vars

-----------------------------------------------------------------------------
(* Properties *)

Logged(entry) == {i \in DOMAIN audit : audit[i] = entry}
Pending(entry) == {t \in Tabs : act[t] = entry}

\* A block that is in force was logged in the name of whoever made it, or is
\* about to be, or its log was lost; and a report that is decided has one entry
\* at most, which agrees with the table on the verdict and on who gave it.
Audited ==
  /\ \A b \in block :
       LET entry == Entry("block", b.by, b.value, b.scope)
       IN  Logged(entry) # {} \/ Pending(entry) # {} \/ lost > 0
  /\ \A r \in Reports :
       LET entry == Entry(report[r].state, report[r].by, r, None)
           about == {i \in DOMAIN audit : audit[i].subject = r}
       IN  /\ about = Logged(entry) /\ Cardinality(about) + Cardinality(Pending(entry)) <= 1
           /\ report[r].state \in {"upheld", "dismissed"} =>
                about # {} \/ Pending(entry) # {} \/ lost > 0

\* A block goes away, or appears, only at a request of the account whose it is,
\* or of a moderator if it is the instance's.
OnlyTheirs ==
  \A b \in (block \ block') \cup (block' \ block) :
    \E t \in Tabs : act[t] = NoAct /\ Allowed(act'[t].who, b.scope)

=============================================================================
