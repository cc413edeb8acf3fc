---------------------------- MODULE SecondFactor ----------------------------
(***************************************************************************)
(* The second factor of one account: internal/identity/totp.go and the     *)
(* pages of internal/web/admin_panel.go that switch it on and off.         *)
(*                                                                         *)
(* Requests overlap, and none of the operations is a transaction: each     *)
(* statement is a step.  A code is the secret and the time step it was     *)
(* computed from, so codes of different secrets never agree by chance.     *)
(***************************************************************************)
EXTENDS Naturals, FiniteSets

CONSTANTS
  Pages,          \* the requests
  TOTPWindow,
  RecoveryCodes,  \* how many recovery codes an enrolment shows
  MaxStep, MaxSecrets, MaxCuts   \* bounds

VARIABLES
  step,      \* the clock, in time steps
  totp,      \* the columns of the account: secret, whether confirmed, last step
  codes,     \* table recovery_code: the codes that are not used
  visit,      \* the requests
  secrets,   \* how many secrets there have been
  shown,     \* the recovery codes the owner saw last (history)
  accepted,  \* how often each code was accepted (history)
  proven,    \* the secret the owner confirmed last (history)
  clashed,     \* whether the row changed between the read and the write of a check (history)
  crossed,   \* whether an enrolment overlapped or repeated another one (history)
  whole,     \* whether the last enrolment went to its end (history)
  offs,      \* what switched the second factor off last (history)
  broken     \* requests that were cut off

vars == <<step, totp, codes, visit, secrets, shown, accepted, proven, clashed, crossed, whole, offs, broken>>

Secrets == 1..MaxSecrets
Codes == [secret : Secrets, step : 1..MaxStep]
Recovery == [secret : Secrets, n : 1..RecoveryCodes]

Resting == [pc |-> "idle", row |-> [secret |-> 0, on |-> FALSE, last |-> 0], code |-> 0, left |-> 0]

history == <<shown, accepted, proven, clashed, crossed, whole, offs, broken>>

Go(h, pc) == visit' = [visit EXCEPT ![h].pc = pc]
Finish(h) == visit' = [visit EXCEPT ![h] = Resting]

\* matchTOTP: the codes of the steps around now.
Matches(secret, code) ==
  /\ code.secret = secret
  /\ code.step <= step + TOTPWindow /\ step <= code.step + TOTPWindow

-----------------------------------------------------------------------------
(* Switching it on *)

\* twoFactorPage and BeginTOTP: nothing happens when it is on already ...
BeginTOTP(h) ==
  /\ visit[h].pc = "idle" /\ ~totp.on
  /\ visit' = [visit EXCEPT ![h] = [Resting EXCEPT !.pc = "begin", !.row = totp]]
  /\ UNCHANGED <<step, totp, codes, secrets, history>>

\* ... and otherwise a new secret replaces the one that is there.
NewSecret(h) ==
  /\ visit[h].pc = "begin" /\ secrets < MaxSecrets
  /\ secrets' = secrets + 1
  /\ totp' = [totp EXCEPT !.secret = secrets + 1, !.on = FALSE]
  /\ crossed' = (crossed \/ totp # visit[h].row)
  /\ offs' = IF totp.on THEN "page" ELSE offs
  /\ Finish(h)
  /\ UNCHANGED <<step, codes, shown, accepted, proven, clashed, whole, broken>>

\* enableTwoFactor and ConfirmTOTP, with the code of some secret shown before.
ConfirmTOTP(h, code) ==
  /\ visit[h].pc = "idle" /\ totp.secret # 0 /\ Matches(totp.secret, code)
  /\ visit' = [visit EXCEPT ![h] = [Resting EXCEPT !.pc = "confirm", !.row = totp, !.code = code.step]]
  /\ UNCHANGED <<step, totp, codes, secrets, history>>

\* A code that is wrong: the page starts the enrolment over.
WrongCode(h, code) ==
  /\ visit[h].pc = "idle" /\ totp.secret # 0 /\ ~Matches(totp.secret, code) /\ code.secret <= secrets
  /\ IF totp.on THEN UNCHANGED visit
     ELSE visit' = [visit EXCEPT ![h] = [Resting EXCEPT !.pc = "begin", !.row = totp]]
  /\ UNCHANGED <<step, totp, codes, secrets, history>>

\* The row is confirmed, with whatever secret it has by now.
Confirmed(h) ==
  /\ visit[h].pc = "confirm" /\ Go(h, "clean")
  /\ totp' = [totp EXCEPT !.on = TRUE, !.last = visit[h].code]
  /\ accepted' = [accepted EXCEPT ![[secret |-> visit[h].row.secret, step |-> visit[h].code]] = @ + 1]
  /\ proven' = visit[h].row.secret
  /\ crossed' = (crossed \/ totp # visit[h].row \/ totp.on)
  /\ clashed' = (clashed \/ totp.last # visit[h].row.last)
  /\ whole' = FALSE
  /\ UNCHANGED <<step, codes, secrets, shown, broken, offs>>

\* Mutant: the codes of the last enrolment stay.
CleanNothing(h) ==
  /\ visit[h].pc = "clean"
  /\ visit' = [visit EXCEPT ![h].pc = "insert", ![h].left = RecoveryCodes]
  /\ UNCHANGED <<step, totp, codes, secrets, history>>

\* regenerateRecoveryCodes deletes the old ones ...
CleanCodes(h) ==
  /\ visit[h].pc = "clean" /\ codes' = {}
  /\ visit' = [visit EXCEPT ![h].pc = "insert", ![h].left = RecoveryCodes]
  /\ UNCHANGED <<step, totp, secrets, history>>

\* ... and stores the new ones one by one; the page shows them in the end.
InsertCode(h) ==
  LET batch == visit[h].row.secret
  IN  /\ visit[h].pc = "insert"
      /\ codes' = codes \cup {[secret |-> batch, n |-> visit[h].left]}
      /\ IF visit[h].left > 1 THEN /\ visit' = [visit EXCEPT ![h].left = @ - 1] /\ UNCHANGED <<shown, whole>>
         ELSE Finish(h) /\ shown' = {c \in Recovery : c.secret = batch} /\ whole' = TRUE
      /\ UNCHANGED <<step, totp, secrets, accepted, proven, clashed, crossed, offs, broken>>

-----------------------------------------------------------------------------
(* Using it, and switching it off *)

\* A step is only good when it is later than the last one.
FreshStep(h) == visit[h].code > visit[h].row.last

\* CheckSecondFactor reads the row ...
CheckSecondFactor(h, code) ==
  /\ visit[h].pc = "idle" /\ totp.on /\ Matches(totp.secret, code)
  /\ visit' = [visit EXCEPT ![h] = [Resting EXCEPT !.pc = "check", !.row = totp, !.code = code.step]]
  /\ UNCHANGED <<step, totp, codes, secrets, history>>

\* ... refuses a step that is not new ...
Reused(h) ==
  /\ visit[h].pc = "check" /\ ~FreshStep(h) /\ Finish(h)
  /\ UNCHANGED <<step, totp, codes, secrets, history>>

\* ... and writes the step down otherwise.
UseStep(h) ==
  /\ visit[h].pc = "check" /\ FreshStep(h) /\ Finish(h)
  /\ totp' = [totp EXCEPT !.last = visit[h].code]
  /\ accepted' = [accepted EXCEPT ![[secret |-> visit[h].row.secret, step |-> visit[h].code]] = @ + 1]
  /\ clashed' = (clashed \/ totp # visit[h].row)
  /\ UNCHANGED <<step, codes, secrets, shown, proven, crossed, whole, offs, broken>>

\* useRecoveryCode, one statement; the owner knows the codes shown last.
UseRecoveryCode(c) ==
  /\ totp.on /\ c \in codes \cap shown /\ codes' = codes \ {c}
  /\ shown' = shown \ {c}
  /\ UNCHANGED <<step, totp, visit, secrets, accepted, proven, clashed, crossed, whole, offs, broken>>

\* disableTwoFactor and DisableTOTP, the first statement ...
DisableTOTP(h) ==
  /\ visit[h].pc = "idle" /\ totp.on
  /\ totp' = [totp EXCEPT !.secret = 0, !.on = FALSE]
  /\ crossed' = (crossed \/ \E g \in Pages : visit[g].pc \in {"confirm", "clean", "insert", "forget"})
  /\ offs' = "owner"
  /\ visit' = [visit EXCEPT ![h] = [Resting EXCEPT !.pc = "forget"]]
  /\ UNCHANGED <<step, codes, secrets, shown, accepted, proven, clashed, whole, broken>>

\* ... and the second.
ForgetCodes(h) ==
  /\ visit[h].pc = "forget" /\ Finish(h)
  /\ codes' = {} /\ shown' = {}
  /\ crossed' = (crossed \/ \E g \in Pages \ {h} : visit[g].pc \in {"clean", "insert"})
  /\ UNCHANGED <<step, totp, secrets, accepted, proven, clashed, whole, offs, broken>>

\* The client is gone or the process stops: the statements left are not run.
Cut(h) ==
  /\ visit[h].pc # "idle" /\ broken < MaxCuts /\ broken' = broken + 1
  /\ Finish(h)
  /\ UNCHANGED <<step, totp, codes, secrets, shown, accepted, proven, clashed, crossed, whole, offs>>

Tick ==
  /\ step < MaxStep /\ step' = step + 1
  /\ UNCHANGED <<totp, codes, visit, secrets, history>>

Init ==
  /\ step = 1 /\ totp = Resting.row /\ codes = {} /\ visit = [h \in Pages |-> Resting] /\ secrets = 0
  /\ shown = {} /\ accepted = [c \in Codes |-> 0] /\ proven = 0
  /\ clashed = FALSE /\ crossed = FALSE /\ whole = FALSE /\ offs = "none" /\ broken = 0

Next ==
  \/ \E h \in Pages :
       \/ BeginTOTP(h) \/ NewSecret(h) \/ Confirmed(h) \/ CleanCodes(h) \/ InsertCode(h)
       \/ \E code \in Codes : ConfirmTOTP(h, code) \/ WrongCode(h, code) \/ CheckSecondFactor(h, code)
       \/ Reused(h) \/ UseStep(h) \/ DisableTOTP(h) \/ ForgetCodes(h) \/ Cut(h)
  \/ \E c \in Recovery : UseRecoveryCode(c)
  \/ Tick

Spec == Init /\ [][Next]_vars

-----------------------------------------------------------------------------
(* Properties *)

\* A code is good once: the one that confirmed the enrolment does not sign in,
\* and no code signs in twice, unless two checks overlapped or the form that
\* switches it on was sent once more when it was on.
CodeOnce == ~clashed /\ ~crossed => \A c \in Codes : accepted[c] <= 1

\* The second factor is on with the secret its owner confirmed, and stays on
\* until the owner switches it off, unless a page that was asked for before it
\* was switched on overlapped the enrolment.
Enrolled == ~crossed => (totp.on => totp.secret = proven) /\ offs # "page"

\* Once an enrolment has shown its recovery codes, those that work are exactly
\* the ones it showed and the owner has not used: none of an earlier enrolment is
\* left, also where a disabling was cut off, and none that was shown is missing.
CodesShown ==
  ~crossed /\ totp.on /\ whole => codes = shown

=============================================================================
