--------------------------- MODULE MCConvergence ---------------------------
(***************************************************************************)
(* Readings of one item arriving one after the other, in every order, and  *)
(* what Resolve makes of those that are in, for TLC.                       *)
(***************************************************************************)
EXTENDS Convergence, Functions

CONSTANTS
  Top,         \* every compared number is in 0..Top
  MaxReadings  \* bound: how many readings arrive

ASSUME TopAssumption == Top \in Nat

VARIABLE candidates

Compared ==
  [claimed: {0, 1}, updated: 0..Top, fidelity: 0..Top, attachments: 0..Top, hash: 0..Top]

Init == candidates = <<>>

Arrive(c) ==
  /\ Len(candidates) < MaxReadings
  /\ candidates' = Append(candidates, c)

Next == \E c \in Compared : Arrive(c)

Spec == Init /\ [][Next]_candidates

-----------------------------------------------------------------------------
Winner(cs) == cs[Resolve(cs).at]

\* The five rules as one number: a reference the loop must agree with.
Score(c) ==
  LET n == Top + 1 IN
  (((c.claimed * n + c.updated) * n + c.fidelity) * n + c.attachments) * n + (Top - c.hash)

Positions == 1..Len(candidates)

\* Resolve picks a candidate with the highest score and, of equals, the
\* earliest row, which is the one with the lowest id.
WinnerIsBest ==
  candidates # <<>> =>
    LET w == Resolve(candidates).at IN
    \A n \in Positions :
      /\ Score(candidates[n]) <= Score(candidates[w])
      /\ n < w => Score(candidates[n]) < Score(candidates[w])

\* Two instances that read the same versions in different orders show the same
\* version, the one nothing beats, and give the same reason for it.
OrderIrrelevant ==
  /\ WinnerIsBest
  /\ candidates # <<>> =>
    \A p \in Bijection(Positions, Positions) :
      LET mixed == [n \in Positions |-> candidates[p[n]]] IN
      /\ Winner(mixed) = Winner(candidates)
      /\ Resolve(mixed).reason = Resolve(candidates).reason

Rules == <<"author origin", "newer", "fidelity", "attachments", "hash">>

Ties(a, b, rule) ==
  CASE rule = 1 -> a.claimed = b.claimed
    [] rule = 2 -> a.updated = b.updated
    [] rule = 3 -> a.fidelity = b.fidelity
    [] rule = 4 -> a.attachments = b.attachments
    [] rule = 5 -> FALSE

\* The reason names the rule that decided: some other candidate got as far as
\* that rule, and none got past it.
ReasonDecides ==
  Len(candidates) > 1 =>
    LET w == Resolve(candidates).at
        Survives(n, rule) == \A r \in 1..rule : Ties(candidates[n], candidates[w], r)
        rule == CHOOSE r \in 1..5 : Rules[r] = Resolve(candidates).reason
    IN  /\ \E n \in Positions \ {w} : Survives(n, rule - 1)
        /\ \A n \in Positions \ {w} : ~Survives(n, rule)

=============================================================================
