----------------------------- MODULE Convergence -----------------------------
(***************************************************************************)
(* internal/convergence: of all the readings of one item, which is shown,  *)
(* and why.  A candidate carries what the rules compare; the content hash  *)
(* is a number, compared like bytes.Compare compares it.                   *)
(***************************************************************************)
EXTENDS Integers, Sequences

Candidate ==
  [claimed: {0, 1}, updated: Int, fidelity: Nat, attachments: Nat, hash: Nat]

\* Mutant: no tie-break by content hash.
BeatsNoHash(a, b) ==
  \/ a.claimed > b.claimed
  \/ /\ a.claimed = b.claimed
     /\ \/ a.updated > b.updated
        \/ /\ a.updated = b.updated
           /\ \/ a.fidelity > b.fidelity
              \/ a.fidelity = b.fidelity /\ a.attachments > b.attachments

\* The order of the rules, with the reason each one gives.
Beats(a, b) ==
  \/ a.claimed > b.claimed
  \/ /\ a.claimed = b.claimed
     /\ \/ a.updated > b.updated
        \/ /\ a.updated = b.updated
           /\ \/ a.fidelity > b.fidelity
              \/ /\ a.fidelity = b.fidelity
                 /\ \/ a.attachments > b.attachments
                    \/ a.attachments = b.attachments /\ a.hash < b.hash

Reason(a, b) ==
  CASE a.claimed # b.claimed -> "author origin"
    [] a.claimed = b.claimed /\ a.updated # b.updated -> "newer"
    [] a.claimed = b.claimed /\ a.updated = b.updated /\ a.fidelity # b.fidelity
         -> "fidelity"
    [] /\ a.claimed = b.claimed /\ a.updated = b.updated
       /\ a.fidelity = b.fidelity /\ a.attachments # b.attachments -> "attachments"
    [] OTHER -> "hash"

\* The loop of best: the position of the first candidate no later one beats.
Best(candidates) ==
  LET at[n \in 1..Len(candidates)] ==
        IF n = 1 THEN 1
        ELSE IF Beats(candidates[n], candidates[at[n - 1]]) THEN n ELSE at[n - 1]
  IN  at[Len(candidates)]

Without(candidates, at) ==
  SubSeq(candidates, 1, at - 1) \o SubSeq(candidates, at + 1, Len(candidates))

\* Mutant: the reason is given against the first of the others.
ResolveFirstOther(candidates) ==
  LET at == Best(candidates)
      rest == Without(candidates, at)
  IN  [at |-> at,
       reason |-> IF Len(candidates) = 1 THEN "only candidate"
                  ELSE Reason(candidates[at], rest[1])]

\* The caller never asks about nothing.
Resolve(candidates) ==
  LET at == Best(candidates)
      rest == Without(candidates, at)
  IN  [at |-> at,
       reason |-> IF Len(candidates) = 1 THEN "only candidate"
                  ELSE Reason(candidates[at], rest[Best(rest)])]

=============================================================================
