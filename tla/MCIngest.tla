------------------------------ MODULE MCIngest ------------------------------
(***************************************************************************)
(* An author's own feed, before and after an edit, and an aggregator that  *)
(* relays one of its items.                                                *)
(***************************************************************************)
EXTENDS Ingest, TLC

CONSTANTS s1, s2, k1, k2

Cand(claimed, updated, hash) ==
  [claimed |-> claimed, updated |-> updated, fidelity |-> 1, attachments |-> 0, hash |-> hash]

Original == [src |-> s1, items |-> <<[key |-> k1, cand |-> Cand(1, 1, 1)]>>]

Edited ==
  [src |-> s1, items |-> <<[key |-> k1, cand |-> Cand(1, 2, 2)],
                           [key |-> k2, cand |-> Cand(1, 2, 3)]>>]

Relayed == [src |-> s2, items |-> <<[key |-> k1, cand |-> Cand(0, 2, 2)]>>]

MCSources == {s1, s2}
MCKeys == {k1, k2}
AuthorDocs == {Original, Edited}
MixedDocs == {Edited, Relayed}
PlainDocs == {Original, Relayed}
Symmetry == Permutations(Actors)

=============================================================================
