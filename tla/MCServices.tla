----------------------------- MODULE MCServices -----------------------------
(* Values of the constants of Services: two of most things. *)
EXTENDS Services, TLC

CONSTANTS
  t1, t2,   \* requests
  o1, o2,   \* accounts, and their addresses
  b1,       \* a browser
  k1, k2,   \* keys, codes, links, contents
  d1, d2,   \* takers of backups
  m1, m2    \* a moderator and an account

\* Two files: an account may have either, but not both.
Sizes == k1 :> 1 @@ k2 :> 2

\* Three accounts, two of which have the same name before the @, and the third
\* the one the second of them would get.
Tried ==
  m1 :> (0 :> "al" @@ 1 :> "al2") @@ m2 :> (0 :> "al" @@ 1 :> "al2")
  @@ b1 :> (0 :> "al2" @@ 1 :> "al22")

\* The items of the timeline are numbered by their dates.
MCInit == Init /\ (part = "reading" => \A k, l \in Items : k < l => item[k].order <= item[l].order)

MCSpec == MCInit /\ [][Next]_all

\* Once an enrolment overlapped another one its properties promise nothing.
Uncrossed == part = "factor" => ~crossed

\* Tabs, accounts and takers are alike wherever they occur.
Symmetry == Permutations({t1, t2}) \cup Permutations({o1, o2}) \cup Permutations({d1, d2})

=============================================================================
