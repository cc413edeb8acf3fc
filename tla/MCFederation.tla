---------------------------- MODULE MCFederation ----------------------------
(* Values of the constants of Federation: one post, two handlers, and one   *)
(* follower more than the ceiling.                                          *)
EXTENDS Federation, TLC

CONSTANTS
  r1, r2,   \* handlers
  i1, i2,  \* inboxes
  web,     \* a page a reply answers
  a1       \* a remote actor

\* Handlers are interchangeable.
Symmetry == Permutations({r1, r2})

Offered == {{"websub"}, {"rsscloud"}}

\* Bound: a sender changes its key or is blocked, but not both.
OneEvent == part = "inbox" => (key[a1].key - 1) + blocks <= 1

=============================================================================
