------------------------------ MODULE MCPoller ------------------------------
(* Poller for TLC. *)
EXTENDS Poller, TLC

\* The poller's goroutines are interchangeable.
WorkerSymmetry == Permutations(Workers)

=============================================================================
