------------------------------- MODULE MCJobs -------------------------------
(* Jobs for TLC. *)
EXTENDS Jobs

=============================================================================
