-------------------------- MODULE MCApprovalResume --------------------------
(* ApprovalResume and its inductive invariant with small sets for TLC. *)
EXTENDS ApprovalResumeInvariant, TLC

Perms == Permutations(Requests)

=============================================================================
