---------------------------- MODULE MCAuthService ----------------------------
(* Constants of the AuthService runs.                                       *)
EXTENDS AuthService, TLC

(* Addresses, passwords and threads of one kind are interchangeable.        *)
Symmetry ==
  Permutations(Emails) \cup Permutations(Passwords) \cup Permutations(GrpcThreads)
=============================================================================
