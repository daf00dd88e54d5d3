---------------------------- MODULE MCAuthAccounts ----------------------------
(* Instances of AuthAccounts for TLC.                                      *)
EXTENDS AuthAccounts, TLC

\* Accounts do the same things, and so do addresses.
MCSymmetry == Permutations(User) \cup Permutations(Email)

=============================================================================
