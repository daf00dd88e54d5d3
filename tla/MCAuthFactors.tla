---------------------------- MODULE MCAuthFactors ----------------------------
(* Instances of AuthFactors for TLC.                                       *)
EXTENDS AuthFactors, TLC

\* Users, secrets, batches, codes, devices and tokens are interchangeable.
MCSymmetry ==
    Permutations(User) \cup Permutations(Secret) \cup Permutations(Batch)
    \cup Permutations(Code) \cup Permutations(Fingerprint) \cup Permutations(Token)

=============================================================================
