---------------------------- MODULE MCAuthDevices ----------------------------
(* Instances of AuthDevices for TLC.                                       *)
EXTENDS AuthDevices, TLC

\* Users, record ids, fingerprints, sessions and items are interchangeable.
MCSymmetry ==
    Permutations(User) \cup Permutations(Device) \cup Permutations(Fingerprint)
    \cup Permutations(Session) \cup Permutations(Item)

=============================================================================
