--------------------------- MODULE MCControlServer ---------------------------
(* Instances of ControlServer for TLC.                                     *)
EXTENDS ControlServer, TLC

\* Users do the same things.
MCSymmetry == Permutations(Users)

=============================================================================
