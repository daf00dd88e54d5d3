---------------------------- MODULE MCUpdateAgent ----------------------------
(* Instances of UpdateAgent for TLC.                                       *)
EXTENDS UpdateAgent

MCPhases == BootPhases \cup Stages \cup {"run"}
MCSafePhases == MCPhases \ FragilePhases
MCUnswapped == MCPhases \ {"swap", "rollback"}
MCRolledBack == MCPhases \ {"rollback"}
MCSwapPhases == {"run", "swap"}
MCIdlePhases == {"run"}
MCNoPhases == {}

=============================================================================
