----------------------------- MODULE AtomicUpdate -----------------------------
(***************************************************************************)
(* What the updater promises (README "atomic update staging with           *)
(* rollback-aware managed root swaps", docs/deployment.md "Release         *)
(* behavior"), without saying how: the device always runs one whole        *)
(* release; a newer one is put aside whole, may be given up again, and     *)
(* replaces the installed one in a single step.                            *)
(***************************************************************************)
EXTENDS Naturals

CONSTANT MaxRelease

VARIABLES
    published,   \* the newest release the host serves
    staged,      \* the release put aside for the next startup, or None
    installed    \* the release the device runs

vars == <<published, staged, installed>>

None == 0

Init == published = 1 /\ staged = None /\ installed = 1

Publish ==
    /\ published' \in (published + 1) .. MaxRelease
    /\ UNCHANGED <<staged, installed>>

\* Only a release that was published, and only one newer than the installed.
Stage ==
    /\ staged' \in (installed + 1) .. published
    /\ UNCHANGED <<published, installed>>

GiveUp ==
    /\ staged' = None
    /\ UNCHANGED <<published, installed>>

Install ==
    /\ staged # None
    /\ installed' = staged
    /\ staged' = None
    /\ UNCHANGED published

Next == Publish \/ Stage \/ GiveUp \/ Install

Spec == Init /\ [][Next]_vars

\* What the promise comes to: the device runs a release that was published, and
\* what is put aside is a newer one, published too.
InOrder ==
    /\ published \in Nat
    /\ installed \in 1 .. published
    /\ staged # None => staged \in (installed + 1) .. published

\* No step takes the device back, and what was put aside leaves that place only
\* by being given up or installed.
NeverBack ==
    [][installed' >= installed /\ (installed' # installed => installed' = staged)]_vars

=============================================================================
