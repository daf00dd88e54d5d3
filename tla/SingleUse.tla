------------------------------ MODULE SingleUse ------------------------------
(***************************************************************************)
(* What the auth registry promises of everything that may be used once:    *)
(* refresh tokens, password reset tokens, OAuth states, pairing codes,     *)
(* backup codes.  A ticket is issued, is live for a time, and is dead from *)
(* its use, its expiry or its withdrawal on: no order of requests makes a  *)
(* dead ticket live again, and a ticket is used at most once.  Only a      *)
(* ticket that may be stillborn can be dead when it is issued.             *)
(***************************************************************************)
EXTENDS Naturals

CONSTANTS
    Ticket,
    Stillborn   \* tickets that may be dead from the start

VARIABLES
    phase,   \* where each ticket is in its life
    uses     \* how often each ticket was redeemed

\* The phases a ticket t in phase p may be in after a step.
Onward(t, p) ==
    CASE p = "unissued" -> {"unissued", "live"} \cup IF t \in Stillborn THEN {"dead"} ELSE {}
      [] p = "live"     -> {"live", "dead"}
      [] p = "dead"     -> {"dead"}

Init ==
    /\ phase = [t \in Ticket |-> "unissued"]
    /\ uses = [t \in Ticket |-> 0]

\* Time passes, tickets are issued, expire or are withdrawn.
Age == UNCHANGED uses

\* A redemption: the ticket was live and is dead with the same step.
Redeem(t) ==
    /\ phase[t] = "live"
    /\ phase'[t] = "dead"
    /\ uses' = [uses EXCEPT ![t] = @ + 1]

Next ==
    /\ DOMAIN phase' = Ticket
    /\ \A t \in Ticket : phase'[t] \in Onward(t, phase[t])
    /\ Age \/ \E t \in Ticket : Redeem(t)

Spec == Init /\ [][Next]_<<phase, uses>>

\* What the promise comes to: no ticket is redeemed twice, and one that was
\* redeemed is dead.
AtMostOnce ==
    /\ uses \in [Ticket -> {0, 1}]
    /\ \A t \in Ticket : uses[t] = 1 => phase[t] = "dead"

=============================================================================
