----------------------------- MODULE Admission -----------------------------
(***************************************************************************)
(* What the age check and the replay cache promise together: during one    *)
(* life of the daemon an SPA packet is admitted at most once, and never    *)
(* later than Grace ticks after the time its sender stamped into it.       *)
(***************************************************************************)
EXTENDS Integers

CONSTANTS Packet,   \* wire texts, each identified with its SHA-256 digest
          Grace     \* ticks after its stamp during which a packet is admissible

VARIABLES clock,    \* the host's monotonic clock
          stamp,    \* time stamped into each packet, on the scale of clock
          admitted  \* how often each packet was admitted in this life

vars == <<clock, stamp, admitted>>

Init ==
    /\ clock = 0
    /\ stamp \in [Packet -> Int]
    /\ admitted = [p \in Packet |-> 0]

Pass ==
    /\ clock' = clock + 1
    /\ UNCHANGED <<stamp, admitted>>

Admit(p) ==
    /\ admitted[p] = 0
    /\ clock <= stamp[p] + Grace
    /\ admitted' = [admitted EXCEPT ![p] = 1]
    /\ UNCHANGED <<clock, stamp>>

NewLife ==
    /\ admitted' = [p \in Packet |-> 0]
    /\ UNCHANGED <<clock, stamp>>

Next == Pass \/ (\E p \in Packet : Admit(p)) \/ NewLife

Spec == Init /\ [][Next]_vars
=============================================================================
