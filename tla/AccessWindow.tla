---------------------------- MODULE AccessWindow ----------------------------
(***************************************************************************)
(* What fwknopd promises about the rules it opens.  While the daemon is up *)
(* a rule that is open is one the daemon is going to close; a rule becomes *)
(* an orphan, open with nobody to close it, only when the daemon stops.    *)
(***************************************************************************)
CONSTANT Rule

VARIABLES up,       \* the daemon is running
          window    \* window[r] \in {"closed", "open", "orphan"}

vars == <<up, window>>

Init ==
    /\ up = TRUE
    /\ window = [r \in Rule |-> "closed"]

\* A request opens a closed rule or takes charge of an orphan; opening one
\* rule may close others.
Grant(r) ==
    /\ up
    /\ window[r] \in {"closed", "orphan"}
    /\ \E S \in SUBSET (Rule \ {r}) :
          window' = [q \in Rule |-> IF q = r THEN "open"
                                    ELSE IF q \in S THEN "closed" ELSE window[q]]
    /\ UNCHANGED up

\* Rules are closed, by the daemon or by the firewall itself.
Withdraw(S) ==
    /\ S # {}
    /\ window' = [q \in Rule |-> IF q \in S THEN "closed" ELSE window[q]]
    /\ UNCHANGED up

\* The daemon stops; what is still open has lost its closer.
Stop ==
    /\ up
    /\ up' = FALSE
    /\ window' = [q \in Rule |-> IF window[q] = "closed" THEN "closed" ELSE "orphan"]

\* The daemon starts; its init command may remove old rules.
Start ==
    /\ ~ up
    /\ up' = TRUE
    /\ \E S \in SUBSET Rule :
          window' = [q \in Rule |-> IF q \in S THEN "closed" ELSE window[q]]

Next ==
    \/ \E r \in Rule : Grant(r)
    \/ \E S \in SUBSET Rule : Withdraw(S)
    \/ Stop
    \/ Start

Spec == Init /\ [][Next]_vars
=============================================================================
