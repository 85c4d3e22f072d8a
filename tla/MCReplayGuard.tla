--------------------------- MODULE MCReplayGuard ---------------------------
(* Instances of ReplayGuard for TLC. *)
EXTENDS ReplayGuard

\* Timestamps: one packet may be older than the other.
MCStamps == {0, 1}

\* The wall clock is stepped back, and forward again.
MCOffsets == {-1, 0, 1}
MCLeastOffset == -1

\* The lead of a client whose clock runs two ticks ahead of the server's.
MCAhead == -2

MCSteady == {0}
=============================================================================
