----------------------------- MODULE MCVmControl -----------------------------
EXTENDS VmControl

CONSTANTS c1, c2

MCClients == {c1, c2}

\* A shrink (negative) and a grow request of the balloon.
MCBalloonPages == {-1, 3}

=============================================================================
