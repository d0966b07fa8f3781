--------------------------- MODULE MCIkev2Initial ---------------------------
(* Instances of Ikev2Initial for TLC.                                        *)
EXTENDS Ikev2Initial

CONSTANTS g1, g2

Both == {g1, g2}
AutoOrBusy == {"auto", "busy"}
Busy == {"busy"}
Auto == {"auto"}
=============================================================================
