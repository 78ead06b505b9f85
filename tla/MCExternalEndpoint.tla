------------------------- MODULE MCExternalEndpoint -------------------------
(* One external endpoint, one or two pushers, and its heartbeat.           *)
EXTENDS ExternalEndpoint

CONSTANTS p1, p2

OnePusher == {p1}
TwoPushers == {p1, p2}
=============================================================================
