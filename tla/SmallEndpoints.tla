--------------------------- MODULE SmallEndpoints ---------------------------
(* Values of the constants of Alerting for TLC.                            *)

\* Two alerts: a quick one and a slow one.
TwoFailureThresholds == <<1, 3>>
TwoSuccessThresholds == <<3, 2>>
EqualThresholds == <<2, 2>>
TwoIntervals == <<1, 3>>
FirstReminded == <<2, 0>>
TwoChecksums == <<"c1", "c2">>
SharedChecksum == <<"c1", "c1">>
AlwaysBoth == {{1, 2}}
AnyEnabled == SUBSET {1, 2}
=============================================================================
