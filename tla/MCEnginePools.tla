---------------------------- MODULE MCEnginePools -----------------------------
(* Instances of EnginePools for TLC.                                        *)
EXTENDS EnginePools

CONSTANTS k1, k2, k3, r1, r2, i1, i2

ThreeKeys == {k1, k2, k3}
TwoRequests == {r1, r2}
TwoIds == {i1, i2}

=============================================================================
