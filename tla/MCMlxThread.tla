----------------------------- MODULE MCMlxThread -----------------------------
(* Instances of MlxThread for TLC.                                          *)
EXTENDS MlxThread

CONSTANTS d1, d2, s1, s2, s3

TwoDos == {d1, d2}
ThreeStops == {s1, s2, s3}
SomeCancelled == {d1, s1, s2}

=============================================================================
