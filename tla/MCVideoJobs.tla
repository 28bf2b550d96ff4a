---------------------------- MODULE MCVideoJobs ------------------------------
(* Instances of VideoJobs for TLC.                                          *)
EXTENDS VideoJobs

CONSTANTS j1, q1, e1

OneJob == {j1}
OneRequest == {q1}
OneEngine == {e1}

=============================================================================
