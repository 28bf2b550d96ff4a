--------------------------- MODULE MCBlobDownload ---------------------------
(* Instances of BlobDownload for TLC.                                       *)
EXTENDS BlobDownload

CONSTANTS p1, p2

TwoPullers == {p1, p2}
FirstPuller == {p1}

=============================================================================
