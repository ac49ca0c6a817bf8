--------------------------- MODULE MCIngestQueue ---------------------------
(* Instances of IngestQueue for TLC. *)
EXTENDS IngestQueue, TLC

CONSTANTS p1, p2, w1, w2, e1, e2

OneAlbum  == p1 :> e1 @@ p2 :> e1
TwoAlbums == p1 :> e1 @@ p2 :> e2
=============================================================================
