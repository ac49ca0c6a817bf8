--------------------------- MODULE MCWorkerImage ---------------------------
(* Instances of WorkerImage for TLC. *)
EXTENDS WorkerImage

CONSTANTS r0, r1, r2, q1, q2, k1, k2, c1, c2

\* A frame to enrol from beside one that is not; none at all; too many.
AllFrames == {<<"none", "face">>, <<"many", "far">>, <<"face", "face", "face">>}
=============================================================================
