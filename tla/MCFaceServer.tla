----------------------------- MODULE MCFaceServer -----------------------------
(* FaceServer for TLC: connections are interchangeable, and so are workers. *)
EXTENDS FaceServer, TLC

Symmetry == Permutations(Conns) \cup Permutations(Workers)
=============================================================================
