--------------------------- MODULE MCMediaLibrary ---------------------------
(* Instances of MediaLibrary for TLC; the callers are interchangeable. *)
EXTENDS MediaLibrary, TLC

CallerSymmetry == Permutations(Callers)

\* Every original has two variants, and one when ffprobe fails.
SmallSide == [v \in Videos |-> 720]
=============================================================================
