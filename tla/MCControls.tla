----------------------------- MODULE MCControls -----------------------------
(* Instances of Controls for TLC.                                          *)
EXTENDS Controls, TLC

\* Each goes past one end of the scale from the default.
UpAndDown == {-2, 2}

\* The model names no client.
Interchangeable == Permutations(Clients)
=============================================================================
