----------------------------- MODULE MCSettings -----------------------------
EXTENDS Settings, TLC

CONSTANTS to, go

(* Palmeiropolis, Peixe, Ceres and Rialma.                                  *)
MCSeeds == << <<to, 1>>, <<to, 0>>, <<go, 0>>, <<go, 0>> >>
Symmetry == Permutations(Requests)
=============================================================================
