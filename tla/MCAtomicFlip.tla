---------------------------- MODULE MCAtomicFlip ----------------------------
(***************************************************************************)
(* AtomicFlip with two outputs, set up by one commit.                      *)
(***************************************************************************)
EXTENDS AtomicFlip, TLC

CONSTANTS o1, o2

TwoOutputs == {o1, o2}
Symmetry == Permutations(TwoOutputs)

AllFaults == {"Modeset", "Commit", "Read"}
NoFaults  == {}

============================================================================
